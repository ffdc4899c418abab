-------------------------- MODULE InboundEmail_proofs --------------------------
(***************************************************************************)
(* Proofs about InboundEmail for any senders, limit, batches and bounds: its   *)
(* types, that a mail is worked on and answered at most once, what a row says   *)
(* of its mail, and that the hourly limit is kept.                          *)
(***************************************************************************)
EXTENDS InboundEmail, SequenceTheorems, FiniteSetTheorems, TLAPS

\* A list of mails' attributes that gets one for a mail that arrives.
LEMMA AppendOne ==
  ASSUME NEW S, NEW n \in Nat, NEW f \in [1..n -> S], NEW e \in S
  PROVE  /\ Append(f, e) \in [1..n + 1 -> S]
         /\ \A i \in 1..n : Append(f, e)[i] = f[i]
         /\ Append(f, e)[n + 1] = e
<1>1. f \in Seq(S) /\ Len(f) = n
  OBVIOUS
<1> DEFINE g == Append(f, e)
<1>2. g \in Seq(S) /\ Len(g) = n + 1 /\ (\A i \in 1..n : g[i] = f[i]) /\ g[n + 1] = e
  BY <1>1, AppendProperties
<1> HIDE DEF g
<1>3. g \in [1..n + 1 -> S]
  BY <1>2, LenProperties
<1> QED BY <1>2, <1>3 DEF g

LEMMA MailsAreFinite ==
  ASSUME mail \in Seq([kind : Kinds, from : Senders])
  PROVE  /\ Len(mail) \in Nat /\ IsFiniteSet(M)
         /\ \A m \in M : mail[m].kind \in Kinds /\ mail[m].from \in Senders
<1>1. Len(mail) \in Nat
  BY LenProperties
<1>2. ASSUME NEW m \in M PROVE mail[m].kind \in Kinds /\ mail[m].from \in Senders
  <2>1. mail[m] \in [kind : Kinds, from : Senders]
    BY <1>2, ElementOfSeq DEF M
  <2> QED BY <2>1
<1>3. IsFiniteSet(1..Len(mail))
  BY <1>1, FS_Interval
<1> QED BY <1>1, <1>2, <1>3 DEF M

\* The thread has a mail in hand unless it sleeps.
LEMMA InHand ==
  ASSUME TypeOK, pc # "asleep"
  PROVE  m0 \in M /\ Len(batch) \in Nat /\ Len(batch) >= 1
BY HeadTailProperties, LenProperties DEF TypeOK, m0

\* The next mail of the batch, or sleep.
LEMMA TakeNextType ==
  ASSUME TypeOK, TakeNext, pc # "asleep"
  PROVE  batch' \in Seq(M) /\ pc' \in {"asleep", "screen"} /\ (pc' = "asleep" <=> batch' = <<>>)
<1>1. batch \in Seq(M) /\ batch # <<>>
  BY DEF TypeOK
<1>2. Tail(batch) \in Seq(M) /\ Len(Tail(batch)) = Len(batch) - 1 /\ Len(batch) \in Nat
  BY <1>1, HeadTailProperties, LenProperties
<1>3. Len(batch) = 1 <=> Tail(batch) = <<>>
  BY <1>2, EmptySeq
<1> QED BY <1>2, <1>3 DEF TakeNext

LEMMA OneMore ==
  ASSUME NEW S, NEW f \in [S -> Nat], NEW m \in S
  PROVE  [f EXCEPT ![m] = @ + 1] \in [S -> Nat]
OBVIOUS

LEMMA NoAgentType == NoAgent \in Agent
BY BoundsAssumption DEF NoAgent, Agent, Paths

-------------------------------------------------------------------------------
(* Types. *)

\* Agent that is working has calls to make when it is making one.
Typing == TypeOK /\ (pc = "tool" => agent.calls >= 1)

\* What of the types the steps that are not Arrive can change.
Types ==
  /\ queue \in [M -> {"visible", "hidden", "gone"}] /\ row \in [M -> Statuses] /\ age \in [M -> 0..Hour + 1]
  /\ entitled \in SUBSET Senders /\ pc \in Pcs /\ batch \in Seq(M) /\ (pc = "asleep" <=> batch = <<>>)
  /\ agent \in Agent /\ replies \in [M -> Nat] /\ runs \in [M -> Nat]
  /\ stranded \in SUBSET M /\ mishaps \in 0..MaxMishaps /\ (pc = "tool" => agent.calls >= 1)

LEMMA Kept ==
  ASSUME Typing, UNCHANGED mail, on' \in BOOLEAN, Types'
  PROVE  Typing'
<1>1. Len(mail') <= MaxMails /\ mail' \in Seq([kind : Kinds, from : Senders])
  BY DEF Typing, TypeOK
<1> QED BY <1>1 DEF Typing, TypeOK, Types

LEMMA InitTyping == Init => Typing
<1> SUFFICES ASSUME Init PROVE Typing
  OBVIOUS
<1>1. Len(mail) = 0 /\ mail \in Seq([kind : Kinds, from : Senders]) /\ M = {}
  BY EmptySeq DEF Init, M
<1>2. NoAgent \in Agent
  BY NoAgentType
<1>3. row \in [M -> Statuses] /\ queue \in [M -> {"visible", "hidden", "gone"}] /\ age \in [M -> 0..Hour + 1]
      /\ replies \in [M -> Nat] /\ runs \in [M -> Nat]
  BY <1>1 DEF Init
<1>4. batch \in Seq(M) /\ batch = <<>>
  BY EmptySeq DEF Init
<1>5. on \in BOOLEAN
  BY DEF Init
<1> QED BY <1>1, <1>2, <1>3, <1>4, <1>5, BoundsAssumption DEF Init, Typing, TypeOK, Pcs

LEMMA ArriveTyping ==
  ASSUME Typing, Arrive
  PROVE  Typing'
<1>1. PICK kind \in Kinds, from \in Senders : mail' = Append(mail, [kind |-> kind, from |-> from])
  BY DEF Arrive
<1> DEFINE n == Len(mail)
           new == [kind |-> kind, from |-> from]
<1>2. n \in Nat /\ n < MaxMails /\ M = 1..n /\ new \in [kind : Kinds, from : Senders]
      /\ mail \in Seq([kind : Kinds, from : Senders])
  BY MailsAreFinite DEF Arrive, Typing, TypeOK, M
<1>3. mail' \in Seq([kind : Kinds, from : Senders]) /\ Len(mail') = n + 1
  BY <1>1, <1>2, AppendProperties
<1>4. M' = 1..n + 1 /\ M \subseteq M'
  BY <1>2, <1>3 DEF M
<1>5. /\ queue' \in [M' -> {"visible", "hidden", "gone"}] /\ row' \in [M' -> Statuses]
      /\ replies' \in [M' -> Nat] /\ runs' \in [M' -> Nat]
  <2>1. queue' = Append(queue, "visible") /\ row' = Append(row, "none") /\ replies' = Append(replies, 0) /\ runs' = Append(runs, 0)
    BY DEF Arrive
  <2>2. "none" \in Statuses
    BY DEF Statuses
  <2> QED BY <1>2, <1>4, <2>1, <2>2, AppendOne DEF Typing, TypeOK
<1>6. age' \in [M' -> 0..Hour + 1]
  <2>1. age' = Append(age, 0) /\ 0 \in 0..Hour + 1
    BY BoundsAssumption DEF Arrive
  <2> QED BY <1>2, <1>4, <2>1, AppendOne DEF Typing, TypeOK
<1>7. batch' \in Seq(M')
  <2>1. batch \in Seq(M) /\ batch' = batch
    BY DEF Arrive, Typing, TypeOK
  <2>2. \A i \in 1..Len(batch) : batch[i] \in M'
    BY <1>4, <2>1, ElementOfSeq
  <2>3. Len(batch) \in Nat /\ batch \in [1..Len(batch) -> M]
    BY <2>1, LenProperties
  <2>4. batch \in [1..Len(batch) -> M']
    BY <2>2, <2>3
  <2> QED BY <2>1, <2>3, <2>4
<1>8. on' \in BOOLEAN
  BY DEF Arrive, Typing, TypeOK
<1>9. /\ mail' \in Seq([kind : Kinds, from : Senders]) /\ Len(mail') <= MaxMails /\ stranded' \in SUBSET M'
      /\ entitled' \in SUBSET Senders /\ pc' = pc /\ pc' \in Pcs /\ agent' \in Agent /\ mishaps' \in 0..MaxMishaps
      /\ (pc' = "asleep" <=> batch' = <<>>) /\ (pc' = "tool" => agent'.calls >= 1)
  BY <1>2, <1>3, <1>4, BoundsAssumption DEF Arrive, Typing, TypeOK
<1> QED BY <1>5, <1>6, <1>7, <1>8, <1>9 DEF Typing, TypeOK

LEMMA OutsideTyping ==
  ASSUME Typing, (\E m \in M : Lapse(m) \/ Redeliver(m)) \/ TimePasses \/ SetEmailSettings \/ SetEntitled
  PROVE  Typing'
<1> USE DEF Typing, mails, rows, asks
<1>1. UNCHANGED mail /\ on' \in BOOLEAN
  <2>1. on' = on \/ on' = ~on
    BY DEF Lapse, Redeliver, TimePasses, SetEmailSettings, SetEntitled
  <2> QED BY <2>1 DEF Lapse, Redeliver, TimePasses, SetEmailSettings, SetEntitled, TypeOK
<1>2. M' = M
  BY <1>1 DEF M
<1>3. CASE TimePasses
  <2>1. age' \in [M -> 0..Hour + 1]
    BY SMTT(30), <1>3, BoundsAssumption DEF TimePasses, TypeOK
  <2>2. Types'
    BY <1>2, <1>3, <2>1 DEF TimePasses, TypeOK, Types
  <2> QED BY <1>1, <2>2, Kept
<1>4. CASE SetEmailSettings \/ SetEntitled
  <2>1. Types'
    BY <1>2, <1>4 DEF SetEmailSettings, SetEntitled, TypeOK, Types
  <2> QED BY <1>1, <2>1, Kept
<1>5. CASE \E m \in M : Lapse(m) \/ Redeliver(m)
  <2>4. mishaps' = mishaps \/ (mishaps < MaxMishaps /\ mishaps' = mishaps + 1)
    BY <1>5 DEF Lapse, Redeliver
  <2>1. mishaps' \in 0..MaxMishaps
    BY SMTT(30), <2>4, BoundsAssumption DEF TypeOK
  <2>2. queue' \in [M -> {"visible", "hidden", "gone"}]
    BY <1>5 DEF Lapse, Redeliver, TypeOK
  <2>3. Types'
    BY <1>2, <1>5, <2>1, <2>2 DEF Lapse, Redeliver, TypeOK, Types
  <2> QED BY <1>1, <2>3, Kept
<1> QED BY <1>3, <1>4, <1>5

\* Receive: the batch it takes.
LEMMA ReceiveTyping ==
  ASSUME Typing, Receive
  PROVE  Typing'
<1> USE DEF Typing, rows, asks
<1>1. PICK n \in 1..BatchSize : \E b \in [1..n -> M] :
        batch' = b /\ queue' = [m \in M |-> IF \E i \in 1..n : b[i] = m THEN "hidden" ELSE queue[m]]
  BY DEF Receive
<1>2. PICK b \in [1..n -> M] :
        batch' = b /\ queue' = [m \in M |-> IF \E i \in 1..n : b[i] = m THEN "hidden" ELSE queue[m]]
  BY <1>1
<1>3. UNCHANGED mail /\ on' \in BOOLEAN /\ M' = M
  BY DEF Receive, TypeOK, M
<1>4. n \in Nat /\ n >= 1
  BY BoundsAssumption
<1>5. batch' \in Seq(M) /\ Len(batch') = n
  BY <1>2, <1>4
<1>6. batch' # <<>>
  BY <1>4, <1>5, EmptySeq
<1>7. queue' \in [M -> {"visible", "hidden", "gone"}]
  BY <1>2 DEF TypeOK
<1>8. Types'
  BY <1>3, <1>5, <1>6, <1>7 DEF Receive, TypeOK, Types, Pcs
<1> QED BY <1>3, <1>8, Kept

\* A status that is recorded or finished.
LEMMA RecordType ==
  ASSUME TypeOK, NEW s \in Statuses, Record(m0, s)
  PROVE  row' \in [M -> Statuses] /\ age' \in [M -> 0..Hour + 1]
<1>1. 0 \in 0..Hour + 1
  BY BoundsAssumption
<1>2. age' \in [M -> 0..Hour + 1]
  BY <1>1 DEF TypeOK, Record
<1> QED BY <1>2 DEF TypeOK, Record

LEMMA ScreenTyping ==
  ASSUME Typing, Screen \/ Identify \/ Count
  PROVE  Typing'
<1> USE DEF Typing, mails, rows, asks, Goes
<1>1. UNCHANGED mail /\ on' \in BOOLEAN /\ M' = M
  BY DEF Screen, Identify, Count, TypeOK, M
<1>2. "ignored" \in Statuses /\ "refused" \in Statuses /\ "limited" \in Statuses
  BY DEF Statuses
<1>3. row' \in [M -> Statuses] /\ age' \in [M -> 0..Hour + 1]
  BY <1>2, RecordType DEF Screen, Identify, Count, TypeOK
<1>4. Types'
  BY <1>1, <1>3 DEF Screen, Identify, Count, TypeOK, Types, Pcs
<1> QED BY <1>1, <1>4, Kept

LEMMA ClaimTyping ==
  ASSUME Typing, Claim
  PROVE  Typing'
<1> USE DEF Typing, mails, Goes
<1>1. UNCHANGED mail /\ on' \in BOOLEAN /\ M' = M
  BY DEF Claim, TypeOK, M
<1>2. row' \in [M -> Statuses] /\ age' \in [M -> 0..Hour + 1]
  BY RecordType DEF Claim, Statuses
<1>3. runs' \in [M -> Nat]
  <2>1. m0 \in M
    BY InHand DEF Claim
  <2>2. runs[m0] + 1 \in Nat
    BY <2>1 DEF TypeOK
  <2> QED BY <2>2 DEF Claim, TypeOK
<1>4. agent' \in Agent
  BY NoAgentType DEF Claim
<1>5. Types'
  BY <1>1, <1>2, <1>3, <1>4 DEF Claim, TypeOK, Types, Pcs
<1> QED BY <1>1, <1>5, Kept

LEMMA AgentTyping ==
  ASSUME Typing, Chat \/ Tool \/ ChatFails \/ ChatRaises
  PROVE  Typing'
<1> USE DEF Typing, mails, rows, asks, Goes
<1>1. UNCHANGED mail /\ on' \in BOOLEAN /\ M' = M
  BY DEF Chat, Tool, ChatFails, ChatRaises, TypeOK, M
<1>2. NoAgent \in Agent
  BY NoAgentType
<1>3. CASE Chat
  <2> DEFINE turns == agent.turns + 1
  <2>3. agent \in Agent /\ agent.turns \in 0..MaxTurns
    BY DEF TypeOK, Agent
  <2>4. agent.turns # MaxTurns => turns \in 0..MaxTurns
    BY <2>3, BoundsAssumption
  <2>5. (agent' = agent /\ pc' = "answer") \/ (agent.turns # MaxTurns /\ agent' = [agent EXCEPT !.turns = turns] /\ pc' = "answer")
        \/ (agent.turns # MaxTurns /\ \E n \in 1..MaxCalls : agent' = [agent EXCEPT !.turns = turns, !.calls = n])
    BY <1>3 DEF Chat
  <2> HIDE DEF turns
  <2>6. \A n \in 1..MaxCalls : n \in 0..MaxCalls /\ n >= 1
    BY BoundsAssumption
  <2>1. agent' \in Agent /\ (pc' = "tool" => agent'.calls >= 1)
    <3>1. agent.ran \in SUBSET Tools /\ agent.path \in Paths /\ agent.calls \in 0..MaxCalls
      BY <2>3 DEF Agent
    <3>2. CASE agent.turns # MaxTurns /\ agent' = [agent EXCEPT !.turns = turns] /\ pc' = "answer"
      BY <2>3, <2>4, <3>2 DEF Agent
    <3>3. CASE agent.turns # MaxTurns /\ \E n \in 1..MaxCalls : agent' = [agent EXCEPT !.turns = turns, !.calls = n]
      <4>1. PICK n \in 1..MaxCalls : agent' = [agent EXCEPT !.turns = turns, !.calls = n]
        BY <3>3
      <4>2. agent' \in Agent /\ agent'.calls = n
        BY <2>3, <2>4, <2>6, <3>3, <4>1 DEF Agent
      <4> QED BY <2>6, <4>2
    <3> QED BY <2>3, <2>5, <3>2, <3>3
  <2>2. Types'
    BY <1>1, <1>3, <2>1 DEF Chat, TypeOK, Types, Pcs
  <2> QED BY <1>1, <2>2, Kept
<1>4. CASE Tool
  <2> DEFINE calls == agent.calls - 1
  <2>3. PICK tools \in {{}} \union {{t} : t \in Tools} : agent' = [agent EXCEPT !.calls = calls, !.ran = agent.ran \union tools]
    BY <1>4 DEF Tool, TypeOK, Agent
  <2>4. agent \in Agent /\ agent.ran \union tools \in SUBSET Tools
    BY DEF TypeOK, Agent
  <2>6. agent.calls \in 0..MaxCalls /\ agent.calls >= 1 /\ (pc' = "tool" => agent.calls # 1)
    BY <1>4, <2>4 DEF Tool, Agent
  <2>5. calls \in 0..MaxCalls /\ (pc' = "tool" => calls >= 1)
    BY <2>6, BoundsAssumption
  <2> HIDE DEF calls
  <2>1. agent' \in Agent /\ (pc' = "tool" => agent'.calls >= 1)
    <3>1. agent.turns \in 0..MaxTurns /\ agent.path \in Paths
      BY <2>4 DEF Agent
    <3> DEFINE ran == agent.ran \union tools
    <3>2. ran \in SUBSET Tools /\ agent' = [agent EXCEPT !.calls = calls, !.ran = ran]
      BY <2>3, <2>4
    <3> HIDE DEF ran
    <3>3. agent' \in Agent /\ agent'.calls = calls
      BY <2>4, <2>5, <3>2 DEF Agent
    <3> QED BY <2>5, <3>3
  <2>2. Types'
    BY <1>1, <1>4, <2>1 DEF Tool, TypeOK, Types, Pcs
  <2> QED BY <1>1, <2>2, Kept
<1>5. CASE ChatFails \/ ChatRaises
  <2>1. m0 \in M
    BY <1>5, InHand DEF ChatFails, ChatRaises
  <2>2. row' \in [M -> Statuses] /\ stranded' \in SUBSET M
    BY <1>5, <2>1 DEF ChatFails, ChatRaises, Finish, TypeOK, Statuses
  <2>3. Types'
    BY <1>1, <1>2, <1>5, <2>2 DEF ChatFails, ChatRaises, TypeOK, Types, Pcs
  <2> QED BY <1>1, <2>3, Kept
<1> QED BY <1>3, <1>4, <1>5

LEMMA ReplyTyping ==
  ASSUME Typing, Answer \/ Conclude \/ Tell
  PROVE  Typing'
<1> USE DEF Typing, mails, rows, asks, Goes
<1>1. UNCHANGED mail /\ on' \in BOOLEAN /\ M' = M
  BY DEF Answer, Conclude, Tell, TypeOK, M
<1>2. CASE Answer
  <2>1. Path(agent.ran) \in Paths
    BY DEF Path, Paths
  <2>4. agent' \in Agent
    BY <1>2, <2>1 DEF Answer, TypeOK, Agent
  <2>5. m0 \in M
    BY <1>2, InHand DEF Answer
  <2>7. replies \in [M -> Nat] /\ (replies' = replies \/ replies' = [replies EXCEPT ![m0] = @ + 1])
    BY <1>2 DEF Answer, TypeOK
  <2>6. replies' \in [M -> Nat]
    BY <2>5, <2>7, OneMore
  <2>2. agent' \in Agent /\ replies' \in [M -> Nat]
    BY <2>4, <2>6
  <2>3. Types'
    BY <1>1, <1>2, <2>2 DEF Answer, TypeOK, Types, Pcs
  <2> QED BY <1>1, <2>3, Kept
<1>3. CASE Conclude
  <2>1. NoAgent \in Agent
    BY NoAgentType
  <2>2. row' \in [M -> Statuses]
    BY <1>3 DEF Conclude, Finish, TypeOK, Statuses
  <2>3. Types'
    BY <1>1, <1>3, <2>1, <2>2 DEF Conclude, TypeOK, Types, Pcs
  <2> QED BY <1>1, <2>3, Kept
<1>4. CASE Tell
  <2>3. m0 \in M
    BY <1>4, InHand DEF Tell
  <2>4. replies \in [M -> Nat] /\ (replies' = replies \/ replies' = [replies EXCEPT ![m0] = @ + 1])
    BY <1>4 DEF Tell, TypeOK
  <2>1. replies' \in [M -> Nat]
    BY <2>3, <2>4, OneMore
  <2>2. Types'
    BY <1>1, <1>4, <2>1 DEF Tell, TypeOK, Types, Pcs
  <2> QED BY <1>1, <2>2, Kept
<1> QED BY <1>2, <1>3, <1>4

LEMMA EndTyping ==
  ASSUME Typing, Delete \/ DeleteFails \/ Crash
  PROVE  Typing'
<1> USE DEF Typing, mails, rows, asks
<1>1. UNCHANGED mail /\ on' \in BOOLEAN /\ M' = M
  BY DEF Delete, DeleteFails, Crash, TypeOK, M
<1>2. m0 \in M
  BY InHand DEF Delete, DeleteFails, Crash
<1>3. CASE Delete \/ DeleteFails
  <2>1. batch' \in Seq(M) /\ pc' \in {"asleep", "screen"} /\ (pc' = "asleep" <=> batch' = <<>>)
    BY <1>3, TakeNextType DEF Delete, DeleteFails
  <2>4. mishaps' \in 0..MaxMishaps
    BY <1>3, BoundsAssumption DEF Delete, DeleteFails, TypeOK
  <2>5. queue' \in [M -> {"visible", "hidden", "gone"}]
    BY <1>3 DEF Delete, DeleteFails, TypeOK
  <2>2. queue' \in [M -> {"visible", "hidden", "gone"}] /\ mishaps' \in 0..MaxMishaps
    BY <2>4, <2>5
  <2>3. Types'
    BY <1>1, <1>3, <2>1, <2>2 DEF Delete, DeleteFails, TypeOK, Types, Pcs
  <2> QED BY <1>1, <2>3, Kept
<1>4. CASE Crash
  <2>1. NoAgent \in Agent
    BY NoAgentType
  <2>2. batch' \in Seq(M) /\ batch' = <<>> /\ pc' = "asleep"
    BY <1>4, EmptySeq DEF Crash
  <2>3. stranded' \in SUBSET M /\ mishaps' \in 0..MaxMishaps
    BY <1>2, <1>4, BoundsAssumption DEF Crash, TypeOK
  <2>4. Types'
    BY <1>1, <1>4, <2>1, <2>2, <2>3 DEF Crash, TypeOK, Types, Pcs
  <2> QED BY <1>1, <2>4, Kept
<1> QED BY <1>3, <1>4

LEMMA NextTyping == Typing /\ [Next]_vars => Typing'
<1> SUFFICES ASSUME Typing, [Next]_vars PROVE Typing'
  OBVIOUS
<1>1. CASE UNCHANGED vars
  <2>1. UNCHANGED mail /\ on' \in BOOLEAN /\ M' = M
    BY <1>1 DEF vars, mails, Typing, TypeOK, M
  <2>2. Types'
    BY <1>1, <2>1 DEF vars, mails, rows, asks, Typing, TypeOK, Types
  <2> QED BY <2>1, <2>2, Kept
<1>2. CASE Next
  BY <1>2, ArriveTyping, OutsideTyping, ReceiveTyping, ScreenTyping, ClaimTyping, AgentTyping, ReplyTyping, EndTyping
  DEF Next, Handle
<1> QED BY <1>1, <1>2

LEMMA AlwaysTyping == Spec => []Typing
BY InitTyping, NextTyping, PTL DEF Spec

\* The variables have their types: TypeOK.
THEOREM TypeCorrect == Spec => []TypeOK
<1>1. Typing => TypeOK
  BY DEF Typing
<1> QED BY <1>1, AlwaysTyping, PTL

-------------------------------------------------------------------------------
(* What a row says of its mail. *)

Slow == {"chat", "tool", "answer", "finish", "note"}

\* A mail without a row is untouched, the one in hand has none until it is screened, and has its reply yet to come.
Handled ==
  /\ \A m \in M : /\ row[m] = "none" => runs[m] = 0 /\ replies[m] = 0
                  /\ runs[m] > 0 => row[m] \in Counted
                  /\ runs[m] <= 1 /\ replies[m] <= 1
  /\ pc \in {"identify", "count", "claim"} => row[m0] = "none"
  /\ pc \in Slow \union {"tell"} => row[m0] # "none"
  /\ pc \in {"chat", "tool", "answer", "tell"} => replies[m0] = 0
  /\ pc = "finish" => replies[m0] = 1
  /\ RowsTellTheTruth

LEMMA InitHandled == Init => Handled
<1> SUFFICES ASSUME Init PROVE Handled
  OBVIOUS
<1>1. M = {}
  BY EmptySeq DEF Init, M
<1> QED BY <1>1 DEF Init, Handled, RowsTellTheTruth, Slow

LEMMA ArriveHandled ==
  ASSUME Typing, Handled, Arrive
  PROVE  Handled'
<1> DEFINE n == Len(mail)
<1>1. n \in Nat /\ M = 1..n
  BY MailsAreFinite DEF Typing, TypeOK, M
<1>2. mail \in Seq([kind : Kinds, from : Senders]) /\ \E e \in [kind : Kinds, from : Senders] : mail' = Append(mail, e)
  BY DEF Arrive, Typing, TypeOK
<1>3. M' = 1..n + 1
  BY <1>1, <1>2, AppendProperties DEF M
<1>4. /\ \A m \in M : row'[m] = row[m] /\ replies'[m] = replies[m] /\ runs'[m] = runs[m]
      /\ row'[n + 1] = "none" /\ replies'[n + 1] = 0 /\ runs'[n + 1] = 0
  <2>1. row' = Append(row, "none") /\ replies' = Append(replies, 0) /\ runs' = Append(runs, 0)
    BY DEF Arrive
  <2>2. "none" \in Statuses
    BY DEF Statuses
  <2> QED BY <1>1, <2>1, <2>2, AppendOne DEF Typing, TypeOK
<1>5. pc' = pc /\ m0' = m0 /\ stranded' = stranded
  BY DEF Arrive, m0
<1>6. pc # "asleep" => m0 \in M
  BY InHand DEF Typing
<1>7. \A m \in M' : m \in M \/ m = n + 1
  BY <1>1, <1>3
<1> QED BY <1>4, <1>5, <1>6, <1>7 DEF Handled, RowsTellTheTruth, Slow

\* Nothing that happens around the thread changes a row.
LEMMA OutsideHandled ==
  ASSUME Typing, Handled, (\E m \in M : Lapse(m) \/ Redeliver(m)) \/ TimePasses \/ SetEmailSettings \/ SetEntitled \/ UNCHANGED vars
  PROVE  Handled'
<1>1. UNCHANGED <<mail, row, replies, runs, pc, batch, stranded>>
  BY DEF Lapse, Redeliver, TimePasses, SetEmailSettings, SetEntitled, vars, mails, rows, asks
<1>2. M' = M /\ m0' = m0
  BY <1>1 DEF M, m0
<1> QED BY <1>1, <1>2 DEF Handled, RowsTellTheTruth, Slow

LEMMA ReceiveHandled ==
  ASSUME Typing, Handled, Receive
  PROVE  Handled'
<1>1. UNCHANGED <<mail, row, replies, runs, stranded>> /\ pc = "asleep" /\ pc' = "screen" /\ M' = M
  BY DEF Receive, rows, asks, M
<1> QED BY <1>1 DEF Handled, RowsTellTheTruth, Slow

LEMMA ScreenHandled ==
  ASSUME Typing, Handled, Screen \/ Identify \/ Count
  PROVE  Handled'
<1>1. UNCHANGED <<mail, replies, runs, stranded>> /\ M' = M /\ m0' = m0 /\ m0 \in M
  BY InHand DEF Screen, Identify, Count, mails, asks, M, m0, Goes, Typing
<1>2. row \in [M -> Statuses]
  BY DEF Typing, TypeOK
<1>3. \/ row' = row /\ (pc' = "delete" \/ (pc' = "claim" /\ pc = "count")
                          \/ (pc' \in {"identify", "count"} /\ (row[m0] = "none" \/ pc = "identify")))
      \/ /\ row[m0] = "none" /\ pc' \in {"tell", "delete"}
         /\ \E s \in {"ignored", "refused", "limited"} : row' = [row EXCEPT ![m0] = s]
  BY DEF Screen, Identify, Count, Record, Goes, rows
<1>4. pc \notin Slow
  BY DEF Screen, Identify, Count, Slow
<1> QED BY <1>1, <1>2, <1>3, <1>4 DEF Handled, RowsTellTheTruth, Slow, Counted

LEMMA ClaimHandled ==
  ASSUME Typing, Handled, Claim
  PROVE  Handled'
<1>1. UNCHANGED <<mail, replies, stranded>> /\ M' = M /\ m0' = m0 /\ m0 \in M /\ pc = "claim" /\ pc' = "chat"
  BY InHand DEF Claim, mails, M, m0, Goes, Typing
<1>2. row \in [M -> Statuses] /\ runs \in [M -> Nat]
  BY DEF Typing, TypeOK
<1>3. row' = [row EXCEPT ![m0] = "answering"] /\ runs' = [runs EXCEPT ![m0] = @ + 1] /\ row[m0] = "none"
  BY DEF Claim, Record
<1>4. runs[m0] = 0 /\ replies[m0] = 0
  BY <1>1, <1>3 DEF Handled
<1>5. runs'[m0] = 1 /\ row'[m0] = "answering" /\ \A m \in M : m # m0 => runs'[m] = runs[m] /\ row'[m] = row[m]
  BY <1>1, <1>2, <1>3, <1>4
<1> QED BY <1>1, <1>4, <1>5 DEF Handled, RowsTellTheTruth, Slow, Counted

LEMMA AgentHandled ==
  ASSUME Typing, Handled, Chat \/ Tool \/ ChatFails \/ ChatRaises
  PROVE  Handled'
<1>1. UNCHANGED <<mail, replies, runs>> /\ M' = M /\ m0' = m0 /\ m0 \in M /\ pc \in {"chat", "tool"}
  BY InHand DEF Chat, Tool, ChatFails, ChatRaises, mails, asks, M, m0, Goes, Typing
<1>2. row \in [M -> Statuses]
  BY DEF Typing, TypeOK
<1>3. CASE Chat \/ Tool
  <2>1. UNCHANGED <<row, stranded>> /\ pc' \in {"chat", "tool", "answer"}
    BY <1>3 DEF Chat, Tool, rows, Goes
  <2> QED BY <1>1, <2>1 DEF Handled, RowsTellTheTruth, Slow
<1>4. CASE ChatFails
  <2>1. row' = [row EXCEPT ![m0] = "failed"] /\ stranded' = stranded /\ pc' = "tell"
    BY <1>4 DEF ChatFails, Finish, Goes
  <2> QED BY <1>1, <1>2, <2>1 DEF Handled, RowsTellTheTruth, Slow, Counted
<1>5. CASE ChatRaises
  <2>1. row' = row /\ stranded' = stranded \union {m0} /\ pc' = "delete"
    BY <1>5 DEF ChatRaises, rows, Goes
  <2> QED BY <1>1, <2>1 DEF Handled, RowsTellTheTruth, Slow
<1> QED BY <1>3, <1>4, <1>5

LEMMA ReplyHandled ==
  ASSUME Typing, Handled, Answer \/ Conclude \/ Tell
  PROVE  Handled'
<1>1. UNCHANGED <<mail, runs, stranded>> /\ M' = M /\ m0' = m0 /\ m0 \in M
  BY InHand DEF Answer, Conclude, Tell, mails, asks, M, m0, Goes, Typing
<1>2. row \in [M -> Statuses] /\ replies \in [M -> Nat]
  BY DEF Typing, TypeOK
<1>3. CASE Answer \/ Tell
  <2>1. /\ row' = row /\ pc \in {"answer", "tell"} /\ pc' \in {"finish", "note", "delete"}
        /\ pc' \in {"finish", "note"} <=> pc = "answer"
        /\ \/ replies' = [replies EXCEPT ![m0] = @ + 1]
           \/ replies' = replies /\ pc' # "finish"
    BY <1>3 DEF Answer, Tell, rows, Goes
  <2>2. replies[m0] = 0 /\ row[m0] # "none" /\ row[m0] # "answered"
    BY <1>1, <2>1 DEF Handled, RowsTellTheTruth, Slow
  <2>3. replies'[m0] \in {0, 1} /\ (pc' = "finish" => replies'[m0] = 1) /\ \A m \in M : m # m0 => replies'[m] = replies[m]
    BY <1>1, <1>2, <2>1, <2>2
  <2> QED BY <1>1, <2>1, <2>2, <2>3 DEF Handled, RowsTellTheTruth, Slow
<1>4. CASE Conclude
  <2>1. /\ replies' = replies /\ pc' = "delete"
        /\ \/ pc = "finish" /\ row' = [row EXCEPT ![m0] = "answered"]
           \/ pc = "note" /\ row' = [row EXCEPT ![m0] = "failed"]
    BY <1>4 DEF Conclude, Finish, Goes
  <2> QED BY <1>1, <1>2, <2>1 DEF Handled, RowsTellTheTruth, Slow, Counted
<1> QED BY <1>3, <1>4

LEMMA EndHandled ==
  ASSUME Typing, Handled, Delete \/ DeleteFails \/ Crash
  PROVE  Handled'
<1>1. UNCHANGED <<mail, row, replies, runs>> /\ M' = M
  BY DEF Delete, DeleteFails, Crash, mails, rows, asks, M
<1>2. CASE Delete \/ DeleteFails
  <2>1. pc = "delete" /\ stranded' = stranded /\ pc' \in {"asleep", "screen"}
    BY <1>2 DEF Delete, DeleteFails, TakeNext
  <2> QED BY <1>1, <2>1 DEF Handled, RowsTellTheTruth, Slow
<1>3. CASE Crash
  <2>1. pc' = "asleep" /\ stranded' = IF row[m0] = "answering" THEN stranded \union {m0} ELSE stranded
    BY <1>3 DEF Crash
  <2> QED BY <1>1, <2>1 DEF Handled, RowsTellTheTruth, Slow
<1> QED BY <1>2, <1>3

LEMMA NextHandled == Typing /\ Handled /\ [Next]_vars => Handled'
BY ArriveHandled, OutsideHandled, ReceiveHandled, ScreenHandled, ClaimHandled, AgentHandled, ReplyHandled, EndHandled
DEF Next, Handle

LEMMA AlwaysHandled == Spec => []Handled
BY InitHandled, NextHandled, AlwaysTyping, PTL DEF Spec

\* However a mail is delivered and wherever the process stops, the agent works on it once at most and
\* one reply at most leaves: AskedOnce.
THEOREM AskedOnceAlways == Spec => []AskedOnce
<1>1. Handled => AskedOnce
  BY DEF Handled, AskedOnce
<1> QED BY <1>1, AlwaysHandled, PTL

\* Only a crash or an error nobody expects leaves a question in answering, and what is said to be answered
\* was: RowsTellTheTruth.
THEOREM RowsTellTheTruthAlways == Spec => []RowsTellTheTruth
<1>1. Handled => RowsTellTheTruth
  BY DEF Handled
<1> QED BY <1>1, AlwaysHandled, PTL

-------------------------------------------------------------------------------
(* The hourly limit. *)

\* The questions of a sender that count: claimed within the hour.
Worked(s) == {m \in M : mail[m].from = s /\ runs[m] > 0 /\ age[m] <= Hour}

LimitInv ==
  /\ \A s \in Senders : Cardinality(Worked(s)) <= Limit
  /\ pc = "claim" => Cardinality(Worked(mail[m0].from)) < Limit

LEMMA WorkedFinite ==
  ASSUME TypeOK, NEW s
  PROVE  IsFiniteSet(Worked(s)) /\ Cardinality(Worked(s)) \in Nat
<1>1. IsFiniteSet(M)
  BY MailsAreFinite DEF TypeOK
<1>2. IsFiniteSet(Worked(s))
  BY <1>1, FS_Subset DEF Worked
<1> QED BY <1>2, FS_CardinalityType

\* Without a claim no question comes to count.
LEMMA OnlyClaims ==
  ASSUME Typing, Handled, [Next]_vars, ~Claim
  PROVE  \A m \in M' : runs'[m] > 0 /\ age'[m] <= Hour =>
           m \in M /\ runs[m] > 0 /\ age[m] <= Hour /\ mail'[m].from = mail[m].from
<1>0. age \in [M -> 0..Hour + 1] /\ runs \in [M -> Nat] /\ row \in [M -> Statuses]
  BY DEF Typing, TypeOK
<1>1. CASE Arrive
  <2> DEFINE n == Len(mail)
  <2>1. n \in Nat /\ M = 1..n /\ mail \in Seq([kind : Kinds, from : Senders])
    BY MailsAreFinite DEF Typing, TypeOK, M
  <2>2. PICK e \in [kind : Kinds, from : Senders] : mail' = Append(mail, e)
    BY <1>1 DEF Arrive
  <2>3. M' = 1..n + 1 /\ \A m \in M : mail'[m] = mail[m]
    BY <2>1, <2>2, AppendProperties DEF M
  <2>4. runs' = Append(runs, 0) /\ age' = Append(age, 0) /\ 0 \in 0..Hour + 1
    BY <1>1, BoundsAssumption DEF Arrive
  <2>5. runs'[n + 1] = 0 /\ \A m \in M : runs'[m] = runs[m] /\ age'[m] = age[m]
    BY <1>0, <2>1, <2>4, AppendOne
  <2> QED BY <2>1, <2>3, <2>5
<1>2. CASE TimePasses
  <2>1. UNCHANGED <<mail, runs>> /\ M' = M
    BY <1>2 DEF TimePasses, mails, asks, M
  <2>2. \A m \in M : age'[m] = age[m] \/ age'[m] = age[m] + 1
    BY <1>2 DEF TimePasses
  <2>3. \A m \in M : age'[m] <= Hour => age[m] <= Hour
    BY <1>0, <2>2, BoundsAssumption
  <2> QED BY <2>1, <2>3
<1>3. CASE Screen \/ Identify \/ Count
  <2>1. UNCHANGED <<mail, runs>> /\ M' = M /\ m0 \in M
    BY <1>3, InHand DEF Screen, Identify, Count, mails, asks, M, Typing
  <2>2. age' = age \/ (row[m0] = "none" /\ age' = [age EXCEPT ![m0] = 0])
    BY <1>3 DEF Screen, Identify, Count, Record, rows
  <2>3. row[m0] = "none" => runs[m0] = 0
    BY <2>1 DEF Handled
  <2> QED BY <1>0, <2>1, <2>2, <2>3
<1>4. CASE \/ (\E m \in M : Lapse(m) \/ Redeliver(m)) \/ SetEmailSettings \/ SetEntitled \/ UNCHANGED vars
          \/ Receive \/ Chat \/ Tool \/ ChatFails \/ ChatRaises \/ Answer \/ Conclude \/ Tell \/ Delete \/ DeleteFails \/ Crash
  <2>1. UNCHANGED <<mail, runs, age>> /\ M' = M
    BY <1>4 DEF Lapse, Redeliver, SetEmailSettings, SetEntitled, vars, Receive, Chat, Tool, ChatFails, ChatRaises,
       Answer, Conclude, Tell, Delete, DeleteFails, Crash, mails, rows, asks, M
  <2> QED BY <2>1
<1> QED BY <1>1, <1>2, <1>3, <1>4 DEF Next, Handle

\* A thread that is about to claim has just counted, or nothing but the world moved.
LEMMA ToClaim ==
  ASSUME Typing, [Next]_vars, pc' = "claim"
  PROVE  /\ m0 \in M /\ m0' = m0 /\ mail'[m0].from = mail[m0].from
         /\ pc = "claim" \/ Cardinality(Recent(mail[m0].from)) < Limit
<1>1. CASE Count
  BY <1>1, InHand DEF Count, Goes, mails, m0, Typing
<1>2. CASE pc = "claim" /\ UNCHANGED <<batch, mail>>
  BY <1>2, InHand DEF m0, Typing
<1>3. CASE Arrive
  <2>1. pc = "claim" /\ batch' = batch /\ m0' = m0 /\ m0 \in M
    BY <1>3, InHand DEF Arrive, m0, Typing
  <2>2. mail \in Seq([kind : Kinds, from : Senders]) /\ \E e \in [kind : Kinds, from : Senders] : mail' = Append(mail, e)
    BY <1>3 DEF Arrive, Typing, TypeOK
  <2> QED BY <2>1, <2>2, AppendProperties DEF M
<1>4. pc = "claim" => UNCHANGED <<batch, mail>> \/ Arrive
  BY DEF Next, Handle, Lapse, Redeliver, TimePasses, SetEmailSettings, SetEntitled, vars, Receive, Screen, Identify, Count, Claim,
     Chat, Tool, ChatFails, ChatRaises, Answer, Conclude, Tell, Delete, DeleteFails, Crash, mails, Goes
<1>5. pc = "claim" \/ Count
  BY DEF Next, Handle, Arrive, Lapse, Redeliver, TimePasses, SetEmailSettings, SetEntitled, vars, Receive, Screen, Identify, Claim,
     Chat, Tool, ChatFails, ChatRaises, Answer, Conclude, Tell, Delete, DeleteFails, Crash, Goes, TakeNext
<1> QED BY <1>1, <1>2, <1>3, <1>4, <1>5

LEMMA NextLimit == Typing /\ Handled /\ LimitInv /\ [Next]_vars => LimitInv'
<1> SUFFICES ASSUME Typing, Handled, LimitInv, [Next]_vars PROVE LimitInv'
  OBVIOUS
<1>1. ASSUME NEW s PROVE IsFiniteSet(Worked(s)) /\ Cardinality(Worked(s)) \in Nat
  BY WorkedFinite DEF Typing
<1>2. Limit \in Nat
  BY BoundsAssumption
<1>3. CASE ~Claim
  <2>1. ASSUME NEW s PROVE Cardinality(Worked(s)') \in Nat /\ Cardinality(Worked(s)') <= Cardinality(Worked(s))
    <3>1. Worked(s)' \subseteq Worked(s)
      BY <1>3, OnlyClaims DEF Worked
    <3>2. IsFiniteSet(Worked(s)') /\ Cardinality(Worked(s)') <= Cardinality(Worked(s))
      BY <1>1, <3>1, FS_Subset
    <3> QED BY <3>2, FS_CardinalityType
  <2>2. ASSUME NEW s \in Senders PROVE Cardinality(Worked(s)') <= Limit
    <3>1. Cardinality(Worked(s)) <= Limit
      BY DEF LimitInv
    <3> QED BY <1>1, <1>2, <2>1, <3>1
  <2>3. ASSUME pc' = "claim" PROVE Cardinality(Worked(mail[m0].from)') < Limit
    <3>1. PICK f : f = mail[m0].from
      OBVIOUS
    <3>2. m0' = m0 /\ mail'[m0'].from = f /\ (pc = "claim" \/ Cardinality(Recent(f)) < Limit)
      BY <2>3, <3>1, ToClaim
    <3>3. Cardinality(Worked(f)) < Limit
      <4>1. CASE pc = "claim"
        BY <3>1, <4>1 DEF LimitInv
      <4>2. CASE Cardinality(Recent(f)) < Limit
        <5>1. Worked(f) \subseteq Recent(f)
          BY DEF Worked, Recent, Handled
        <5>2. IsFiniteSet(M)
          BY MailsAreFinite DEF Typing, TypeOK
        <5>3. IsFiniteSet(Recent(f))
          BY <5>2, FS_Subset DEF Recent
        <5>4. Cardinality(Recent(f)) \in Nat /\ Cardinality(Worked(f)) <= Cardinality(Recent(f))
          BY <5>1, <5>3, FS_Subset, FS_CardinalityType
        <5> QED BY <1>1, <1>2, <4>2, <5>4
      <4> QED BY <3>2, <4>1, <4>2
    <3>4. Cardinality(Worked(f)') < Limit
      BY <1>1, <1>2, <2>1, <3>3
    <3>5. Worked(mail[m0].from)' = Worked(f)'
      BY <3>2 DEF Worked
    <3> QED BY <3>4, <3>5
  <2> QED BY <2>2, <2>3 DEF LimitInv
<1>4. CASE Claim
  <2>1. PICK f : f = mail[m0].from
    OBVIOUS
  <2>2. UNCHANGED mail /\ M' = M /\ m0 \in M /\ pc' = "chat" /\ pc = "claim"
        /\ age' = [age EXCEPT ![m0] = 0] /\ runs' = [runs EXCEPT ![m0] = @ + 1]
    BY <1>4, InHand DEF Claim, Record, Goes, mails, M, Typing
  <2>3. Cardinality(Worked(f)) < Limit
    BY <2>1, <2>2 DEF LimitInv
  <2>4. \A m \in M : m # m0 => age'[m] = age[m] /\ runs'[m] = runs[m]
    BY <2>2 DEF Typing, TypeOK
  <2>5. ASSUME NEW s \in Senders PROVE Cardinality(Worked(s)') <= Limit
    <3>1. CASE s = f
      <4>1. Worked(f)' \subseteq Worked(f) \union {m0}
        BY <2>2, <2>4 DEF Worked
      <4>2. IsFiniteSet(Worked(f) \union {m0}) /\ Cardinality(Worked(f) \union {m0}) <= Cardinality(Worked(f)) + 1
        BY <1>1, FS_AddElement
      <4>3. IsFiniteSet(Worked(f)') /\ Cardinality(Worked(f)') <= Cardinality(Worked(f) \union {m0})
        BY <4>1, <4>2, FS_Subset
      <4>4. Cardinality(Worked(f)') \in Nat /\ Cardinality(Worked(f) \union {m0}) \in Nat
        BY <4>2, <4>3, FS_CardinalityType
      <4> QED BY <1>1, <1>2, <2>3, <3>1, <4>2, <4>3, <4>4
    <3>2. CASE s # f
      <4>1. Worked(s)' \subseteq Worked(s)
        BY <2>1, <2>2, <2>4, <3>2 DEF Worked
      <4>2. IsFiniteSet(Worked(s)') /\ Cardinality(Worked(s)') <= Cardinality(Worked(s))
        BY <1>1, <4>1, FS_Subset
      <4>3. Cardinality(Worked(s)') \in Nat /\ Cardinality(Worked(s)) <= Limit
        BY <4>2, FS_CardinalityType DEF LimitInv
      <4> QED BY <1>1, <1>2, <4>2, <4>3
    <3> QED BY <3>1, <3>2
  <2> QED BY <2>2, <2>5 DEF LimitInv
<1> QED BY <1>3, <1>4

LEMMA InitLimit == Init => LimitInv
<1> SUFFICES ASSUME Init PROVE LimitInv
  OBVIOUS
<1>1. M = {}
  BY EmptySeq DEF Init, M
<1>2. \A s : Worked(s) = {}
  BY <1>1 DEF Worked
<1>3. \A s : Cardinality(Worked(s)) = 0
  BY <1>2, FS_EmptySet
<1> QED BY <1>3, BoundsAssumption DEF Init, LimitInv

\* No more than Limit questions of a sender that were claimed within an hour are worked on: HourlyLimit.
THEOREM HourlyLimitAlways == Spec => []HourlyLimit
<1>1. LimitInv => HourlyLimit
  BY DEF LimitInv, Worked, HourlyLimit
<1> QED BY <1>1, InitLimit, NextLimit, AlwaysTyping, AlwaysHandled, PTL DEF Spec
=============================================================================
