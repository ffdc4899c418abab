--------------------------------- MODULE MCRules ---------------------------------
(* The parts that other components only call: each is checked for itself, one in a behaviour. *)
EXTENDS AccessRules, CatalogRegistry, Cron, ResultLimits, SqlText

VARIABLE part

\* The registry is given the same model values, so that one permutation serves both parts.
Symmetry == Permutations(ActiveUsers) \union Permutations(PolicyRoles) \union Permutations(Names)

\* What the policies say: privileges, and the columns they allow, deny and mask.
Contents == {<<{"SELECT"}, {}, {}, {}>>, <<{"INSERT"}, {}, {}, {}>>, <<{"SELECT", "DELETE"}, {}, {"c1"}, {}>>,
             <<{"SELECT"}, {"c1"}, {}, {}>>, <<{"SELECT"}, {"c1"}, {}, {"c2"}>>, <<{"SELECT", "UPDATE"}, {"c1"}, {}, {"c1"}>>}
Tried == {[role |-> r, catalog |-> c, table |-> t, privileges |-> x[1], allowed |-> x[2], denied |-> x[3], masks |-> x[4]] :
            r \in PolicyRoles, c \in Catalogs, t \in Names \union {Wild}, x \in Contents}

\* The expressions: "*" and "*/n", numbers, ranges with a step, lists; one that is out of range.
Every(n) == [star |-> TRUE, bare |-> FALSE, from |-> 0, to |-> 0, step |-> n]
Lonely == [Every(1) EXCEPT !.bare = TRUE]
Span(a, b, n) == [star |-> FALSE, bare |-> FALSE, from |-> a, to |-> b, step |-> n]
Expressions ==
  [minute : {<<Lonely>>, <<Span(0, 0, 1)>>, <<Span(1, 1, 1)>>},
   hour : {<<Lonely>>, <<Span(1, 1, 1)>>, <<Every(2)>>},
   dom : {<<Lonely>>, <<Every(1)>>, <<Span(3, 3, 1)>>, <<Span(1, 3, 2)>>, <<Span(2, 2, 1), Span(1, 1, 1)>>},
   month : {<<Lonely>>, <<Span(1, 1, 1)>>, <<Span(2, 2, 1)>>},
   dow : {<<Lonely>>, <<Span(3, 3, 1)>>, <<Span(1, 2, 1)>>, <<Span(2, 4, 1)>>}]
\* Four years of two months, the second of them a leap year.
Months == <<2, 2, 2, 3, 2, 2, 2, 2>>
\* The characters of texts.
Characters == {"-", "/", "*", "'", "\"", "nl", ";", "A"}
First == CHOOSE e \in CronFields : ~Accepted(e)

Vars == <<part, stored, registry, cronVars, limitVars, sql>>

Init ==
  /\ part \in {"access", "catalogs", "cron", "limits", "text"}
  /\ IF part = "access" THEN AccessInit
     ELSE userRoles = [u \in ActiveUsers |-> {}] /\ policies = <<>> /\ tags = {}
          /\ tagPolicies = {} /\ cached = [t \in Tables |-> "unknown"]
  /\ IF part = "cron" THEN CronInit ELSE expression = First /\ after = 0
  /\ CatalogsInit /\ LimitsInit /\ TextInit

Next ==
  /\ UNCHANGED part
  /\ \/ part = "access" /\ AccessNext /\ UNCHANGED <<registry, cronVars, limitVars, sql>>
     \/ part = "catalogs" /\ CatalogsNext /\ UNCHANGED <<stored, cronVars, limitVars, sql>>
     \/ part = "cron" /\ PassMinute /\ UNCHANGED <<stored, registry, limitVars, sql>>
     \/ part = "limits" /\ Page /\ UNCHANGED <<stored, registry, cronVars, sql>>
     \/ part = "text" /\ Type /\ UNCHANGED <<stored, registry, cronVars, limitVars>>

Spec == Init /\ [][Next]_Vars

=============================================================================
