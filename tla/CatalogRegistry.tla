--------------------------------- MODULE CatalogRegistry ---------------------------------
(***************************************************************************)
(* The catalog registry: rows of catalogs, and their passwords in the secret store.         *)
(* Operators create, edit and delete catalogs at once; each call to the secret store        *)
(* is a step, and may fail, and the process may stop between steps.                         *)
(*                                                                                          *)
(* A secret's key is the name its catalog had when the password was given, and stands       *)
(* for its ARN.  A "secret" catalog needs a password (a connector with optional             *)
(* credentials does once it has a user), a "plain" one has none.  SQLite runs a SELECT by   *)
(* itself, and one transaction from the first write to the commit.  A catalog that is       *)
(* attached to a cluster cannot be renamed or deleted: what is refused changes nothing, so  *)
(* attachments are left out.                                                                *)
(***************************************************************************)
EXTENDS Naturals, FiniteSets, Sequences

CONSTANTS
  CatalogNames,
  Passwords,
  Operators,   \* threads that serve the API
  MaxBegun,    \* bound: operations
  MaxFailed    \* bound: failed calls to the store, and crashes

ASSUME RegistryAssumption ==
  "none" \notin CatalogNames \union Passwords /\ {MaxBegun, MaxFailed} \subseteq Nat

VARIABLES
  catalogs, \* rows by id: name and ref, the key of the catalog's secret
  gave,     \* by id: the password its operator gave last
  secrets,  \* the secret store: a password by key
  op,       \* what each thread is doing
  unsure,   \* keys two catalogs had to do with, or that an operation touched which then stopped
  begun, failed

registry == <<catalogs, gave, secrets, op, unsure, begun, failed>>

-------------------------------------------------------------------------------
None == "none"
Idle == [do |-> "idle", at |-> "idle"]
Id == DOMAIN catalogs

Row(name, ref) == [name |-> name, ref |-> ref]
Named(name) == {i \in Id : catalogs[i].name = name}
Holders(key) == {i \in Id : catalogs[i].ref = key}

\* The keys an operation has to do with, whether two operations have a key or a row in common, and
\* whether an operation on a key is under way.
Keys(o) == IF o = Idle THEN {} ELSE {o.ref, o.old} \ {None}
Meet(o, p) == Keys(o) \intersect Keys(p) # {} \/ (o.do \in {"edit", "delete"} /\ p.do \in {"edit", "delete"} /\ o.id = p.id)
              \/ (o.do \in {"create", "edit"} /\ p.do \in {"create", "edit"} /\ o.name = p.name)
Quiet(key) == \A t \in Operators : key \notin Keys(op[t])

\* A thread takes up an operation; what it shares with one under way is noted.
Begins(t, o, disputed) ==
  /\ begun < MaxBegun /\ begun' = begun + 1
  /\ op[t] = Idle /\ op' = [op EXCEPT ![t] = o]
  /\ unsure' = unsure \union disputed
               \union UNION {Keys(o) \union Keys(op[s]) : s \in {r \in Operators : Meet(o, op[r])}}
  /\ UNCHANGED <<catalogs, gave, secrets, failed>>

Goes(t, at) == op' = [op EXCEPT ![t].at = at]
Ends(t) == op' = [op EXCEPT ![t] = Idle]

\* A thread that has written and not yet committed keeps the others from writing.
Locked(t) == \E s \in Operators \ {t} : op[s].do = "delete" /\ op[s].at \in {"drop", "write"}

CatalogsInit ==
  /\ catalogs = <<>> /\ gave = <<>> /\ secrets = [k \in CatalogNames |-> None]
  /\ op = [t \in Operators |-> Idle]
  /\ unsure = {} /\ begun = 0 /\ failed = 0

-------------------------------------------------------------------------------
(* The handlers: what they check before their first call to the store. *)

\* A password is stored only after the name is known to be free.
Free(name) == Named(name) = {}

CreateCatalog(t) ==
  \E name \in CatalogNames, password \in Passwords \union {None} :
    LET ref == IF password = None THEN None ELSE name IN
    /\ Free(name)
    /\ Begins(t, [do |-> "create", at |-> IF ref = None THEN "write" ELSE "put", id |-> begun + 1, name |-> name,
                  password |-> password, ref |-> ref, old |-> None],
              \* A catalog that was renamed still has its secret under this name.
              ({ref} \ {None}) \intersect {catalogs[i].ref : i \in Id \ Named(name)})

\* Whether a new name is free is left to the database; a "secret" catalog without a new password keeps its own.
UpdateCatalog(t, i) ==
  \E name \in CatalogNames, kind \in {"secret", "plain"}, password \in Passwords \union {None} :
    LET old == catalogs[i].ref
        ref == IF kind = "plain" THEN None ELSE IF password # None THEN name ELSE old
    IN /\ IF kind = "plain" THEN password = None ELSE ref # None
       /\ Begins(t, [do |-> "edit", at |-> IF password # None THEN "put" ELSE "drop", id |-> i, name |-> name,
                     password |-> password, ref |-> ref, old |-> old],
                 IF \E j \in Id \ {i} : name = catalogs[j].name \/ (password # None /\ name = catalogs[j].ref)
                 THEN {ref, old} \ {None} ELSE {})

DeleteCatalog(t, i) ==
  Begins(t, [do |-> "delete", at |-> "erase", id |-> i, ref |-> None, old |-> catalogs[i].ref], {})

-------------------------------------------------------------------------------
(* Their calls to the store and their writes. *)

Mishap == failed < MaxFailed /\ failed' = failed + 1

\* store_catalog_password: a secret that exists under the key is given the new value.  The operation ends with an error
\* where the store refuses, and also where the password is in the store and its answer, or the ARN asked for after it, is
\* not had: then row and secret differ, until the next password.
Put(t) ==
  /\ op[t].at = "put"
  /\ \/ /\ secrets' = [secrets EXCEPT ![op[t].ref] = op[t].password]
        /\ Goes(t, IF op[t].do = "create" THEN "write" ELSE "drop") /\ UNCHANGED <<unsure, failed>>
     \/ Mishap /\ Ends(t) /\ UNCHANGED <<secrets, unsure>>
     \/ /\ Mishap /\ Ends(t) /\ unsure' = unsure \union {op[t].ref}
        /\ secrets' = [secrets EXCEPT ![op[t].ref] = op[t].password]
  /\ UNCHANGED <<catalogs, gave, begun>>

\* The row is gone for this thread only; the others wait.
Erase(t) ==
  /\ op[t].at = "erase" /\ ~Locked(t) /\ Goes(t, "drop")
  /\ UNCHANGED <<catalogs, gave, secrets, unsure, begun, failed>>

DropsAny(o) == o.old # None

\* The secret no row refers to any more; the store's errors are passed over, whatever it did.
Drops(o) == o.old # None /\ o.old # o.ref

Drop(t) ==
  /\ op[t].at = "drop" /\ Goes(t, "write")
  /\ IF ~Drops(op[t]) THEN UNCHANGED <<secrets, unsure, failed>>
     ELSE \/ secrets' = [secrets EXCEPT ![op[t].old] = None] /\ UNCHANGED <<unsure, failed>>
          \/ Mishap /\ unsure' = unsure \union {op[t].old} /\ secrets' \in {secrets, [secrets EXCEPT ![op[t].old] = None]}
  /\ UNCHANGED <<catalogs, gave, begun>>

\* A name that is taken by now fails the write, and so does a row that is gone.
Write(t) ==
  /\ op[t].at = "write" /\ ~Locked(t) /\ Ends(t)
  /\ LET o == op[t] IN
     /\ \/ /\ o.do \in {"create", "edit"} /\ Named(o.name) \subseteq {o.id} /\ (o.do = "edit" => o.id \in Id)
           /\ catalogs' = [i \in Id \union {o.id} |-> IF i = o.id THEN Row(o.name, o.ref) ELSE catalogs[i]]
           /\ gave' = [i \in Id \union {o.id} |-> IF i # o.id \/ (o.do = "edit" /\ o.password = None) THEN gave[i] ELSE o.password]
           /\ UNCHANGED unsure
        \/ /\ o.do \in {"create", "edit"} /\ ~(Named(o.name) \subseteq {o.id} /\ (o.do = "edit" => o.id \in Id))
           /\ UNCHANGED <<catalogs, gave, unsure>>
        \/ /\ o.do = "delete"
           /\ catalogs' = [i \in Id \ {o.id} |-> catalogs[i]] /\ gave' = [i \in Id \ {o.id} |-> gave[i]]
           /\ UNCHANGED unsure
  /\ UNCHANGED <<secrets, begun, failed>>

\* The process stops; what was not committed is undone, what the store was told is not.
CrashStore ==
  /\ Mishap /\ \E t \in Operators : op[t] # Idle
  /\ op' = [t \in Operators |-> Idle]
  /\ unsure' = unsure \union UNION {Keys(op[t]) : t \in {s \in Operators : op[s].do # "idle" /\ op[s].at \in {"drop", "write"}}}
  /\ UNCHANGED <<catalogs, gave, secrets, begun>>

CatalogsNext ==
  \/ \E t \in Operators :
       \/ CreateCatalog(t) \/ \E i \in Id : UpdateCatalog(t, i) \/ DeleteCatalog(t, i)
       \/ Put(t) \/ Erase(t) \/ Drop(t) \/ Write(t)
  \/ CrashStore

CatalogsSpec == CatalogsInit /\ [][CatalogsNext]_registry

-------------------------------------------------------------------------------
(* Properties. *)

\* Once no operation on it is under way, the secret a catalog refers to is the password its operator gave last,
\* and every secret has a catalog; but for a key that two catalogs shared, or that a call whose answer was lost, or an
\* operation cut off, left half done.  What failed without effect is no exception.
PasswordsAreTheirOwn ==
  \A k \in CatalogNames \ unsure : Quiet(k) =>
    /\ \A i \in Holders(k) : secrets[k] = gave[i]
    /\ secrets[k] # None => Holders(k) # {}
=============================================================================
