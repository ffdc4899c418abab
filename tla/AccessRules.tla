------------------------------- MODULE AccessRules -------------------------------
(***************************************************************************)
(* Data policies and tags, and the access-control rules a node is given: what operators    *)
(* store per role, the rules render_access_control_rules makes of it, and what Trino         *)
(* decides by them.                                                                          *)
(*                                                                                           *)
(* Trino takes the first table rule that fits user and table, so that rules do not add up:   *)
(* the first policy decides alone, and a tag policy only where no policy speaks.  A policy   *)
(* is for one table or, with Wild, for all of its catalog.  Filters go with their policy and *)
(* are left out, and what a mask computes; so are system tables, which every rendering opens *)
(* to all, and the rules for catalogs.  There is one tag.  Users and their roles are what    *)
(* Accounts left; only active users count.                                                   *)
(***************************************************************************)
EXTENDS Naturals, Sequences, FiniteSets, SequencesExt

CONSTANTS
  ActiveUsers,
  PolicyRoles,  \* the roles policies are for
  Catalogs,
  Names,        \* tables of each catalog
  Columns,      \* of each table
  Policy,       \* the policies that are tried
  Piis,         \* the columns with a name that PII_COLUMN_PATTERNS matches
  MaxPolicies,  \* bound: policies
  MaxStored     \* bound: policies, tags, tag policies and cached tables together

Wild == "*"
Privileges == {"SELECT", "INSERT", "UPDATE", "DELETE"}
Everything == Privileges \union {"OWNERSHIP"}
Tables == Catalogs \X Names
PolicyRow == [role : PolicyRoles, catalog : Catalogs, table : Names \union {Wild}, privileges : (SUBSET Privileges) \ {{}},
              allowed : SUBSET Columns, denied : SUBSET Columns, masks : SUBSET Columns]
TagPolicy == [role : PolicyRoles, effect : {"deny", "mask"}]

ASSUME ListsAssumption ==
  /\ Piis \subseteq Columns /\ Policy \subseteq PolicyRow /\ MaxPolicies \in Nat /\ MaxStored \in Nat
  /\ IsFiniteSet(Catalogs) /\ IsFiniteSet(Names) /\ IsFiniteSet(Columns) /\ "*" \notin Catalogs \union Names

VARIABLES
  userRoles,   \* userRoles[u]: the roles of a user
  policies,    \* rows of data_policies, by id
  tags,        \* rows of entity_tags
  tagPolicies, \* rows of tag_policies
  cached       \* what metadata_cache says of a table's columns

stored == <<userRoles, policies, tags, tagPolicies, cached>>

-------------------------------------------------------------------------------
Stored == Len(policies) + Cardinality(tags) + Cardinality(tagPolicies) + Cardinality({t \in Tables : cached[t] # "unknown"})

AccessInit ==
  /\ userRoles \in [ActiveUsers -> SUBSET PolicyRoles]
  /\ policies = <<>> /\ tags = {} /\ tagPolicies = {}
  /\ cached = [t \in Tables |-> "unknown"]

-------------------------------------------------------------------------------
(* The operations. *)

CreateDataPolicy ==
  /\ Stored < MaxStored /\ Len(policies) < MaxPolicies
  /\ \E p \in Policy : policies' = Append(policies, p)
  /\ UNCHANGED <<userRoles, tags, tagPolicies, cached>>

DeleteDataPolicy(i) ==
  /\ policies' = RemoveAt(policies, i)
  /\ UNCHANGED <<userRoles, tags, tagPolicies, cached>>

\* A tag that is set by hand, or was proposed, is accepted.
CreateEntityTag ==
  /\ \E t \in Tables, c \in Columns \union {Wild} :
       /\ Stored < MaxStored \/ [table |-> t, column |-> c, status |-> "proposed"] \in tags
       /\ tags' = (tags \ {[table |-> t, column |-> c, status |-> "proposed"]})
                    \union {[table |-> t, column |-> c, status |-> "accepted"]}
  /\ UNCHANGED <<userRoles, policies, tagPolicies, cached>>

\* Accepted, or rejected and gone.
ResolveEntityTag(t) ==
  /\ tags' = (tags \ {t}) \union {[t EXCEPT !.status = "accepted"]} \/ tags' = tags \ {t}
  /\ UNCHANGED <<userRoles, policies, tagPolicies, cached>>

CreateTagPolicy ==
  /\ Stored < MaxStored
  /\ \E p \in TagPolicy : tagPolicies' = tagPolicies \union {p}
  /\ UNCHANGED <<userRoles, policies, tags, cached>>

DeleteTagPolicy(p) ==
  /\ tagPolicies' = tagPolicies \ {p}
  /\ UNCHANGED <<userRoles, policies, tags, cached>>

\* The cached columns that look like PII are proposed, unless their tag is there.
RunPiiClassifier ==
  /\ LET found == {t \in {t \in Tables : cached[t] # "unknown"} \X Piis : \A s \in tags : <<s.table, s.column>> # t} IN
     /\ Stored + Cardinality(found) <= MaxStored
     /\ tags' = tags \union {[table |-> t[1], column |-> t[2], status |-> "proposed"] : t \in found}
  /\ UNCHANGED <<userRoles, policies, tagPolicies, cached>>

\* The schema browser reads a table's columns.
CacheColumns ==
  /\ \E t \in Tables : (cached[t] = "unknown" => Stored < MaxStored) /\ cached' = [cached EXCEPT ![t] = "known"]
  /\ UNCHANGED <<userRoles, policies, tags, tagPolicies>>

\* It lists the tables on another cluster: of the table's rows, the newest one has no columns now.
CacheTables(t) ==
  /\ cached[t] = "known" /\ cached' = [cached EXCEPT ![t] = "shadowed"]
  /\ UNCHANGED <<userRoles, policies, tags, tagPolicies>>

-------------------------------------------------------------------------------
(* render_access_control_rules. *)

\* _role_member_regex, as the set of users it matches; {} where there is none.
Members(r) == {u \in ActiveUsers : r \in userRoles[u]}

HiddenByList(p) ==
  p.denied \union (IF p.allowed # {} /\ p.table # Wild /\ cached[<<p.catalog, p.table>>] = "known" THEN Columns \ p.allowed ELSE {})

\* The columns an allow-list does not name are denied, as far as the newest row of the cache knows them; one that has an
\* entry already, denied or masked, gets no other.
Hidden(p) == p.denied \union (IF p.allowed # {} /\ p.table # Wild /\ cached[<<p.catalog, p.table>>] = "known"
                         THEN Columns \ (p.allowed \union p.masks) ELSE {})

PolicyRule(p) == [users |-> Members(p.role), catalog |-> p.catalog, table |-> p.table, privileges |-> p.privileges,
                  hidden |-> Hidden(p), masked |-> p.masks]

\* The rules of the first n policies; a role without members has none.
RulesOfFirst[n \in 0 .. Len(policies)] ==
  IF n = 0 THEN <<>>
  ELSE IF Members(policies[n].role) = {} THEN RulesOfFirst[n - 1]
  ELSE Append(RulesOfFirst[n - 1], PolicyRule(policies[n]))
PolicyRules == RulesOfFirst[Len(policies)]

\* Tags of tables have no effect; the rows come in any order.
TagRules ==
  {[users |-> Members(p.role), catalog |-> t.table[1], table |-> t.table[2], privileges |-> {"SELECT"},
    hidden |-> IF p.effect = "deny" THEN {t.column} ELSE {}, masked |-> IF p.effect = "mask" THEN {t.column} ELSE {}] :
      p \in {q \in tagPolicies : Members(q.role) # {}}, t \in {s \in tags : s.status = "accepted" /\ s.column # Wild}}

RestrictedFirst(rules) == IF rules = <<>> THEN {} ELSE rules[1].users

Restricted(rules) == UNION {rules[i].users : i \in DOMAIN rules}

Rest(rules) == [users |-> ActiveUsers \ Restricted(rules), catalog |-> Wild, table |-> Wild, privileges |-> Everything,
                hidden |-> {}, masked |-> {}]

\* The lists that may be written; none is while there is nothing to say.
WideOpen == policies = <<>> /\ ({t \in tags : t.status = "accepted"} = {} \/ tagPolicies = {})
TableRules ==
  LET rules == PolicyRules IN {Append(rules \o s, Rest(rules)) : s \in SetToSeqs(TagRules)}

\* What Trino does with them: the first rule that fits.
Fits(rule, u, t) == u \in rule.users /\ rule.catalog \in {Wild, t[1]} /\ rule.table \in {Wild, t[2]}
Nothing == [privileges |-> {}, hidden |-> {}, masked |-> {}]
Access(rules, u, t) ==
  LET n == SelectInSeq(rules, LAMBDA rule : Fits(rule, u, t)) IN
  IF n = 0 THEN Nothing ELSE [privileges |-> rules[n].privileges, hidden |-> rules[n].hidden, masked |-> rules[n].masked]

-------------------------------------------------------------------------------
AccessNext ==
  \/ CreateDataPolicy \/ CreateEntityTag \/ CreateTagPolicy \/ RunPiiClassifier \/ CacheColumns
  \/ \E i \in DOMAIN policies : DeleteDataPolicy(i)
  \/ \E t \in tags : ResolveEntityTag(t)
  \/ \E t \in Tables : CacheTables(t)
  \/ \E p \in tagPolicies : DeleteTagPolicy(p)

AccessSpec == AccessInit /\ [][AccessNext]_stored

-------------------------------------------------------------------------------
(* Properties. *)

All == [privileges |-> Everything, hidden |-> {}, masked |-> {}]
Decisions(written, u, t) == IF WideOpen THEN {All} ELSE {Access(rules, u, t) : rules \in written}

Own(u) == {i \in DOMAIN policies : policies[i].role \in userRoles[u]}
OwnOn(u, t) == {i \in Own(u) : policies[i].catalog = t[1] /\ policies[i].table \in {Wild, t[2]}}
TagsOn(u, t) == {x \in tags \X tagPolicies : /\ x[1].table = t /\ x[1].column # Wild /\ x[1].status = "accepted"
                                             /\ x[2].role \in userRoles[u]}

\* The columns of t that a policy does not deny; those it does not mask either are read in clear, with SELECT.
Shown(p, t) == {c \in Columns \ p.denied : p.allowed = {} \/ c \in p.allowed \union p.masks \/ p.table = Wild \/ cached[t] # "known"}
InClear(d) == IF "SELECT" \in d.privileges THEN Columns \ (d.hidden \union d.masked) ELSE {}
OfTag(x) == [privileges |-> {"SELECT"}, hidden |-> IF x[2].effect = "deny" THEN {x[1].column} ELSE {},
             masked |-> IF x[2].effect = "mask" THEN {x[1].column} ELSE {}]

\* Whatever the order of policies and tags: a user with policies on a table has no privilege there, and reads no column in
\* clear, that none of her policies gives; one whom only tags reach there reads, and no column in clear that all of them
\* withhold; one whose policies are all on other tables has nothing, and one with neither everything.  Where she has a
\* policy tags do not count, though the comment in the code calls them "on top of whatever access path grants the table".
LimitedToPolicies ==
  LET written == TableRules IN \A u \in ActiveUsers, t \in Tables : \A d \in Decisions(written, u, t) :
    LET own == {policies[i] : i \in OwnOn(u, t)}
        reading == {p \in own : "SELECT" \in p.privileges} IN
    IF Own(u) = {} /\ TagsOn(u, t) = {} THEN d = All
    ELSE IF own # {} THEN /\ d.privileges # {} /\ d.privileges \subseteq UNION {p.privileges : p \in own}
                          /\ InClear(d) \subseteq UNION {Shown(p, t) \ p.masks : p \in reading}
    ELSE IF TagsOn(u, t) # {} THEN /\ d.privileges = {"SELECT"}
                                   /\ InClear(d) \subseteq UNION {Columns \ {x[1].column} : x \in TagsOn(u, t)}
    ELSE d.privileges = {}

\* Where a user has one policy on a table, Trino applies it as it was written: its privileges, its masks, and the columns
\* it denies, among them those an allow-list leaves out as far as they are known; and so a lone tag policy, without one.
OneRuleIsKept ==
  LET written == TableRules IN \A u \in ActiveUsers, t \in Tables : \A d \in Decisions(written, u, t) :
    /\ \A i \in OwnOn(u, t) : OwnOn(u, t) = {i} =>
         d = [privileges |-> policies[i].privileges, hidden |-> Columns \ Shown(policies[i], t), masked |-> policies[i].masks]
    /\ OwnOn(u, t) = {} => \A x \in TagsOn(u, t) : TagsOn(u, t) = {x} => d = OfTag(x)
=============================================================================
