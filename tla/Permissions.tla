---------------------------- MODULE Permissions ----------------------------
(***************************************************************************)
(* Who may do what (rbac.evaluator.ts): single records are checked with    *)
(* can(), lists are cut with getListAccessScope and filterByListScope.     *)
(* One action on one resource; a key of a record (branch, department, ...) *)
(* is that of the user, another one, or missing.                           *)
(***************************************************************************)
EXTENDS Sample

CONSTANT Lapsing   \* the scopes a role whose assignment has run out may grant

ScopeName == {"company", "branch", "department", "team", "own", "broker_own"}
Key == {"here", None}

Employees == [branch : Key, department : Key]

ASSUME PermissionsAssumption ==
  None \notin ScopeName \cup Employees \cup {"here", "there", "grant", "revoke"}

Users == [userType : {"employee", "broker_user"}, employee : Employees \cup {None}, brokerCompany : Key]

(* Roles of a user: the scopes granted by those in force and by the rest;   *)
(* overrides: the effects in force.                                        *)
Accounts == [of : {"permission"}, user : Users, granted : SUBSET ScopeName,
             lapsed : SUBSET Lapsing, overrides : SUBSET {"grant", "revoke"}]

Records == [company : {"here", "there"}, owner : {"me", "other", None}, branch : Key \cup {"there"},
            department : Key, manager : {"me", None}, brokerCompany : Key, submitter : {"me", "other"}]
-----------------------------------------------------------------------------
(* grantsFor: the roles of the user that have not run out. *)
GrantsFor(a) == a.granted

(* matchingOverride: a revoke beats a grant. *)
Override(a) ==
  IF "revoke" \in a.overrides THEN "revoke" ELSE IF "grant" \in a.overrides THEN "grant" ELSE None

Same(key, other) == key # None /\ key = other

SubmittedByBroker(a, r) == r.submitter = "me" \/ Same(r.brokerCompany, a.user.brokerCompany)

ScopeAllows(scope, a, r) ==
  LET e == a.user.employee
  IN  CASE scope = "company" -> r.company = "here"
        [] scope = "branch" -> e # None /\ Same(e.branch, r.branch)
        [] scope = "department" -> e # None /\ Same(e.department, r.department)
        [] scope = "team" -> e # None /\ r.manager = "me"
        [] scope = "own" -> r.owner = "me"
        [] scope = "broker_own" -> SubmittedByBroker(a, r)

Can(a, r) ==
  /\ Override(a) # "revoke"
  /\ r.company = "here"
  /\ \/ Override(a) = "grant"
     \/ /\ a.user.userType = "broker_user"
        /\ GrantsFor(a) # {}
        /\ SubmittedByBroker(a, r)
     \/ /\ a.user.userType # "broker_user"
        /\ \E scope \in GrantsFor(a) : ScopeAllows(scope, a, r)

(* Without a record any grant is enough. *)
CanAtAll(a) ==
  /\ Override(a) # "revoke"
  /\ Override(a) = "grant" \/ GrantsFor(a) # {}
-----------------------------------------------------------------------------
Priority == <<"company", "branch", "department", "team", "own", "broker_own">>

(* A scope the user has no place in is passed over. *)
Available(scope, a) ==
  LET e == a.user.employee
  IN  CASE scope = "branch" -> e # None /\ e.branch # None
        [] scope = "department" -> e # None /\ e.department # None
        [] scope = "team" -> e # None
        [] scope = "broker_own" -> a.user.brokerCompany # None
        [] OTHER -> TRUE

(* The first scope of a role in which the user has a place. *)
BroadestScope(a) ==
  LET open == {i \in DOMAIN Priority : Priority[i] \in GrantsFor(a) /\ Available(Priority[i], a)}
  IN  IF open = {} THEN None ELSE Priority[CHOOSE i \in open : \A j \in open : i <= j]

(* Mutant: without the wall around brokers a wide grant shows them all. *)
GetListAccessScopeUnwalled(a) ==
  IF Override(a) = "revoke" THEN None
  ELSE IF Override(a) = "grant" THEN "company" ELSE BroadestScope(a)

GetListAccessScope(a) ==
  IF Override(a) = "revoke" THEN None
  ELSE IF a.user.userType = "broker_user"
    THEN IF CanAtAll(a) /\ a.user.brokerCompany # None THEN "broker_own" ELSE None
  ELSE IF Override(a) = "grant" THEN "company" ELSE BroadestScope(a)

(* filterByListScope, over the records of the company. *)
Listed(a, r) ==
  LET e == a.user.employee
      scope == GetListAccessScope(a)
  IN  /\ r.company = "here"
      /\ CASE scope = None -> FALSE
           [] scope = "company" -> TRUE
           [] scope = "own" -> r.owner = "me"
           [] scope = "department" -> r.department = e.department
           [] scope = "branch" -> r.branch = e.branch
           [] scope = "team" -> r.manager = "me"
           [] scope = "broker_own" -> r.brokerCompany = a.user.brokerCompany
-----------------------------------------------------------------------------
PermissionsInit == Given(Accounts)
CheckAccess == sample.of = "permission" /\ Answer({r \in Records : Listed(sample, r)})
PermissionsSpec == PermissionsInit /\ [][CheckAccess]_sampleVars

(* A list shows no record that the same account could not open, and nothing *)
(* to an account whose roles have run out; it is empty for an employee who  *)
(* could open a record only where that was submitted by the employee, which *)
(* no list looks at (rbac.evaluator.ts:144-149, scope-filter.ts:11-16).     *)
ListedIsAllowed ==
  Answered("permission") =>
    /\ \A r \in answer : Can(sample, r)
    /\ sample.granted = {} /\ "grant" \notin sample.overrides => answer = {}
    /\ answer = {} /\ sample.user.userType # "broker_user" =>
         \A r \in Records : Can(sample, r) => r.submitter = "me"
=============================================================================
