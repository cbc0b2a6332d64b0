------------------------------ MODULE UserRows ------------------------------
(***************************************************************************)
(* The data of the Todo screens: the User of models/user.dart, the rows of *)
(* dbTable (persistantStorage/sqFlite.dart) and the results of the         *)
(* helper's operations.                                                    *)
(***************************************************************************)
EXTENDS Naturals

CONSTANTS
  Name,    \* user names (the password column carries no information here)
  MaxId,   \* bound: no insert is requested that could need a larger row id
  None     \* Dart's null

ASSUME NoneAssumption == None \notin Nat
ASSUME MaxIdAssumption == MaxId \in Nat

Id   == 1 .. MaxId
Row  == [_id : Id, username : Name \cup {None}]
User == [username : Name \cup {None}, id : Id \cup {None}]
Ops  == {"insertUser", "updateUser", "deleteUser", "getAllUsers", "getUser", "close"}

\* Arguments are users, or the id of one, or nothing.
OnlyId(id) == [username |-> None, id |-> id]
Nothing    == OnlyId(None)

\* A call yields an error, a count or an id, the list of rows, or one user.
Result     == [ok : BOOLEAN, n : Nat, rows : SUBSET Row, user : User]
Failure    == [ok |-> FALSE, n |-> 0, rows |-> {}, user |-> Nothing]
Success(n) == [Failure EXCEPT !.ok = TRUE, !.n = n]
Listed(rs) == [Failure EXCEPT !.ok = TRUE, !.rows = rs]
Found(u)   == [Failure EXCEPT !.ok = TRUE, !.user = u]

-----------------------------------------------------------------------------
(* models/user.dart: a User as the map given to sqlite, and back. *)

\* map[key] in Dart: null for a key the map does not hold
At(map, key) == IF key \in DOMAIN map THEN map[key] ELSE None

toMap(u)     == [username |-> u.username, _id |-> u.id]
fromMap(map) == [username |-> At(map, "username"), id |-> At(map, "id")]

\* Mutant: keys are counted from 0.
FreshIds_FromZero(rows) == {n \in 0 .. MaxId : /\ \A r \in rows : r._id < n
                                               /\ n = 0 \/ \E r \in rows : r._id = n - 1}

\* sqlite's choice for a null `integer primary key`: one more than the largest
FreshIds(rows) == {n \in Id : /\ \A r \in rows : r._id < n
                              /\ n = 1 \/ \E r \in rows : r._id = n - 1}

\* `_id` is the primary key: a statement that names one affects at most one row
Affected(rows) == IF rows = {} THEN 0 ELSE 1
=============================================================================
