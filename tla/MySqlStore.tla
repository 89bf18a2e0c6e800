------------------------------ MODULE MySqlStore ------------------------------
(***************************************************************************)
(* The MySQL database the server processes share, seen through the model   *)
(* classes UserOperator, OfflineMessage and GroupOpt.  Every call opens a  *)
(* connection of its own and runs one auto-committed statement, so a call  *)
(* is one atomic step and nothing spans two of them.  A call can fail (the *)
(* connect or the statement): the model classes then return their default  *)
(* value and the handlers go on, which is what the second disjunct of each *)
(* operator does.                                                          *)
(***************************************************************************)
EXTENDS ChatTypes

CONSTANT MaxDbFaults    \* bound: how many database calls may fail

ASSUME MaxDbFaultsAssumption == MaxDbFaults \in Nat

VARIABLES
    userState,      \* userState[u]: column User.state
    offlineMsg,     \* offlineMsg[u]: the rows of OfflineMessage with userid u
    groupUser,      \* groupUser[g]: the userids of GroupUser with groupid g
    dbFaults        \* how many calls have failed so far

dbVars == <<userState, offlineMsg, groupUser, dbFaults>>

UserStates == {"online", "offline"}

DbTypeOK ==
    /\ userState \in [Users -> UserStates]
    /\ offlineMsg \in [Users -> Rows]
    /\ groupUser \in [Groups -> SUBSET Users]
    /\ dbFaults \in 0 .. MaxDbFaults

DbInit ==
    /\ userState = [u \in Users |-> "offline"]
    /\ offlineMsg = [u \in Users |-> NoRows]
    /\ groupUser = [g \in Groups |-> {}]
    /\ dbFaults = 0

DbOk == UNCHANGED dbFaults

DbFail ==
    /\ dbFaults < MaxDbFaults
    /\ dbFaults' = dbFaults + 1

\* update User set state = ... where id = u
updateState(u, state) ==
    /\ \/ userState' = [userState EXCEPT ![u] = state] /\ DbOk
       \/ UNCHANGED userState /\ DbFail
    /\ UNCHANGED <<offlineMsg, groupUser>>

\* update User set state = 'offline' where state = 'online', of every server
resetState ==
    /\ \/ userState' = [u \in Users |-> "offline"] /\ DbOk
       \/ UNCHANGED userState /\ DbFail
    /\ UNCHANGED <<offlineMsg, groupUser>>

\* insert into OfflineMessage values(u, m); the table has no key
insertOffline(u, m) ==
    /\ \/ offlineMsg' = [offlineMsg EXCEPT ![u][m] = @ + 1] /\ DbOk
       \/ UNCHANGED offlineMsg /\ DbFail
    /\ UNCHANGED <<userState, groupUser>>

\* delete from OfflineMessage where userid = u: whatever rows are there NOW
removeOffline(u) ==
    /\ \/ offlineMsg' = [offlineMsg EXCEPT ![u] = NoRows] /\ DbOk
       \/ UNCHANGED offlineMsg /\ DbFail
    /\ UNCHANGED <<userState, groupUser>>

\* insert into GroupUser: adding a member twice is adding it once
addGroupRow(u, g) ==
    /\ \/ groupUser' = [groupUser EXCEPT ![g] = @ \cup {u}] /\ DbOk
       \/ UNCHANGED groupUser /\ DbFail
    /\ UNCHANGED <<userState, offlineMsg>>
==============================================================================
