------------------------------ MODULE JobBoard ------------------------------
(***************************************************************************)
(* What the job queue promises, without rows, locks and statements: every  *)
(* client has a place on a board, a request for one client writes its job  *)
(* there, and a request for many writes one job on all the places it takes *)
(* in a single step, none of which holds a job of the other kind.          *)
(* JobQueue.tla implements this.                                           *)
(***************************************************************************)
CONSTANTS Clients, Jobs,
          None     \* no job

VARIABLES board,    \* board[c]: the job, and whether c was given it by itself
          assigned  \* assigned[c]: the job c was last given by itself

boardVars == <<board, assigned>>

Nothing == [name |-> None, queued |-> FALSE]

BoardInit ==
    /\ board = [c \in Clients |-> Nothing]
    /\ assigned = [c \in Clients |-> None]

GiveOne(c, j) ==
    /\ board' = [board EXCEPT ![c] = [name |-> j, queued |-> TRUE]]
    /\ assigned' = [assigned EXCEPT ![c] = j]

GiveAll(S, j) ==
    /\ \A c \in S : ~board[c].queued
    /\ board' = [c \in Clients |-> IF c \in S THEN [name |-> j, queued |-> FALSE]
                                   ELSE board[c]]
    /\ UNCHANGED assigned

TakeOff(c) ==
    /\ board' = [board EXCEPT ![c] = Nothing]
    /\ assigned' = [assigned EXCEPT ![c] = None]

BoardNext ==
    \/ \E S \in SUBSET Clients, j \in Jobs : GiveAll(S, j)
    \/ \E c \in Clients, j \in Jobs : GiveOne(c, j)
    \/ \E c \in Clients : TakeOff(c)

BoardSpec == BoardInit /\ [][BoardNext]_boardVars
=============================================================================
