---------------------------- MODULE ServiceFrame ----------------------------
(***************************************************************************)
(* The frame shared by the session services of apps/api/src.  A service    *)
(* keeps one database row per session.  An endpoint loads the row, checks  *)
(* its status, waits for others, and writes the row again by its key, so   *)
(* that what it writes rests on what it loaded and not on what is there.   *)
(* Requests interleave at every await, and one may die at any of them.     *)
(*                                                                         *)
(* The frame follows one session of one service; `world` is what has been  *)
(* done outside the database on its behalf.                                *)
(***************************************************************************)
EXTENDS Naturals

CONSTANTS
    Requests,   \* request slots
    NoValue,    \* an idle request has loaded nothing
    MaxFaults   \* bound: requests that die, statements and calls that fail

ASSUME FrameAssumption == MaxFaults \in Nat

VARIABLES
    service,    \* the service followed
    row,        \* the session's row
    world,      \* what happened outside the database
    pc,         \* next step of each request
    held,       \* what each request has loaded
    overlapped, \* history: a request began while another was under way
    faults      \* history: how many faults happened

fvars == <<service, row, world, pc, held, overlapped, faults>>

Busy == \E q \in Requests : pc[q] # "idle"

\* An endpoint is called and passes its checks; loaded is its copy.
Begin(r, label, loaded) ==
    /\ pc[r] = "idle"
    /\ pc' = [pc EXCEPT ![r] = label]
    /\ held' = [held EXCEPT ![r] = loaded]
    /\ overlapped' = (overlapped \/ Busy)
    /\ UNCHANGED <<service, row, world, faults>>

\* An endpoint that is a single statement.
Once(r, newRow, newWorld) ==
    /\ pc[r] = "idle"
    /\ row' = newRow /\ world' = newWorld
    /\ overlapped' = (overlapped \/ Busy)
    /\ UNCHANGED <<service, pc, held, faults>>

Proceed(r, label, loaded) ==
    /\ pc' = [pc EXCEPT ![r] = label]
    /\ held' = [held EXCEPT ![r] = IF label = "idle" THEN NoValue ELSE loaded]

\* One step of a request under way: it updates the row, acts outside, or both.
Step(r, label, loaded, newRow, newWorld) ==
    /\ Proceed(r, label, loaded)
    /\ row' = newRow /\ world' = newWorld
    /\ UNCHANGED <<service, overlapped, faults>>

Save(r, newRow, label) == Step(r, label, held[r], newRow, world)
Act(r, newWorld, label) == Step(r, label, held[r], row, newWorld)
Pass(r, label) == Save(r, row, label)

\* A step that goes wrong; MaxFaults bounds how often.
Fault(r, label, newWorld) ==
    /\ faults < MaxFaults /\ faults' = faults + 1
    /\ Proceed(r, label, held[r])
    /\ world' = newWorld
    /\ UNCHANGED <<service, row, overlapped>>

\* The process stops, or a statement no handler catches throws.
Die(r) == pc[r] # "idle" /\ Fault(r, "idle", world)

\* Something that no request does.
Outside(newRow, newWorld) ==
    /\ row' = newRow /\ world' = newWorld
    /\ UNCHANGED <<service, pc, held, overlapped, faults>>

FrameInit ==
    /\ pc = [r \in Requests |-> "idle"]
    /\ held = [r \in Requests |-> NoValue]
    /\ overlapped = FALSE /\ faults = 0
=============================================================================
