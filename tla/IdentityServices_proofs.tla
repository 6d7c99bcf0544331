----------------------- MODULE IdentityServices_proofs -----------------------
(***************************************************************************)
(* The safety properties of the identity services, for any number of       *)
(* requests, people, tasks and faults.  A step is described by where it    *)
(* leaves its request and what it makes of the row and the world (Moved);  *)
(* MoveInv says once for all services what such a step owes the invariant  *)
(* of IdentityInvariant (MoveOK), and each service pays it action by       *)
(* action.                                                                 *)
(***************************************************************************)
EXTENDS IdentityInvariant, FiniteSetTheorems, TLAPS

\* The world goes on: nothing done, shown, refused or excused is taken back.
WorldLater(w, v) ==
    /\ w.shown \subseteq v.shown /\ w.done <= v.done
    /\ (w.refused => v.refused) /\ (w.excused => v.excused)

\* So does the row, in what others rely on.
RowLater(rw, rv) ==
    /\ service = "BLIDE" =>
           /\ rw.status # "NONE" => rv.status # "NONE" /\ rv.kind = rw.kind
           /\ rw.match # NoOne => rv.match # NoOne
           /\ Len(rw.challenges) <= Len(rv.challenges)
    /\ service = "LBAS" => (rw.late => rv.late)

Rep(label) == IF label \in Reporting THEN 1 ELSE 0

\* A step of request r, which was under way.
Moved(r, label, loaded, rw, w, f) ==
    /\ pc[r] # "idle"
    /\ Proceed(r, label, loaded)
    /\ row' = rw /\ world' = w /\ faults' = f
    /\ UNCHANGED <<service, overlapped>>

\* What it must see to, apart from the types.
Challenging == {"blide_issue", "blide_create"}

MoveTyped(label, loaded, rw, w, f) ==
    /\ label \in {"idle"} \cup LabelsOf(service)
    /\ loaded \in HeldOf(service)
    /\ rw \in RowsOf(service) /\ w \in WorldType
    /\ f \in Nat /\ faults <= f

Balanced(r, label, w, f) ==
    f = 0 /\ ~ w.excused =>
        w.done + world.told + Rep(pc[r]) = world.done + w.told + Rep(label)

MoveOK(r, label, loaded, rw, w, f) ==
    /\ RowLater(row, rw) /\ WorldLater(world, w)
    /\ Evidenced(rw, w, overlapped)
    /\ RowOK(rw, w, f)
    /\ RequestOK(label, loaded, rw, w, f)
    /\ SoloOK(pc[r], held[r], row, world, faults) =>
           SoloOK(label, loaded, rw, w, f)
    /\ Balanced(r, label, w, f)
    /\ service = "BLIDE" /\ rw.status = "LIVENESS_CHALLENGED" /\ f = 0 =>
           \/ Len(rw.challenges) > 0
           \/ label \in Challenging
           \/ row.status = "LIVENESS_CHALLENGED" /\ pc[r] \notin Challenging
    /\ service = "SENSOR" =>
           w.done = world.done /\ w.revoked = world.revoked
                               /\ w.excused = world.excused

-----------------------------------------------------------------------------
(* What holds of every request survives the steps of the others.           *)

LEMMA HasKept ==
    ASSUME NEW w, NEW v, WorldLater(w, v), NEW p, NEW e, Has(w, p, e)
    PROVE  Has(v, p, e)
BY DEF WorldLater, Has

\* What a request relies on stays so while the row and the world go on.
LEMMA RequestKept ==
    ASSUME NEW l, NEW h, NEW rw \in RowsOf(service), NEW rv \in RowsOf(service),
           NEW w \in WorldType, NEW v \in WorldType, NEW f \in Nat, NEW g \in Nat,
           RequestOK(l, h, rw, w, f), RowLater(rw, rv), WorldLater(w, v), f <= g
    PROVE  RequestOK(l, h, rv, v, g)
<1>1. \A p, e : Has(w, p, e) => Has(v, p, e)
  BY HasKept
<1>2. w.done > 0 => v.done > 0
  BY DEF WorldLater, WorldType
<1>3. CASE service = "BIH"
  BY <1>1, <1>2, <1>3 DEF RequestOK, BihRequestOK
<1>4. CASE service = "BLS"
  BY <1>1, <1>2, <1>4 DEF RequestOK, BlsRequestOK, BlsRowOK
<1>5. CASE service = "BLIDE"
  <2>1. BlideRequestOK(l, h, rw, w)
    BY <1>5 DEF RequestOK
  <2>2. l # "idle" => rv.status # "NONE" /\ rv.kind = rw.kind
    BY <2>1, <1>5 DEF BlideRequestOK, RowLater
  <2>3. BlideTargetOK(l, h, w) => BlideTargetOK(l, h, v)
    BY <1>1 DEF BlideTargetOK
  <2>4. l = "idle" => BlideTargetOK(l, h, v)
    BY DEF BlideTargetOK, Targeted
  <2>5. rv.kind = "ACCOUNT_SETUP" => BlideTargetOK(l, h, v)
    BY <2>1, <2>2, <2>3, <2>4 DEF BlideRequestOK
  <2>6. Len(rw.challenges) \in Nat /\ Len(rv.challenges) \in Nat
    BY <1>5 DEF RowsOf, BlideRows
  <2>7. l \in {"blide_verify", "blide_consume"} =>
            h.challenge \in 1 .. Len(rv.challenges)
    BY <2>1, <2>6, <1>5 DEF BlideRequestOK, RowLater
  <2>8. rw.match # NoOne => rv.match # NoOne
    BY <1>5 DEF RowLater
  <2> QED
    BY <1>1, <1>2, <2>1, <2>2, <2>5, <2>7, <2>8, <1>5
    DEF RequestOK, BlideRequestOK
<1>6. CASE service = "ZFOE"
  <2>1. w.shown # {} => v.shown # {}
    BY DEF WorldLater
  <2> QED
    BY <1>2, <1>6, <2>1 DEF RequestOK, ZfoeRequestOK
<1>7. CASE service = "ZFPS"
  <2>1. f > 0 => g > 0
    OBVIOUS
  <2>2. w.refused => v.refused
    BY DEF WorldLater
  <2> QED
    BY <1>2, <1>7, <2>1, <2>2 DEF RequestOK, ZfpsRequestOK
<1>8. CASE service = "LBAS"
  <2>1. rw.late => rv.late
    BY <1>8 DEF RowLater
  <2> QED
    BY <1>1, <1>8, <2>1 DEF RequestOK, LbasRequestOK
<1> QED
  BY <1>3, <1>4, <1>5, <1>6, <1>7, <1>8 DEF RequestOK

\* Nothing is relied on by a request that is not under way.
LEMMA IdleRelies ==
    ASSUME NEW h, NEW rw, NEW w, NEW f
    PROVE  RequestOK("idle", h, rw, w, f)
BY DEF RequestOK, BihRequestOK, BlsRequestOK, BlideRequestOK, BlideTargetOK,
       Targeted, ZfoeRequestOK, ZfpsRequestOK, LbasRequestOK

\* Nor does it matter what it held.
LEMMA IdleHolds ==
    ASSUME NEW h, NEW k, NEW rw, NEW w, NEW f, SoloOK("idle", h, rw, w, f)
    PROVE  SoloOK("idle", k, rw, w, f)
BY DEF SoloOK, BlideSoloOK, BlideTargetOK, Targeted

\* One request's step changes the number of those that report by its own.
LEMMA ReportersStep ==
    ASSUME NEW r \in Requests, NEW label, NEW T, pc \in [Requests -> T],
           pc' = [pc EXCEPT ![r] = label], IsFiniteSet(Reporters)
    PROVE  /\ IsFiniteSet(Reporters')
           /\ Cardinality(Reporters') \in Nat /\ Cardinality(Reporters) \in Nat
           /\ Cardinality(Reporters') + Rep(pc[r]) =
                  Cardinality(Reporters) + Rep(label)
<1> DEFINE Others == Reporters \ {r}
<1>1. r \in Reporters <=> pc[r] \in Reporting
  BY DEF Reporters
<1>2. Reporters' = IF label \in Reporting THEN Others \cup {r} ELSE Others
  BY DEF Reporters
<1>3. /\ IsFiniteSet(Others)
      /\ Cardinality(Others) =
             IF r \in Reporters THEN Cardinality(Reporters) - 1
             ELSE Cardinality(Reporters)
  BY FS_RemoveElement
<1>4. /\ IsFiniteSet(Others \cup {r})
      /\ Cardinality(Others \cup {r}) =
             IF r \in Others THEN Cardinality(Others) ELSE Cardinality(Others) + 1
  BY <1>3, FS_AddElement
<1>5. r \notin Others
  OBVIOUS
<1>6. /\ IsFiniteSet(Reporters')
      /\ Cardinality(Reporters') =
             IF label \in Reporting THEN Cardinality(Others) + 1
             ELSE Cardinality(Others)
  BY <1>2, <1>3, <1>4, <1>5
<1>7. Cardinality(Reporters) \in Nat /\ Cardinality(Others) \in Nat
      /\ Cardinality(Reporters') \in Nat
  BY <1>3, <1>6, FS_CardinalityType
<1> HIDE DEF Others
<1> QED
  BY <1>1, <1>3, <1>6, <1>7 DEF Rep
-----------------------------------------------------------------------------
(* A step that pays what it owes keeps the invariant.                      *)

LEMMA MoveTypes ==
    ASSUME Typed, NEW r \in Requests, NEW label, NEW loaded, NEW rw, NEW w, NEW f,
           Moved(r, label, loaded, rw, w, f), MoveTyped(label, loaded, rw, w, f)
    PROVE  /\ Typed'
           /\ pc'[r] = label
           /\ held'[r] = IF label = "idle" THEN NoValue ELSE loaded
           /\ \A q \in Requests \ {r} : pc'[q] = pc[q] /\ held'[q] = held[q]
<1>1. pc' = [pc EXCEPT ![r] = label]
  BY DEF Moved, Proceed
<1>2. held' = [held EXCEPT ![r] = IF label = "idle" THEN NoValue ELSE loaded]
  BY DEF Moved, Proceed
<1>3. /\ pc \in [Requests -> {"idle"} \cup LabelsOf(service)]
      /\ held \in [Requests -> HeldOf(service) \cup {NoValue}]
      /\ \A q \in Requests : pc[q] # "idle" => held[q] \in HeldOf(service)
  BY DEF Typed
<1>4. pc'[r] = label
  BY <1>1, <1>3
<1>5. held'[r] = IF label = "idle" THEN NoValue ELSE loaded
  BY <1>2, <1>3
<1>6. \A q \in Requests \ {r} : pc'[q] = pc[q] /\ held'[q] = held[q]
  BY <1>1, <1>2, <1>3
<1>7. service' = service /\ overlapped' = overlapped /\ row' = rw /\ world' = w
      /\ faults' = f
  BY DEF Moved
<1>8. label \in {"idle"} \cup LabelsOf(service) /\ loaded \in HeldOf(service)
  BY DEF MoveTyped
<1>9. pc' \in [Requests -> {"idle"} \cup LabelsOf(service)]
  BY <1>1, <1>3, <1>8
<1>10. held' \in [Requests -> HeldOf(service) \cup {NoValue}]
  BY <1>2, <1>3, <1>8
<1>11. \A q \in Requests : pc'[q] # "idle" => held'[q] \in HeldOf(service)
  BY <1>3, <1>4, <1>5, <1>6, <1>8
<1>12. rw \in RowsOf(service) /\ w \in WorldType /\ f \in Nat
  BY DEF MoveTyped
<1>13. service \in Services /\ overlapped \in BOOLEAN
  BY DEF Typed
<1>14. Typed'
  BY <1>7, <1>9, <1>10, <1>11, <1>12, <1>13 DEF Typed
<1> QED
  BY <1>4, <1>5, <1>6, <1>14

\* Of a session that never saw two requests at once, one request at most is
\* under way after the step too.
LEMMA MoveSolo ==
    ASSUME SessionInv, NEW r \in Requests, NEW label, NEW loaded, NEW rw, NEW w,
           NEW f,
           Moved(r, label, loaded, rw, w, f),
           MoveTyped(label, loaded, rw, w, f), MoveOK(r, label, loaded, rw, w, f)
    PROVE  Solo'
<1> SUFFICES ASSUME ~ overlapped' PROVE Solo'
  BY DEF Solo
<1>1. /\ pc'[r] = label
      /\ held'[r] = IF label = "idle" THEN NoValue ELSE loaded
      /\ \A q \in Requests \ {r} : pc'[q] = pc[q] /\ held'[q] = held[q]
  BY MoveTypes DEF SessionInv
<1>2. service' = service /\ row' = rw /\ world' = w /\ faults' = f
      /\ ~ overlapped /\ pc[r] # "idle"
  BY DEF Moved
<1>3. /\ \A p, q \in Requests : pc[p] # "idle" /\ pc[q] # "idle" => p = q
      /\ SoloOK(pc[r], held[r], row, world, faults)
  BY <1>2 DEF SessionInv, Solo
<1>4. SoloOK(label, loaded, rw, w, f)
  BY <1>3 DEF MoveOK
<1>5. \A q \in Requests : pc'[q] # "idle" => q = r
  BY <1>1, <1>2, <1>3
<1>6. \A l, h : SoloOK(l, h, rw, w, f) => SoloOK(l, h, row, world, faults)'
  BY <1>2 DEF SoloOK
<1>7. \A q \in Requests :
          pc'[q] # "idle" => SoloOK(pc[q], held[q], row, world, faults)'
  <2> SUFFICES ASSUME pc'[r] # "idle"
               PROVE  SoloOK(pc[r], held[r], row, world, faults)'
    BY <1>5
  <2>1. pc'[r] = label /\ held'[r] = loaded
    BY <1>1
  <2> QED
    BY <1>2, <1>4, <2>1 DEF SoloOK
<1>8. ASSUME ~ Busy' PROVE SoloOK("idle", NoValue, row, world, faults)'
  <2>1. label = "idle"
    BY <1>1, <1>8 DEF Busy
  <2>2. SoloOK("idle", NoValue, rw, w, f)
    BY <1>4, <2>1, IdleHolds
  <2> QED
    BY <1>2, <2>2 DEF SoloOK
<1> QED
  BY <1>5, <1>7, <1>8 DEF Solo

LEMMA ReportSums ==
    ASSUME NEW done \in Nat, NEW told \in Nat, NEW left \in Nat, NEW before \in Nat,
           NEW newDone \in Nat, NEW newTold \in Nat, NEW newLeft \in Nat,
           NEW after \in Nat,
           done = told + left, newLeft + before = left + after,
           newDone + told + before = done + newTold + after
    PROVE  newDone = newTold + newLeft
OBVIOUS

LEMMA MoveInv ==
    ASSUME SessionInv, NEW r \in Requests, NEW label, NEW loaded, NEW rw, NEW w,
           NEW f,
           Moved(r, label, loaded, rw, w, f),
           MoveTyped(label, loaded, rw, w, f), MoveOK(r, label, loaded, rw, w, f)
    PROVE  SessionInv'
<1>1. /\ Typed'
      /\ pc'[r] = label
      /\ held'[r] = IF label = "idle" THEN NoValue ELSE loaded
      /\ \A q \in Requests \ {r} : pc'[q] = pc[q] /\ held'[q] = held[q]
  BY MoveTypes DEF SessionInv
<1>2. service' = service /\ row' = rw /\ world' = w /\ faults' = f
      /\ overlapped' = overlapped /\ pc[r] # "idle"
  BY DEF Moved
<1>3. Evidenced(row, world, overlapped)'
  <2>1. Evidenced(rw, w, overlapped)
    BY DEF MoveOK
  <2> QED
    BY <1>2, <2>1 DEF Evidenced, Required
<1>4. RowOK(row, world, faults)'
  <2>1. RowOK(rw, w, f)
    BY DEF MoveOK
  <2> QED
    BY <1>2, <2>1 DEF RowOK
<1>5. \A q \in Requests : RequestOK(pc[q], held[q], row, world, faults)'
  <2> SUFFICES ASSUME NEW q \in Requests
               PROVE  RequestOK(pc[q], held[q], row, world, faults)'
    OBVIOUS
  <2>1. ASSUME NEW l, NEW h, RequestOK(l, h, rw, w, f), pc'[q] = l, held'[q] = h
        PROVE  RequestOK(pc[q], held[q], row, world, faults)'
    BY <1>2, <2>1 DEF RequestOK
  <2>2. CASE q # r
    <3>1. RequestOK(pc[q], held[q], row, world, faults)
      BY DEF SessionInv
    <3>2. /\ row \in RowsOf(service) /\ world \in WorldType /\ faults \in Nat
          /\ rw \in RowsOf(service) /\ w \in WorldType /\ f \in Nat /\ faults <= f
      BY DEF SessionInv, Typed, MoveTyped
    <3>3. RequestOK(pc[q], held[q], rw, w, f)
      BY <3>1, <3>2, RequestKept DEF MoveOK
    <3> QED
      BY <1>1, <2>1, <2>2, <3>3
  <2>3. CASE q = r /\ label = "idle"
    BY <1>1, <2>1, <2>3, IdleRelies
  <2>4. CASE q = r /\ label # "idle"
    BY <1>1, <2>1, <2>4 DEF MoveOK
  <2> QED
    BY <2>2, <2>3, <2>4
<1>6. Challenged'
  <2> SUFFICES ASSUME service = "BLIDE", rw.status = "LIVENESS_CHALLENGED", f = 0
               PROVE  \/ Len(rw.challenges) > 0
                      \/ \E q \in Requests : pc'[q] \in Challenging
    BY <1>2 DEF Challenged, Challenging
  <2>1. \/ Len(rw.challenges) > 0
        \/ label \in Challenging
        \/ row.status = "LIVENESS_CHALLENGED" /\ pc[r] \notin Challenging
    BY DEF MoveOK
  <2>2. CASE label \in Challenging
    BY <1>1, <2>2
  <2>3. CASE row.status = "LIVENESS_CHALLENGED" /\ pc[r] \notin Challenging
    <3>1. faults = 0
      BY DEF MoveTyped, SessionInv, Typed
    <3>2. \/ Len(row.challenges) > 0
          \/ \E q \in Requests : pc[q] \in Challenging
      BY <2>3, <3>1 DEF SessionInv, Challenged, Challenging
    <3>3. row \in BlideRows /\ rw \in BlideRows
      BY DEF SessionInv, Typed, MoveTyped, RowsOf
    <3>4. Len(row.challenges) \in Nat /\ Len(rw.challenges) \in Nat
      BY <3>3 DEF BlideRows
    <3>5. Len(row.challenges) <= Len(rw.challenges)
      BY DEF MoveOK, RowLater
    <3>6. ASSUME NEW q \in Requests, pc[q] \in Challenging
          PROVE  pc'[q] \in Challenging
      BY <1>1, <2>3, <3>6
    <3> QED
      BY <3>2, <3>4, <3>5, <3>6
  <2> QED
    BY <2>1, <2>2, <2>3
<1>7. SensorOK'
  <2>1. Busy
    BY <1>2 DEF Busy
  <2>2. service = "SENSOR" =>
            w.done = world.done /\ w.revoked = world.revoked
                                /\ w.excused = world.excused
    BY DEF MoveOK
  <2>3. SensorOK
    BY DEF SessionInv
  <2> QED
    BY <1>2, <2>1, <2>2, <2>3 DEF SensorOK
<1>8. Reported'
  <2>1. IsFiniteSet(Reporters)
    BY DEF SessionInv, Reported
  <2>2. /\ pc \in [Requests -> {"idle"} \cup LabelsOf(service)]
        /\ pc' = [pc EXCEPT ![r] = label]
    BY DEF SessionInv, Typed, Moved, Proceed
  <2>3. /\ IsFiniteSet(Reporters')
        /\ Cardinality(Reporters') \in Nat /\ Cardinality(Reporters) \in Nat
        /\ Cardinality(Reporters') + Rep(pc[r]) =
               Cardinality(Reporters) + Rep(label)
    BY <2>1, <2>2, ReportersStep
  <2>4. ASSUME f = 0, ~ w.excused
        PROVE  w.done = w.told + Cardinality(Reporters')
    <3>1. faults = 0 /\ ~ world.excused
      BY <2>4 DEF MoveTyped, SessionInv, Typed, MoveOK, WorldLater
    <3>2. world.done = world.told + Cardinality(Reporters)
      BY <3>1 DEF SessionInv, Reported
    <3>3. w.done + world.told + Rep(pc[r]) = world.done + w.told + Rep(label)
      BY <2>4 DEF MoveOK, Balanced
    <3>4. /\ w.done \in Nat /\ w.told \in Nat
          /\ world.done \in Nat /\ world.told \in Nat
      BY DEF SessionInv, Typed, MoveTyped, WorldType
    <3>5. Rep(label) \in Nat /\ Rep(pc[r]) \in Nat
      BY DEF Rep
    <3> DEFINE left == Cardinality(Reporters)
               newLeft == Cardinality(Reporters')
               before == Rep(pc[r])
               after == Rep(label)
    <3>6. /\ left \in Nat /\ newLeft \in Nat /\ before \in Nat /\ after \in Nat
          /\ newLeft + before = left + after
          /\ world.done = world.told + left
          /\ w.done + world.told + before = world.done + w.told + after
      BY <2>3, <3>2, <3>3, <3>5
    <3> HIDE DEF left, newLeft, before, after
    <3>7. w.done = w.told + newLeft
      BY <3>4, <3>6, ReportSums
    <3> QED
      BY <3>7 DEF newLeft
  <2> QED
    BY <1>2, <2>3, <2>4 DEF Reported
<1>9. Solo'
  BY MoveSolo
<1> QED
  BY <1>1, <1>3, <1>4, <1>5, <1>6, <1>7, <1>8, <1>9 DEF SessionInv

-----------------------------------------------------------------------------
(* Requests that begin, and what happens without one under way.            *)

LEMMA BeginInv ==
    ASSUME SessionInv, NEW r \in Requests, NEW label \in LabelsOf(service),
           NEW loaded \in HeldOf(service), Begin(r, label, loaded),
           label # "idle", label \notin Reporting,
           RequestOK(label, loaded, row, world, faults),
           SoloOK("idle", NoValue, row, world, faults) =>
               SoloOK(label, loaded, row, world, faults),
           service = "SENSOR" => row.status # "REVOKED"
    PROVE  SessionInv'
<1>1. /\ pc[r] = "idle" /\ pc' = [pc EXCEPT ![r] = label]
      /\ held' = [held EXCEPT ![r] = loaded]
      /\ overlapped' = (overlapped \/ Busy)
      /\ service' = service /\ row' = row /\ world' = world /\ faults' = faults
  BY DEF Begin
<1>2. /\ service \in Services /\ row \in RowsOf(service) /\ world \in WorldType
      /\ pc \in [Requests -> {"idle"} \cup LabelsOf(service)]
      /\ held \in [Requests -> HeldOf(service) \cup {NoValue}]
      /\ \A q \in Requests : pc[q] # "idle" => held[q] \in HeldOf(service)
      /\ overlapped \in BOOLEAN /\ faults \in Nat
  BY DEF SessionInv, Typed
<1>3. /\ pc'[r] = label /\ held'[r] = loaded
      /\ \A q \in Requests \ {r} : pc'[q] = pc[q] /\ held'[q] = held[q]
  BY <1>1, <1>2
<1>4. Typed'
  <2>1. pc' \in [Requests -> {"idle"} \cup LabelsOf(service)]
    BY <1>1, <1>2
  <2>2. held' \in [Requests -> HeldOf(service) \cup {NoValue}]
    BY <1>1, <1>2
  <2>3. \A q \in Requests : pc'[q] # "idle" => held'[q] \in HeldOf(service)
    BY <1>2, <1>3
  <2>4. overlapped' \in BOOLEAN
    BY <1>1
  <2> QED
    BY <1>1, <1>2, <2>1, <2>2, <2>3, <2>4 DEF Typed
<1>5. Evidenced(row, world, overlapped)'
  <2>1. Evidenced(row, world, overlapped)
    BY DEF SessionInv
  <2>2. overlapped => overlapped'
    BY <1>1
  <2> QED
    BY <1>1, <2>1, <2>2 DEF Evidenced, Required
<1>6. RowOK(row, world, faults)'
  <2>1. RowOK(row, world, faults)
    BY DEF SessionInv
  <2> QED
    BY <1>1, <2>1 DEF RowOK
<1>7. ASSUME NEW l, NEW h, NEW q \in Requests, pc'[q] = l, held'[q] = h,
             RequestOK(l, h, row, world, faults)
      PROVE  RequestOK(pc[q], held[q], row, world, faults)'
  BY <1>1, <1>7 DEF RequestOK
<1>8. \A q \in Requests : RequestOK(pc[q], held[q], row, world, faults)'
  <2>1. \A q \in Requests : RequestOK(pc[q], held[q], row, world, faults)
    BY DEF SessionInv
  <2> QED
    BY <1>3, <1>7, <2>1
<1>9. Solo'
  <2> SUFFICES ASSUME ~ overlapped' PROVE Solo'
    BY DEF Solo
  <2>1. ~ overlapped /\ ~ Busy
    BY <1>1
  <2>2. \A q \in Requests : pc'[q] # "idle" => q = r
    BY <1>3, <2>1 DEF Busy
  <2>3. SoloOK(label, loaded, row, world, faults)
    BY <2>1 DEF SessionInv, Solo
  <2>4. SoloOK(pc[r], held[r], row, world, faults)'
    BY <1>1, <1>3, <2>3 DEF SoloOK
  <2>5. Busy'
    BY <1>3 DEF Busy
  <2> QED
    BY <2>2, <2>4, <2>5 DEF Solo
<1>10. Challenged'
  <2>1. Challenged
    BY DEF SessionInv
  <2>2. ASSUME NEW q \in Requests, pc[q] \in Challenging
        PROVE  pc'[q] \in Challenging
    BY <1>1, <1>3, <2>2 DEF Challenging
  <2> QED
    BY <1>1, <2>1, <2>2 DEF Challenged, Challenging
<1>11. SensorOK'
  <2>1. SensorOK
    BY DEF SessionInv
  <2> QED
    BY <1>1, <2>1 DEF SensorOK
<1>12. Reported'
  <2>1. Reporters' = Reporters
    BY <1>1, <1>3 DEF Reporters, Reporting
  <2>2. Reported
    BY DEF SessionInv
  <2> QED
    BY <1>1, <2>1, <2>2 DEF Reported
<1> QED
  BY <1>4, <1>5, <1>6, <1>8, <1>9, <1>10, <1>11, <1>12 DEF SessionInv

\* The row and the world change, and no request under way moves.
Still(rw, w) ==
    /\ row' = rw /\ world' = w
    /\ UNCHANGED <<service, pc, held, faults>>

LEMMA StillInv ==
    ASSUME SessionInv, NEW rw \in RowsOf(service), NEW w \in WorldType,
           Still(rw, w),
           overlapped' \in BOOLEAN, overlapped => overlapped',
           RowLater(row, rw), WorldLater(world, w),
           Evidenced(rw, w, overlapped), RowOK(rw, w, faults),
           w.done = world.done, w.told = world.told,
           ~ overlapped' =>
               \A l, h : /\ l # "idle" => Busy
                         /\ SoloOK(l, h, row, world, faults)
                         => SoloOK(l, h, rw, w, faults),
           service = "BLIDE" => rw.status # "LIVENESS_CHALLENGED",
           SensorOK'
    PROVE  SessionInv'
<1>1. /\ service' = service /\ row' = rw /\ world' = w /\ faults' = faults
      /\ pc' = pc /\ held' = held
  BY DEF Still
<1>2. Typed'
  BY <1>1 DEF SessionInv, Typed
<1>3. Evidenced(row, world, overlapped)'
  BY <1>1 DEF Evidenced, Required
<1>4. RowOK(row, world, faults)'
  BY <1>1 DEF RowOK
<1>5. \A q \in Requests : RequestOK(pc[q], held[q], row, world, faults)'
  <2> SUFFICES ASSUME NEW q \in Requests
               PROVE  RequestOK(pc[q], held[q], row, world, faults)'
    OBVIOUS
  <2>1. RequestOK(pc[q], held[q], row, world, faults)
    BY DEF SessionInv
  <2>2. row \in RowsOf(service) /\ world \in WorldType /\ faults \in Nat
        /\ faults <= faults
    BY DEF SessionInv, Typed
  <2>3. RequestOK(pc[q], held[q], rw, w, faults)
    BY <2>1, <2>2, RequestKept
  <2> QED
    BY <1>1, <2>3 DEF RequestOK
<1>6. Solo'
  <2> SUFFICES ASSUME ~ overlapped' PROVE Solo'
    BY DEF Solo
  <2>1. /\ \A p, q \in Requests : pc[p] # "idle" /\ pc[q] # "idle" => p = q
        /\ \A q \in Requests :
               pc[q] # "idle" => SoloOK(pc[q], held[q], row, world, faults)
        /\ ~ Busy => SoloOK("idle", NoValue, row, world, faults)
    BY DEF SessionInv, Solo
  <2>2. Busy' = Busy
    BY <1>1 DEF Busy
  <2>3. \A q \in Requests : pc[q] # "idle" => Busy
    BY DEF Busy
  <2>4. \A q \in Requests :
            pc[q] # "idle" => SoloOK(pc[q], held[q], rw, w, faults)
    BY <2>1, <2>3
  <2>5. ~ Busy => SoloOK("idle", NoValue, rw, w, faults)
    BY <2>1
  <2>6. \A l, h : SoloOK(l, h, rw, w, faults) => SoloOK(l, h, row, world, faults)'
    BY <1>1 DEF SoloOK
  <2>7. \A q \in Requests :
            pc'[q] # "idle" => SoloOK(pc[q], held[q], row, world, faults)'
    BY <1>1, <2>4 DEF SoloOK
  <2> QED
    BY <1>1, <2>1, <2>2, <2>5, <2>6, <2>7 DEF Solo
<1>7. Challenged'
  BY <1>1 DEF Challenged
<1>8. Reported'
  <2>1. Reporters' = Reporters
    BY <1>1 DEF Reporters
  <2>2. w.excused \/ ~ world.excused
    BY DEF WorldLater
  <2>3. Reported
    BY DEF SessionInv
  <2> QED
    BY <1>1, <2>1, <2>2, <2>3 DEF Reported
<1> QED
  BY <1>2, <1>3, <1>4, <1>5, <1>6, <1>7, <1>8 DEF SessionInv

-----------------------------------------------------------------------------
(* The frame's steps, and what happens to the world.                       *)

LEMMA StepMoved ==
    ASSUME NEW r \in Requests, pc[r] # "idle", NEW label, NEW loaded, NEW rw, NEW w,
           Step(r, label, loaded, rw, w)
    PROVE  Moved(r, label, loaded, rw, w, faults)
BY DEF Step, Moved

LEMMA FaultMoved ==
    ASSUME NEW r \in Requests, pc[r] # "idle", NEW label, NEW w, Fault(r, label, w)
    PROVE  Moved(r, label, held[r], row, w, faults + 1)
BY DEF Fault, Moved

LEMMA WorldStays ==
    ASSUME world \in WorldType PROVE WorldLater(world, world)
BY DEF WorldLater, WorldType

LEMMA ShowFacts ==
    ASSUME world \in WorldType, NEW p \in Anyone, NEW e \in Evidence
    PROVE  /\ Show(p, e) \in WorldType /\ WorldLater(world, Show(p, e))
           /\ Show(p, e).done = world.done /\ Show(p, e).told = world.told
           /\ Show(p, e).served = world.served /\ Show(p, e).repeats = world.repeats
           /\ Show(p, e).revoked = world.revoked /\ Show(p, e).excused = world.excused
           /\ Has(Show(p, e), p, e)
           /\ Show(p, e).shown # {}
<1>1. /\ Show(p, e).done = world.done /\ Show(p, e).told = world.told
      /\ Show(p, e).served = world.served
      /\ Show(p, e).shown = world.shown \cup {<<p, e>>}
      /\ Show(p, e).refused = world.refused
      /\ Show(p, e).revoked = world.revoked
      /\ Show(p, e).excused = world.excused
      /\ Show(p, e).repeats = world.repeats
  BY DEF Show, WorldType
<1>2. Show(p, e) \in WorldType
  BY DEF Show, WorldType
<1>3. WorldLater(world, Show(p, e))
  BY <1>1 DEF WorldLater, WorldType
<1> QED
  BY <1>1, <1>2, <1>3 DEF Has

LEMMA ServeFacts ==
    ASSUME world \in WorldType, NEW p \in Anyone
    PROVE  /\ Serve(p) \in WorldType /\ WorldLater(world, Serve(p))
           /\ Serve(p).done = world.done + 1 /\ Serve(p).told = world.told
           /\ Serve(p).served = world.served \cup {p}
           /\ Serve(p).shown = world.shown
           /\ Serve(p).repeats = world.repeats
           /\ Serve(p).revoked = world.revoked /\ Serve(p).excused = world.excused
<1>1. /\ Serve(p).done = world.done + 1 /\ Serve(p).told = world.told
      /\ Serve(p).served = world.served \cup {p}
      /\ Serve(p).shown = world.shown
      /\ Serve(p).refused = world.refused
      /\ Serve(p).revoked = world.revoked
      /\ Serve(p).excused = world.excused
      /\ Serve(p).repeats = world.repeats
  BY DEF Serve, WorldType
<1>2. Serve(p) \in WorldType
  <2>1. world.done + 1 \in Nat /\ world.served \cup {p} \in SUBSET Anyone
    BY DEF WorldType
  <2> QED
    BY <2>1, Zenon DEF Serve, WorldType
<1>3. WorldLater(world, Serve(p))
  BY <1>1 DEF WorldLater, WorldType
<1> QED
  BY <1>1, <1>2, <1>3

LEMMA TellFacts ==
    ASSUME world \in WorldType
    PROVE  /\ Tell \in WorldType /\ WorldLater(world, Tell)
           /\ Tell.done = world.done /\ Tell.told = world.told + 1
           /\ Tell.served = world.served /\ Tell.shown = world.shown
           /\ Tell.repeats = world.repeats
           /\ Tell.revoked = world.revoked /\ Tell.excused = world.excused
<1>1. /\ Tell.done = world.done /\ Tell.told = world.told + 1
      /\ Tell.served = world.served /\ Tell.shown = world.shown
      /\ Tell.refused = world.refused /\ Tell.revoked = world.revoked
      /\ Tell.excused = world.excused /\ Tell.repeats = world.repeats
  BY DEF Tell, WorldType
<1>2. Tell \in WorldType
  BY DEF Tell, WorldType
<1>3. WorldLater(world, Tell)
  BY <1>1 DEF WorldLater, WorldType
<1> QED
  BY <1>1, <1>2, <1>3

LEMMA ExcuseFacts ==
    ASSUME world \in WorldType
    PROVE  /\ Excuse \in WorldType /\ WorldLater(world, Excuse)
           /\ Excuse.done = world.done /\ Excuse.told = world.told
           /\ Excuse.served = world.served /\ Excuse.shown = world.shown
           /\ Excuse.repeats = world.repeats /\ Excuse.excused
<1>1. /\ Excuse.done = world.done /\ Excuse.told = world.told
      /\ Excuse.served = world.served /\ Excuse.shown = world.shown
      /\ Excuse.refused = world.refused /\ Excuse.revoked = world.revoked
      /\ Excuse.excused = TRUE /\ Excuse.repeats = world.repeats
  BY DEF Excuse, WorldType
<1>2. Excuse \in WorldType
  BY DEF Excuse, WorldType
<1>3. WorldLater(world, Excuse)
  BY <1>1 DEF WorldLater, WorldType
<1> QED
  BY <1>1, <1>2, <1>3

Refusal == [world EXCEPT !.refused = TRUE]

LEMMA RefusalFacts ==
    ASSUME world \in WorldType
    PROVE  /\ Refusal \in WorldType /\ WorldLater(world, Refusal)
           /\ Refusal.done = world.done /\ Refusal.told = world.told
           /\ Refusal.served = world.served /\ Refusal.shown = world.shown
           /\ Refusal.repeats = world.repeats /\ Refusal.refused
           /\ Refusal.revoked = world.revoked /\ Refusal.excused = world.excused
<1>1. /\ Refusal.done = world.done /\ Refusal.told = world.told
      /\ Refusal.served = world.served /\ Refusal.shown = world.shown
      /\ Refusal.refused = TRUE /\ Refusal.revoked = world.revoked
      /\ Refusal.excused = world.excused
      /\ Refusal.repeats = world.repeats
  BY DEF Refusal, WorldType
<1>2. Refusal \in WorldType
  BY DEF Refusal, WorldType
<1>3. WorldLater(world, Refusal)
  BY <1>1 DEF WorldLater, WorldType
<1> QED
  BY <1>1, <1>2, <1>3

Repetition == [world EXCEPT !.repeats = @ + 1]

LEMMA RepetitionFacts ==
    ASSUME world \in WorldType
    PROVE  /\ Repetition \in WorldType /\ WorldLater(world, Repetition)
           /\ Repetition.done = world.done /\ Repetition.told = world.told
           /\ Repetition.served = world.served /\ Repetition.shown = world.shown
           /\ Repetition.repeats = world.repeats + 1
           /\ Repetition.revoked = world.revoked
           /\ Repetition.excused = world.excused
<1>1. /\ Repetition.done = world.done /\ Repetition.told = world.told
      /\ Repetition.served = world.served
      /\ Repetition.shown = world.shown
      /\ Repetition.refused = world.refused
      /\ Repetition.revoked = world.revoked
      /\ Repetition.excused = world.excused
      /\ Repetition.repeats = world.repeats + 1
  BY DEF Repetition, WorldType
<1>2. Repetition \in WorldType
  BY DEF Repetition, WorldType
<1>3. WorldLater(world, Repetition)
  BY <1>1 DEF WorldLater, WorldType
<1> QED
  BY <1>1, <1>2, <1>3

\* The evidence stands as long as nobody else is served.
LEMMA EvidenceKept ==
    ASSUME Evidenced(row, world, overlapped), NEW rw, NEW w, WorldLater(world, w),
           w.served = world.served, w.done = world.done,
           service = "BLIDE" => rw.kind = row.kind
    PROVE  Evidenced(rw, w, overlapped)
<1>1. \A p, e : Has(world, p, e) => Has(w, p, e)
  BY HasKept
<1>2. world.shown # {} => w.shown # {}
  BY DEF WorldLater
<1> QED
  BY <1>1, <1>2 DEF Evidenced

\* Somebody may be served on evidence.
LEMMA EvidenceServed ==
    ASSUME Evidenced(row, world, overlapped), world \in WorldType, NEW p \in Anyone,
           \A e \in Required : \/ Has(world, p, e)
                               \/ service = "BLIDE" /\ row.kind = "OPERATION" /\ overlapped,
           service = "ZFOE" => world.shown # {}
    PROVE  Evidenced(row, Serve(p), overlapped)
<1>1. Serve(p).served = world.served \cup {p} /\ Serve(p).shown = world.shown
  BY ServeFacts
<1>2. \A q, e : Has(Serve(p), q, e) <=> Has(world, q, e)
  BY <1>1 DEF Has
<1> QED
  BY <1>1, <1>2 DEF Evidenced

-----------------------------------------------------------------------------
(* The three forms of most steps: a row is saved, something is done        *)
(* outside, a request dies.                                                *)

\* What is known of a request that is under way.
LEMMA UnderWayFacts ==
    ASSUME SessionInv, NEW r \in Requests, pc[r] # "idle"
    PROVE  /\ pc[r] \in LabelsOf(service) /\ held[r] \in HeldOf(service)
           /\ row \in RowsOf(service) /\ world \in WorldType /\ faults \in Nat
           /\ Evidenced(row, world, overlapped)
           /\ RowOK(row, world, faults)
           /\ RequestOK(pc[r], held[r], row, world, faults)
BY DEF SessionInv, Typed

LEMMA SaveInv ==
    ASSUME SessionInv, NEW r \in Requests, pc[r] # "idle",
           NEW label \in {"idle"} \cup LabelsOf(service),
           NEW rw \in RowsOf(service), Save(r, rw, label),
           RowLater(row, rw), service = "BLIDE" => rw.kind = row.kind,
           RowOK(rw, world, faults),
           label # "idle" => RequestOK(label, held[r], rw, world, faults),
           SoloOK(pc[r], held[r], row, world, faults) =>
               SoloOK(label, held[r], rw, world, faults),
           label \in Reporting <=> pc[r] \in Reporting,
           service = "BLIDE" /\ rw.status = "LIVENESS_CHALLENGED" =>
               \/ Len(rw.challenges) > 0
               \/ label \in Challenging
               \/ row.status = "LIVENESS_CHALLENGED" /\ pc[r] \notin Challenging
    PROVE  SessionInv'
<1>1. Moved(r, label, held[r], rw, world, faults)
  BY StepMoved DEF Save
<1>2. /\ held[r] \in HeldOf(service)
      /\ world \in WorldType /\ faults \in Nat
      /\ Evidenced(row, world, overlapped)
  BY UnderWayFacts
<1>3. MoveTyped(label, held[r], rw, world, faults)
  BY <1>2 DEF MoveTyped
<1>4. Evidenced(rw, world, overlapped)
  BY <1>2, WorldStays, EvidenceKept
<1>5. RequestOK(label, held[r], rw, world, faults)
  BY IdleRelies
<1>6. Balanced(r, label, world, faults)
  BY DEF Balanced, Rep
<1>7. MoveOK(r, label, held[r], rw, world, faults)
  BY <1>2, <1>4, <1>5, <1>6, WorldStays DEF MoveOK
<1> QED
  BY <1>1, <1>3, <1>7, MoveInv

LEMMA RowStays ==
    ASSUME row \in RowsOf(service) PROVE RowLater(row, row)
BY DEF RowLater, RowsOf, BlideRows

\* Done outside; `loaded` is what the request goes on with.
LEMMA ActInv ==
    ASSUME SessionInv, NEW r \in Requests, pc[r] # "idle",
           NEW label \in {"idle"} \cup LabelsOf(service),
           NEW loaded \in HeldOf(service), NEW w \in WorldType,
           Step(r, label, loaded, row, w),
           WorldLater(world, w), Evidenced(row, w, overlapped),
           RowOK(row, w, faults),
           label # "idle" => RequestOK(label, loaded, row, w, faults),
           SoloOK(pc[r], held[r], row, world, faults) =>
               SoloOK(label, loaded, row, w, faults),
           Balanced(r, label, w, faults),
           pc[r] \in Challenging => label \in Challenging,
           service = "SENSOR" =>
               w.done = world.done /\ w.revoked = world.revoked
                                   /\ w.excused = world.excused
    PROVE  SessionInv'
<1>1. Moved(r, label, loaded, row, w, faults)
  BY StepMoved
<1>2. row \in RowsOf(service) /\ faults \in Nat
  BY UnderWayFacts
<1>3. MoveTyped(label, loaded, row, w, faults)
  BY <1>2 DEF MoveTyped
<1>4. RequestOK(label, loaded, row, w, faults)
  BY IdleRelies
<1>5. MoveOK(r, label, loaded, row, w, faults)
  BY <1>2, <1>4, RowStays DEF MoveOK
<1> QED
  BY <1>1, <1>3, <1>5, MoveInv

\* A step that goes wrong leaves the row as it is; nothing counts any more
\* that only holds without faults.
LEMMA FaultInv ==
    ASSUME SessionInv, NEW r \in Requests, pc[r] # "idle",
           NEW label \in {"idle"} \cup LabelsOf(service), NEW w \in WorldType,
           Fault(r, label, w),
           WorldLater(world, w), Evidenced(row, w, overlapped),
           RowOK(row, w, faults + 1),
           label # "idle" => RequestOK(label, held[r], row, w, faults + 1),
           SoloOK(pc[r], held[r], row, world, faults) =>
               SoloOK(label, held[r], row, w, faults + 1),
           service = "SENSOR" =>
               w.done = world.done /\ w.revoked = world.revoked
                                   /\ w.excused = world.excused
    PROVE  SessionInv'
<1>1. Moved(r, label, held[r], row, w, faults + 1)
  BY FaultMoved
<1>2. row \in RowsOf(service) /\ faults \in Nat /\ held[r] \in HeldOf(service)
  BY UnderWayFacts
<1>3. MoveTyped(label, held[r], row, w, faults + 1)
  BY <1>2 DEF MoveTyped
<1>4. RequestOK(label, held[r], row, w, faults + 1)
  BY IdleRelies
<1>5. faults + 1 # 0
  BY <1>2
<1>6. Balanced(r, label, w, faults + 1)
  BY <1>5 DEF Balanced
<1>7. MoveOK(r, label, held[r], row, w, faults + 1)
  BY <1>2, <1>4, <1>5, <1>6, RowStays DEF MoveOK
<1> QED
  BY <1>1, <1>3, <1>7, MoveInv

LEMMA DieInv ==
    ASSUME SessionInv, NEW r \in Requests, Die(r)
    PROVE  SessionInv'
<1>1. pc[r] # "idle" /\ Fault(r, "idle", world)
  BY DEF Die
<1>2. /\ pc[r] \in LabelsOf(service) /\ held[r] \in HeldOf(service)
      /\ row \in RowsOf(service) /\ world \in WorldType /\ faults \in Nat
      /\ Evidenced(row, world, overlapped)
      /\ RowOK(row, world, faults)
  BY <1>1, UnderWayFacts
<1>3. faults + 1 # 0 /\ faults + 1 > 0
  BY <1>2
<1>4. RowOK(row, world, faults + 1)
  BY <1>2, <1>3 DEF RowOK, ZfpsRowOK
<1>5. ASSUME SoloOK(pc[r], held[r], row, world, faults)
      PROVE  SoloOK("idle", held[r], row, world, faults + 1)
  <2>1. CASE service = "BIH"
    <3>1. row.kind \in {"ACCOUNT_SETUP", "OPERATION"}
      BY <1>2, <2>1 DEF RowsOf, BihRows, Kinds
    <3> QED
      BY <1>3, <1>5, <2>1, <3>1 DEF SoloOK, BihSoloOK
  <2>2. CASE service = "BLS"
    BY <1>3, <1>5, <2>2 DEF SoloOK, BlsSoloOK
  <2>3. CASE service = "BLIDE"
    BY <1>3, <1>5, <2>3 DEF SoloOK, BlideSoloOK, BlideTargetOK, Targeted
  <2>4. CASE service = "ZFOE"
    BY <1>5, <2>4 DEF SoloOK, ZfoeSoloOK
  <2>5. CASE service = "LBAS"
    BY <1>5, <2>5 DEF SoloOK, LbasSoloOK
  <2> QED
    BY <1>5, <2>1, <2>2, <2>3, <2>4, <2>5 DEF SoloOK, ZfpsSoloOK
<1> QED
  BY <1>1, <1>2, <1>4, <1>5, WorldStays, FaultInv

-----------------------------------------------------------------------------
(* BIH                                                                     *)

LEMMA BihRowFacts ==
    ASSUME row \in BihRows
    PROVE  /\ \A s \in BihStatuses :
                  /\ BihSet(s) \in BihRows /\ BihSet(s).status = s
                  /\ BihSet(s).kind = row.kind /\ BihSet(s).match = row.match
           /\ \A s \in BihStatuses, v \in {"NONE", "PENDING", "SUCCESS", "FAILED"} :
                  /\ BihClosed(s, v) \in BihRows /\ BihClosed(s, v).status = s
                  /\ BihClosed(s, v).kind = row.kind
                  /\ BihClosed(s, v).match = row.match
<1>1. ASSUME NEW s \in BihStatuses
      PROVE  /\ BihSet(s) \in BihRows /\ BihSet(s).status = s
             /\ BihSet(s).kind = row.kind /\ BihSet(s).match = row.match
  BY <1>1 DEF BihSet, BihRows
<1>2. ASSUME NEW s \in BihStatuses,
             NEW v \in {"NONE", "PENDING", "SUCCESS", "FAILED"}
      PROVE  /\ BihClosed(s, v).status = s /\ BihClosed(s, v).kind = row.kind
             /\ BihClosed(s, v).match = row.match
  BY DEF BihClosed, BihRows
<1>3. ASSUME NEW s \in BihStatuses,
             NEW v \in {"NONE", "PENDING", "SUCCESS", "FAILED"}
      PROVE  BihClosed(s, v) \in BihRows
  BY <1>3, Zenon DEF BihClosed, BihRows
<1> QED
  BY <1>1, <1>2, <1>3

\* What a BIH request under way knows.
LEMMA BihFacts ==
    ASSUME SessionInv, service = "BIH", NEW r \in Requests, pc[r] # "idle"
    PROVE  /\ row \in BihRows /\ world \in WorldType /\ faults \in Nat
           /\ held[r] \in HeldOf("BIH")
           /\ held[r].row \in BihRows \cup {NoValue} /\ held[r].person \in Anyone
           /\ BihRowOK(row, world) /\ BihRequestOK(pc[r], held[r], world)
           /\ Evidenced(row, world, overlapped)
<1>1. /\ held[r] \in HeldOf(service)
      /\ row \in RowsOf(service) /\ world \in WorldType /\ faults \in Nat
      /\ Evidenced(row, world, overlapped)
      /\ RowOK(row, world, faults)
      /\ RequestOK(pc[r], held[r], row, world, faults)
  BY UnderWayFacts
<1>2. RowsOf(service) = BihRows
  BY DEF RowsOf
<1>3. held[r].row \in BihRows \cup {NoValue} /\ held[r].person \in Anyone
  BY <1>1, <1>2 DEF HeldOf
<1> QED
  BY <1>1, <1>2, <1>3 DEF RowOK, RequestOK

LEMMA BihSaveInv ==
    ASSUME SessionInv, service = "BIH", NEW r \in Requests, pc[r] # "idle",
           NEW label \in {"idle"} \cup BihLabels, NEW rw \in BihRows,
           Save(r, rw, label),
           BihRowOK(rw, world), BihRequestOK(label, held[r], world),
           BihSoloOK(pc[r], row, world, faults) =>
               BihSoloOK(label, rw, world, faults),
           label \in Reporting <=> pc[r] \in Reporting
    PROVE  SessionInv'
<1>1. LabelsOf(service) = BihLabels /\ RowsOf(service) = BihRows
  BY DEF LabelsOf, RowsOf
<1>2. RowLater(row, rw)
  BY DEF RowLater
<1>3. RowOK(rw, world, faults) /\ RequestOK(label, held[r], rw, world, faults)
  BY DEF RowOK, RequestOK
<1>4. SoloOK(pc[r], held[r], row, world, faults) =>
          SoloOK(label, held[r], rw, world, faults)
  BY DEF SoloOK
<1> QED
  BY <1>1, <1>2, <1>3, <1>4, SaveInv

LEMMA BihActInv ==
    ASSUME SessionInv, service = "BIH", NEW r \in Requests, pc[r] # "idle",
           NEW label \in {"idle"} \cup BihLabels,
           NEW loaded \in HeldOf("BIH"), NEW w \in WorldType,
           Step(r, label, loaded, row, w),
           WorldLater(world, w), Evidenced(row, w, overlapped),
           w.repeats = world.repeats,
           BihRowOK(row, w), BihRequestOK(label, loaded, w),
           BihSoloOK(pc[r], row, world, faults) => BihSoloOK(label, row, w, faults),
           Balanced(r, label, w, faults)
    PROVE  SessionInv'
<1>1. LabelsOf(service) = BihLabels
  BY DEF LabelsOf
<1>2. RowOK(row, w, faults) /\ RequestOK(label, loaded, row, w, faults)
  BY DEF RowOK, RequestOK
<1>3. SoloOK(pc[r], held[r], row, world, faults) =>
          SoloOK(label, loaded, row, w, faults)
  BY DEF SoloOK
<1>4. pc[r] \in LabelsOf(service)
  BY UnderWayFacts
<1>5. pc[r] \notin Challenging
  BY <1>1, <1>4 DEF Challenging, BihLabels
<1> QED
  BY <1>1, <1>2, <1>3, <1>5, ActInv

LEMMA BihFaultInv ==
    ASSUME SessionInv, service = "BIH", NEW r \in Requests, pc[r] # "idle",
           NEW label \in {"idle"} \cup BihLabels, NEW w \in WorldType,
           Fault(r, label, w),
           WorldLater(world, w), Evidenced(row, w, overlapped),
           w.repeats = world.repeats,
           BihRowOK(row, w), BihRequestOK(label, held[r], w),
           BihSoloOK(pc[r], row, world, faults) =>
               BihSoloOK(label, row, w, faults + 1)
    PROVE  SessionInv'
<1>1. LabelsOf(service) = BihLabels
  BY DEF LabelsOf
<1>2. /\ RowOK(row, w, faults + 1)
      /\ RequestOK(label, held[r], row, w, faults + 1)
  BY DEF RowOK, RequestOK
<1>3. SoloOK(pc[r], held[r], row, world, faults) =>
          SoloOK(label, held[r], row, w, faults + 1)
  BY DEF SoloOK
<1> QED
  BY <1>1, <1>2, <1>3, FaultInv

\* The scan: until an identity is unlocked nothing was done.
LEMMA BihScanInv ==
    ASSUME SessionInv, service = "BIH", NEW r \in Requests,
           BihSearch(r) \/ BihUnlock(r) \/ BihNoMatch(r)
    PROVE  SessionInv'
<1> USE DEF BihLabels, Reporting
<1>1. CASE BihSearch(r)
  <2>1. pc[r] = "bih_search"
    BY <1>1 DEF BihSearch
  <2>2. /\ row \in BihRows /\ world \in WorldType /\ held[r] \in HeldOf("BIH")
        /\ BihRowOK(row, world) /\ Evidenced(row, world, overlapped)
    BY <2>1, BihFacts
  <2>3. CASE Pass(r, "bih_no_match")
    <3>1. Save(r, row, "bih_no_match")
      BY <2>3 DEF Pass
    <3>2. BihRequestOK("bih_no_match", held[r], world)
      BY DEF BihRequestOK
    <3>3. BihSoloOK(pc[r], row, world, faults) =>
              BihSoloOK("bih_no_match", row, world, faults)
      BY <2>1 DEF BihSoloOK
    <3> QED
      BY <2>1, <2>2, <3>1, <3>2, <3>3, BihSaveInv
  <2>4. ASSUME NEW p \in People,
               Step(r, "bih_unlock", [held[r] EXCEPT !.person = p], row,
                    Show(p, "finger"))
        PROVE  SessionInv'
    <3> DEFINE h == [held[r] EXCEPT !.person = p]
               w == Show(p, "finger")
    <3>1. h \in HeldOf("BIH") /\ h.person = p
      BY <2>2 DEF HeldOf, Anyone
    <3>2. /\ w \in WorldType /\ WorldLater(world, w)
          /\ w.done = world.done /\ w.told = world.told
          /\ w.served = world.served /\ w.repeats = world.repeats
          /\ w.excused = world.excused /\ Has(w, p, "finger")
      BY <2>2, ShowFacts DEF Anyone, Evidence
    <3> HIDE DEF h, w
    <3>3. Evidenced(row, w, overlapped)
      BY <2>2, <3>2, EvidenceKept
    <3>4. BihRowOK(row, w)
      BY <2>2, <3>2, HasKept DEF BihRowOK
    <3>5. BihRequestOK("bih_unlock", h, w)
      BY <3>1, <3>2 DEF BihRequestOK
    <3>6. BihSoloOK(pc[r], row, world, faults) =>
              BihSoloOK("bih_unlock", row, w, faults)
      BY <2>1, <3>2 DEF BihSoloOK
    <3>7. Balanced(r, "bih_unlock", w, faults)
      BY <2>1, <3>2 DEF Balanced, Rep
    <3>8. Step(r, "bih_unlock", h, row, w)
      BY <2>4 DEF h, w
    <3> QED
      BY <2>1, <3>1, <3>2, <3>3, <3>4, <3>5, <3>6, <3>7, <3>8, BihActInv
  <2> QED
    BY <1>1, <2>3, <2>4 DEF BihSearch, SearchByFingerprint
<1>2. CASE BihUnlock(r)
  <2> DEFINE rw == [row EXCEPT !.status = "IDENTITY_UNLOCKED", !.match = held[r].person]
  <2>1. pc[r] = "bih_unlock" /\ Save(r, rw, "idle")
    BY <1>2 DEF BihUnlock
  <2>2. /\ row \in BihRows /\ world \in WorldType /\ held[r].person \in Anyone
        /\ BihRequestOK(pc[r], held[r], world)
    BY <2>1, BihFacts
  <2>3. rw \in BihRows
    BY <2>2, Zenon DEF BihRows, BihStatuses
  <2>4. rw.status = "IDENTITY_UNLOCKED" /\ rw.match = held[r].person
        /\ rw.kind = row.kind
    BY <2>2 DEF BihRows
  <2> HIDE DEF rw
  <2>5. BihRowOK(rw, world)
    BY <2>1, <2>2, <2>4 DEF BihRowOK, BihRequestOK
  <2>6. BihRequestOK("idle", held[r], world)
    BY DEF BihRequestOK
  <2>7. BihSoloOK(pc[r], row, world, faults) => BihSoloOK("idle", rw, world, faults)
    BY <2>1, <2>4 DEF BihSoloOK
  <2> QED
    BY <2>1, <2>3, <2>5, <2>6, <2>7, BihSaveInv
<1>3. CASE BihNoMatch(r)
  <2>1. pc[r] = "bih_no_match" /\ Save(r, BihSet("NO_MATCH"), "idle")
    BY <1>3 DEF BihNoMatch
  <2>2. row \in BihRows
    BY <2>1, BihFacts
  <2>3. /\ BihSet("NO_MATCH") \in BihRows /\ BihSet("NO_MATCH").status = "NO_MATCH"
        /\ BihSet("NO_MATCH").kind = row.kind
    BY <2>2, BihRowFacts DEF BihStatuses
  <2>4. BihRowOK(BihSet("NO_MATCH"), world) /\ BihRequestOK("idle", held[r], world)
    BY <2>3 DEF BihRowOK, BihRequestOK
  <2>5. BihSoloOK(pc[r], row, world, faults) =>
            BihSoloOK("idle", BihSet("NO_MATCH"), world, faults)
    BY <2>1, <2>3 DEF BihSoloOK
  <2> QED
    BY <2>1, <2>3, <2>4, <2>5, BihSaveInv
<1> QED
  BY <1>1, <1>2, <1>3

\* Opening an account: the session is claimed before the bank is asked.
LEMMA BihProvisionInv ==
    ASSUME SessionInv, service = "BIH", NEW r \in Requests,
           BihBankSelected(r) \/ BihProvisioning(r) \/ BihPush(r)
    PROVE  SessionInv'
<1> USE DEF BihLabels, Reporting
<1>1. CASE BihBankSelected(r)
  <2> DEFINE rw == BihSet("BANK_SELECTED")
  <2>1. pc[r] = "bih_select" /\ Save(r, rw, "bih_provision")
    BY <1>1 DEF BihBankSelected
  <2>2. row \in BihRows /\ BihRequestOK(pc[r], held[r], world)
    BY <2>1, BihFacts
  <2>3. rw \in BihRows /\ rw.status = "BANK_SELECTED" /\ rw.kind = row.kind
    BY <2>2, BihRowFacts DEF BihStatuses
  <2> HIDE DEF rw
  <2>4. BihRowOK(rw, world)
    BY <2>3 DEF BihRowOK
  <2>5. BihRequestOK("bih_provision", held[r], world)
    BY <2>1, <2>2 DEF BihRequestOK
  <2>6. BihSoloOK(pc[r], row, world, faults) =>
            BihSoloOK("bih_provision", rw, world, faults)
    BY <2>1, <2>3 DEF BihSoloOK
  <2> QED
    BY <2>1, <2>3, <2>4, <2>5, <2>6, BihSaveInv
<1>2. CASE BihProvisioning(r)
  <2> DEFINE rw == BihClosed("PROVISIONING", "PENDING")
  <2>1. pc[r] = "bih_provision" /\ Save(r, rw, "bih_push")
    BY <1>2 DEF BihProvisioning
  <2>2. row \in BihRows /\ BihRequestOK(pc[r], held[r], world)
    BY <2>1, BihFacts
  <2>3. rw \in BihRows /\ rw.status = "PROVISIONING" /\ rw.kind = row.kind
    BY <2>2, BihRowFacts DEF BihStatuses
  <2> HIDE DEF rw
  <2>4. BihRowOK(rw, world)
    BY <2>3 DEF BihRowOK
  <2>5. BihRequestOK("bih_push", held[r], world)
    BY <2>1, <2>2 DEF BihRequestOK
  <2>6. BihSoloOK(pc[r], row, world, faults) =>
            BihSoloOK("bih_push", rw, world, faults)
    BY <2>1, <2>3 DEF BihSoloOK
  <2> QED
    BY <2>1, <2>3, <2>4, <2>5, <2>6, BihSaveInv
<1>3. CASE BihPush(r)
  <2> DEFINE p == held[r].row.match
             w == Serve(p)
  <2>1. pc[r] = "bih_push"
    BY <1>3 DEF BihPush
  <2>2. /\ row \in BihRows /\ world \in WorldType /\ faults \in Nat
        /\ held[r] \in HeldOf("BIH")
        /\ BihRowOK(row, world) /\ BihRequestOK(pc[r], held[r], world)
        /\ Evidenced(row, world, overlapped)
    BY <2>1, BihFacts
  <2>3. p \in Anyone /\ Has(world, p, "finger")
    BY <2>1, <2>2 DEF BihRequestOK, BihRows
  <2>4. /\ w \in WorldType /\ WorldLater(world, w)
        /\ w.done = world.done + 1 /\ w.told = world.told
        /\ w.repeats = world.repeats /\ w.excused = world.excused
    BY <2>2, <2>3, ServeFacts
  <2>5. Evidenced(row, w, overlapped)
    <3>1. Required = {"finger"}
      BY DEF Required
    <3> QED
      BY <2>2, <2>3, <3>1, EvidenceServed
  <2>6. world.done \in Nat /\ world.told \in Nat
    BY <2>2 DEF WorldType
  <2>7. ASSUME Act(r, w, "bih_complete")
        PROVE  SessionInv'
    <3> HIDE DEF w
    <3>1. BihRowOK(row, w)
      BY <2>2, <2>4, <2>6, HasKept DEF BihRowOK
    <3>2. BihRequestOK("bih_complete", held[r], w)
      BY <2>4, <2>6 DEF BihRequestOK
    <3>3. BihSoloOK(pc[r], row, world, faults) =>
              BihSoloOK("bih_complete", row, w, faults)
      BY <2>1, <2>4 DEF BihSoloOK
    <3>4. Balanced(r, "bih_complete", w, faults)
      BY <2>1, <2>4, <2>6 DEF Balanced, Rep
    <3> QED
      BY <2>1, <2>2, <2>4, <2>5, <2>7, <3>1, <3>2, <3>3, <3>4, BihActInv DEF Act
  <2>8. ASSUME Act(r, Refusal, "bih_fail")
        PROVE  SessionInv'
    <3>1. /\ Refusal \in WorldType /\ WorldLater(world, Refusal)
          /\ Refusal.done = world.done /\ Refusal.told = world.told
          /\ Refusal.served = world.served /\ Refusal.repeats = world.repeats
          /\ Refusal.excused = world.excused
      BY <2>2, RefusalFacts
    <3>2. Evidenced(row, Refusal, overlapped)
      BY <2>2, <3>1, EvidenceKept
    <3>3. BihRowOK(row, Refusal)
      BY <2>2, <3>1, HasKept DEF BihRowOK
    <3>4. BihRequestOK("bih_fail", held[r], Refusal)
      BY DEF BihRequestOK
    <3>5. BihSoloOK(pc[r], row, world, faults) =>
              BihSoloOK("bih_fail", row, Refusal, faults)
      BY <2>1, <3>1 DEF BihSoloOK
    <3>6. Balanced(r, "bih_fail", Refusal, faults)
      BY <2>1, <3>1 DEF Balanced, Rep
    <3> QED
      BY <2>1, <2>2, <2>8, <3>1, <3>2, <3>3, <3>4, <3>5, <3>6, BihActInv DEF Act
  <2>9. ASSUME Fault(r, "bih_fail", w)
        PROVE  SessionInv'
    <3> HIDE DEF w
    <3>1. BihRowOK(row, w)
      BY <2>2, <2>4, <2>6, HasKept DEF BihRowOK
    <3>2. BihRequestOK("bih_fail", held[r], w)
      BY DEF BihRequestOK
    <3>3. faults + 1 # 0
      BY <2>2
    <3>4. BihSoloOK(pc[r], row, world, faults) =>
              BihSoloOK("bih_fail", row, w, faults + 1)
      BY <2>1, <2>4, <3>3 DEF BihSoloOK
    <3> QED
      BY <2>1, <2>4, <2>5, <2>9, <3>1, <3>2, <3>4, BihFaultInv
  <2> QED
    BY <1>3, <2>7, <2>8, <2>9 DEF BihPush, PushToCbs, Refusal
<1> QED
  BY <1>1, <1>2, <1>3

\* What comes after the account was opened, or was not.
LEMMA BihCloseInv ==
    ASSUME SessionInv, service = "BIH", NEW r \in Requests,
           BihComplete(r) \/ BihAnswer(r) \/ BihThrow(r) \/ BihFail(r)
    PROVE  SessionInv'
<1> USE DEF BihLabels, Reporting
<1>1. CASE BihComplete(r)
  <2> DEFINE rw == BihClosed("COMPLETED", "SUCCESS")
  <2>1. pc[r] = "bih_complete" /\ Save(r, rw, "bih_audit")
    BY <1>1 DEF BihComplete
  <2>2. row \in BihRows /\ BihRequestOK(pc[r], held[r], world)
    BY <2>1, BihFacts
  <2>3. rw \in BihRows /\ rw.status = "COMPLETED" /\ rw.kind = row.kind
    BY <2>2, BihRowFacts DEF BihStatuses
  <2> HIDE DEF rw
  <2>4. BihRowOK(rw, world) /\ BihRequestOK("bih_audit", held[r], world)
    BY <2>1, <2>2, <2>3 DEF BihRowOK, BihRequestOK
  <2>5. BihSoloOK(pc[r], row, world, faults) =>
            BihSoloOK("bih_audit", rw, world, faults)
    BY <2>1, <2>3 DEF BihSoloOK
  <2> QED
    BY <2>1, <2>3, <2>4, <2>5, BihSaveInv
<1>2. CASE BihAnswer(r)
  <2>1. pc[r] = "bih_audit" /\ Act(r, Tell, "idle")
    BY <1>2 DEF BihAnswer
  <2>2. /\ row \in BihRows /\ world \in WorldType /\ held[r] \in HeldOf("BIH")
        /\ BihRowOK(row, world) /\ Evidenced(row, world, overlapped)
    BY <2>1, BihFacts
  <2>3. /\ Tell \in WorldType /\ WorldLater(world, Tell)
        /\ Tell.done = world.done /\ Tell.told = world.told + 1
        /\ Tell.served = world.served /\ Tell.repeats = world.repeats
    BY <2>2, TellFacts
  <2>4. Evidenced(row, Tell, overlapped)
    BY <2>2, <2>3, EvidenceKept
  <2>5. BihRowOK(row, Tell) /\ BihRequestOK("idle", held[r], Tell)
    BY <2>2, <2>3, HasKept DEF BihRowOK, BihRequestOK
  <2>6. BihSoloOK(pc[r], row, world, faults) => BihSoloOK("idle", row, Tell, faults)
    BY <2>1, <2>3 DEF BihSoloOK
  <2>7. world.done \in Nat /\ world.told \in Nat
    BY <2>2 DEF WorldType
  <2>8. Balanced(r, "idle", Tell, faults)
    BY <2>1, <2>3, <2>7 DEF Balanced, Rep
  <2> QED
    BY <2>1, <2>2, <2>3, <2>4, <2>5, <2>6, <2>8, BihActInv DEF Act
<1>3. CASE BihThrow(r)
  <2>1. pc[r] \in {"bih_complete", "bih_audit"} /\ Fault(r, "bih_fail", world)
    BY <1>3 DEF BihThrow
  <2>2. /\ world \in WorldType /\ faults \in Nat
        /\ BihRowOK(row, world) /\ Evidenced(row, world, overlapped)
    BY <2>1, BihFacts
  <2>3. BihRequestOK("bih_fail", held[r], world)
    BY DEF BihRequestOK
  <2>4. faults + 1 # 0
    BY <2>2
  <2>5. BihSoloOK(pc[r], row, world, faults) =>
            BihSoloOK("bih_fail", row, world, faults + 1)
    BY <2>1, <2>4 DEF BihSoloOK
  <2> QED
    BY <2>1, <2>2, <2>3, <2>5, WorldStays, BihFaultInv
<1>4. CASE BihFail(r)
  <2> DEFINE rw == BihClosed("FAILED", "FAILED")
  <2>1. pc[r] = "bih_fail" /\ Save(r, rw, "idle")
    BY <1>4 DEF BihFail
  <2>2. row \in BihRows
    BY <2>1, BihFacts
  <2>3. rw \in BihRows /\ rw.status = "FAILED" /\ rw.kind = row.kind
    BY <2>2, BihRowFacts DEF BihStatuses
  <2> HIDE DEF rw
  <2>4. BihRowOK(rw, world) /\ BihRequestOK("idle", held[r], world)
    BY <2>3 DEF BihRowOK, BihRequestOK
  <2>5. BihSoloOK(pc[r], row, world, faults) => BihSoloOK("idle", rw, world, faults)
    BY <2>1, <2>3 DEF BihSoloOK
  <2> QED
    BY <2>1, <2>3, <2>4, <2>5, BihSaveInv
<1> QED
  BY <1>1, <1>2, <1>3, <1>4

\* An operation is executed first and recorded afterwards.
LEMMA BihOperationInv ==
    ASSUME SessionInv, service = "BIH", NEW r \in Requests,
           BihExecute(r) \/ BihAuthorized(r)
    PROVE  SessionInv'
<1> USE DEF BihLabels, Reporting
<1>1. CASE BihExecute(r)
  <2> DEFINE p == held[r].row.match
             w == Serve(p)
  <2>1. pc[r] = "bih_execute"
    BY <1>1 DEF BihExecute
  <2>2. /\ row \in BihRows /\ world \in WorldType /\ faults \in Nat
        /\ held[r] \in HeldOf("BIH")
        /\ BihRowOK(row, world) /\ BihRequestOK(pc[r], held[r], world)
        /\ Evidenced(row, world, overlapped)
    BY <2>1, BihFacts
  <2>3. p \in Anyone /\ Has(world, p, "finger")
    BY <2>1, <2>2 DEF BihRequestOK, BihRows
  <2>4. /\ w \in WorldType /\ WorldLater(world, w)
        /\ w.done = world.done + 1 /\ w.told = world.told
        /\ w.repeats = world.repeats /\ w.excused = world.excused
    BY <2>2, <2>3, ServeFacts
  <2>5. Evidenced(row, w, overlapped)
    <3>1. Required = {"finger"}
      BY DEF Required
    <3> QED
      BY <2>2, <2>3, <3>1, EvidenceServed
  <2>6. world.done \in Nat /\ world.told \in Nat
    BY <2>2 DEF WorldType
  <2>7. ASSUME Act(r, w, "bih_authorized")
        PROVE  SessionInv'
    <3> HIDE DEF w
    <3>1. BihRowOK(row, w) /\ BihRequestOK("bih_authorized", held[r], w)
      BY <2>2, <2>4, <2>6, HasKept DEF BihRowOK, BihRequestOK
    <3>2. BihSoloOK(pc[r], row, world, faults) =>
              BihSoloOK("bih_authorized", row, w, faults)
      BY <2>1, <2>4 DEF BihSoloOK
    <3>3. Balanced(r, "bih_authorized", w, faults)
      BY <2>1, <2>4, <2>6 DEF Balanced, Rep
    <3> QED
      BY <2>1, <2>2, <2>4, <2>5, <2>7, <3>1, <3>2, <3>3, BihActInv DEF Act
  <2>8. ASSUME Pass(r, "bih_fail")
        PROVE  SessionInv'
    <3>1. Save(r, row, "bih_fail")
      BY <2>8 DEF Pass
    <3>2. BihRequestOK("bih_fail", held[r], world)
      BY DEF BihRequestOK
    <3>3. BihSoloOK(pc[r], row, world, faults) =>
              BihSoloOK("bih_fail", row, world, faults)
      BY <2>1 DEF BihSoloOK
    <3> QED
      BY <2>1, <2>2, <3>1, <3>2, <3>3, BihSaveInv
  <2> QED
    BY <1>1, <2>7, <2>8 DEF BihExecute
<1>2. CASE BihAuthorized(r)
  <2> DEFINE rw == BihClosed("COMPLETED", "SUCCESS")
  <2>1. pc[r] = "bih_authorized" /\ Step(r, "idle", NoValue, rw, Tell)
    BY <1>2 DEF BihAuthorized
  <2>2. /\ row \in BihRows /\ world \in WorldType /\ held[r] \in HeldOf("BIH")
        /\ faults \in Nat /\ BihRequestOK(pc[r], held[r], world)
        /\ Evidenced(row, world, overlapped)
    BY <2>1, BihFacts
  <2>3. rw \in BihRows /\ rw.status = "COMPLETED" /\ rw.kind = row.kind
    BY <2>2, BihRowFacts DEF BihStatuses
  <2>4. /\ Tell \in WorldType /\ WorldLater(world, Tell)
        /\ Tell.done = world.done /\ Tell.told = world.told + 1
        /\ Tell.served = world.served /\ Tell.repeats = world.repeats
    BY <2>2, TellFacts
  <2> HIDE DEF rw
  <2>5. Moved(r, "idle", held[r], rw, Tell, faults)
    BY <2>1 DEF Moved, Step, Proceed
  <2>6. MoveTyped("idle", held[r], rw, Tell, faults)
    BY <2>2, <2>3, <2>4 DEF MoveTyped, RowsOf
  <2>7. Evidenced(rw, Tell, overlapped)
    BY <2>2, <2>4, EvidenceKept
  <2>8. RowOK(rw, Tell, faults)
    BY <2>1, <2>2, <2>3, <2>4 DEF RowOK, BihRowOK, BihRequestOK
  <2>9. SoloOK(pc[r], held[r], row, world, faults) =>
            SoloOK("idle", held[r], rw, Tell, faults)
    BY <2>1, <2>3, <2>4 DEF SoloOK, BihSoloOK
  <2>10. world.done \in Nat /\ world.told \in Nat
    BY <2>2 DEF WorldType
  <2>11. Balanced(r, "idle", Tell, faults)
    BY <2>1, <2>4, <2>10 DEF Balanced, Rep
  <2>12. RowLater(row, rw)
    BY DEF RowLater
  <2>13. MoveOK(r, "idle", held[r], rw, Tell, faults)
    BY <2>4, <2>7, <2>8, <2>9, <2>11, <2>12, IdleRelies DEF MoveOK
  <2> QED
    BY <2>5, <2>6, <2>13, MoveInv
<1> QED
  BY <1>1, <1>2

LEMMA BihBegins ==
    ASSUME SessionInv, service = "BIH", NEW r \in Requests, BihCall(r)
    PROVE  SessionInv'
<1>1. /\ row \in BihRows /\ world \in WorldType /\ faults \in Nat
      /\ overlapped \in BOOLEAN
      /\ BihRowOK(row, world) /\ Evidenced(row, world, overlapped) /\ SensorOK
  BY DEF SessionInv, Typed, RowsOf, RowOK
<1>2. Checked \in HeldOf(service) /\ Loaded \in HeldOf(service)
  BY <1>1 DEF Checked, Loaded, HeldOf, RowsOf, Anyone
<1>3. Loaded.row = row
  BY DEF Loaded
<1>4. ASSUME NEW label \in BihLabels, NEW loaded \in HeldOf(service),
             Begin(r, label, loaded), label \notin Reporting,
             BihRequestOK(label, loaded, world),
             BihSoloOK("idle", row, world, faults) =>
                 BihSoloOK(label, row, world, faults)
      PROVE  SessionInv'
  <2>1. label \in LabelsOf(service) /\ label # "idle"
    BY <1>4 DEF LabelsOf, BihLabels
  <2>2. RequestOK(label, loaded, row, world, faults)
    BY <1>4 DEF RequestOK
  <2>3. SoloOK("idle", NoValue, row, world, faults) =>
            SoloOK(label, loaded, row, world, faults)
    BY <1>4 DEF SoloOK
  <2> QED
    BY <1>4, <2>1, <2>2, <2>3, BeginInv
<1>5. CASE BihInitiate(r)
  <2> PICK k \in Kinds :
          Once(r, [row EXCEPT !.status = "SCAN_REQUESTED", !.kind = k], world)
    BY <1>5 DEF BihInitiate
  <2> DEFINE rw == [row EXCEPT !.status = "SCAN_REQUESTED", !.kind = k]
  <2>1. rw \in BihRows
    BY <1>1, Zenon DEF BihRows, BihStatuses
  <2>2. rw.status = "SCAN_REQUESTED" /\ row.status = "NONE"
    BY <1>1, <1>5 DEF BihRows, BihInitiate
  <2>3. Still(rw, world) /\ overlapped' = (overlapped \/ Busy)
    BY DEF Once, Still
  <2> HIDE DEF rw
  <2>4. rw \in RowsOf(service) /\ RowLater(row, rw)
    BY <2>1 DEF RowsOf, RowLater
  <2>5. Evidenced(rw, world, overlapped) /\ RowOK(rw, world, faults)
    BY <1>1, <2>2, EvidenceKept, WorldStays DEF RowOK, BihRowOK
  <2>6. ~ overlapped' =>
            \A l, h : /\ l # "idle" => Busy
                      /\ SoloOK(l, h, row, world, faults)
                      => SoloOK(l, h, rw, world, faults)
    <3> SUFFICES ASSUME NEW h, SoloOK("idle", h, row, world, faults)
                 PROVE  SoloOK("idle", h, rw, world, faults)
      BY <2>3
    <3>1. row.kind \in {"ACCOUNT_SETUP", "OPERATION"} /\ world.done \in Nat
      BY <1>1 DEF BihRows, Kinds, WorldType
    <3>2. BihSoloOK("idle", row, world, faults) /\ world.repeats = 0
      BY DEF SoloOK
    <3>3. BihSoloOK("idle", rw, world, faults)
      BY <2>2, <3>1, <3>2 DEF BihSoloOK
    <3> QED
      BY <3>2, <3>3 DEF SoloOK
  <2>7. SensorOK'
    BY <2>3 DEF Still, SensorOK
  <2> QED
    BY <1>1, <2>3, <2>4, <2>5, <2>6, <2>7, WorldStays, StillInv
<1>6. CASE BihSubmitTemplate(r)
  <2>1. row.status = "SCAN_REQUESTED" /\ Begin(r, "bih_search", Checked)
    BY <1>6 DEF BihSubmitTemplate
  <2>2. BihRequestOK("bih_search", Checked, world)
    BY DEF BihRequestOK
  <2>3. BihSoloOK("idle", row, world, faults) =>
            BihSoloOK("bih_search", row, world, faults)
    BY <2>1 DEF BihSoloOK
  <2> QED
    BY <1>2, <1>4, <2>1, <2>2, <2>3 DEF BihLabels, Reporting
<1>7. CASE BihSelectBank(r)
  <2>1. /\ row.status = "IDENTITY_UNLOCKED" /\ row.kind = "ACCOUNT_SETUP"
        /\ Begin(r, "bih_select", Loaded)
    BY <1>7 DEF BihSelectBank
  <2>2. BihRequestOK("bih_select", Loaded, world)
    BY <1>1, <1>3, <2>1 DEF BihRequestOK, BihRowOK
  <2>3. BihSoloOK("idle", row, world, faults) =>
            BihSoloOK("bih_select", row, world, faults)
    BY <2>1 DEF BihSoloOK
  <2> QED
    BY <1>2, <1>4, <2>1, <2>2, <2>3 DEF BihLabels, Reporting
<1>8. CASE BihAuthorize(r)
  <2>1. /\ row.status = "IDENTITY_UNLOCKED" /\ row.kind = "OPERATION"
        /\ Begin(r, "bih_execute", Loaded)
    BY <1>8 DEF BihAuthorize
  <2>2. BihRequestOK("bih_execute", Loaded, world)
    BY <1>1, <1>3, <2>1 DEF BihRequestOK, BihRowOK
  <2>3. BihSoloOK("idle", row, world, faults) =>
            BihSoloOK("bih_execute", row, world, faults)
    BY <2>1 DEF BihSoloOK
  <2> QED
    BY <1>2, <1>4, <2>1, <2>2, <2>3 DEF BihLabels, Reporting
<1> QED
  BY <1>5, <1>6, <1>7, <1>8 DEF BihCall

-----------------------------------------------------------------------------
(* BLS                                                                     *)

LEMMA BlsRowFacts ==
    ASSUME row \in BlsRows
    PROVE  \A s \in BlsStatuses :
               /\ BlsSet(s) \in BlsRows /\ BlsSet(s).status = s
               /\ BlsSet(s).anchor = row.anchor /\ BlsSet(s).accounts = row.accounts
               /\ BlsWiped(s) \in BlsRows /\ BlsWiped(s).status = s
               /\ BlsWiped(s).anchor = row.anchor /\ BlsWiped(s).accounts = NoOne
<1> TAKE s \in BlsStatuses
<1>1. /\ BlsSet(s) \in BlsRows /\ BlsSet(s).status = s
      /\ BlsSet(s).anchor = row.anchor /\ BlsSet(s).accounts = row.accounts
  BY DEF BlsSet, BlsRows
<1>2. /\ BlsWiped(s).status = s
      /\ BlsWiped(s).anchor = row.anchor /\ BlsWiped(s).accounts = NoOne
  BY DEF BlsWiped, BlsRows
<1>3. BlsWiped(s) \in BlsRows
  <2>1. NoOne \in Anyone
    BY DEF Anyone
  <2> QED
    BY <2>1, Zenon DEF BlsWiped, BlsRows
<1> QED
  BY <1>1, <1>2, <1>3

\* What a loaded row says of the world stays true.
LEMMA BlsRowKept ==
    ASSUME NEW rw, NEW w \in WorldType, NEW v \in WorldType, WorldLater(w, v),
           BlsRowOK(rw, w)
    PROVE  BlsRowOK(rw, v)
<1>1. \A p, e : Has(w, p, e) => Has(v, p, e)
  BY HasKept
<1> QED
  BY <1>1 DEF BlsRowOK, WorldLater, WorldType

\* What a BLS request under way knows.
LEMMA BlsFacts ==
    ASSUME SessionInv, service = "BLS", NEW r \in Requests, pc[r] # "idle"
    PROVE  /\ row \in BlsRows /\ world \in WorldType /\ faults \in Nat
           /\ held[r] \in HeldOf("BLS")
           /\ held[r].row \in BlsRows \cup {NoValue} /\ held[r].person \in Anyone
           /\ held[r].challenge \in Nat
           /\ BlsRowOK(row, world)
           /\ BlsRequestOK(pc[r], held[r], world)
           /\ Evidenced(row, world, overlapped)
<1>1. /\ held[r] \in HeldOf(service)
      /\ row \in RowsOf(service) /\ world \in WorldType /\ faults \in Nat
      /\ Evidenced(row, world, overlapped)
      /\ RowOK(row, world, faults)
      /\ RequestOK(pc[r], held[r], row, world, faults)
  BY UnderWayFacts
<1>2. RowsOf(service) = BlsRows
  BY DEF RowsOf
<1>3. /\ held[r].row \in BlsRows \cup {NoValue} /\ held[r].person \in Anyone
      /\ held[r].challenge \in Nat
  BY <1>1, <1>2 DEF HeldOf
<1> QED
  BY <1>1, <1>2, <1>3 DEF RowOK, RequestOK

LEMMA BlsSaveInv ==
    ASSUME SessionInv, service = "BLS", NEW r \in Requests, pc[r] # "idle",
           NEW label \in {"idle"} \cup LabelsOf("BLS"), NEW rw \in BlsRows,
           Save(r, rw, label), RowLater(row, rw),
           BlsRowOK(rw, world),
           BlsRequestOK(label, held[r], world),
           BlsSoloOK(pc[r], row, world, faults) =>
               BlsSoloOK(label, rw, world, faults),
           label \in Reporting <=> pc[r] \in Reporting
    PROVE  SessionInv'
<1>1. RowsOf(service) = BlsRows
  BY DEF RowsOf
<1>2. RowOK(rw, world, faults) /\ RequestOK(label, held[r], rw, world, faults)
  BY DEF RowOK, RequestOK
<1>3. SoloOK(pc[r], held[r], row, world, faults) =>
          SoloOK(label, held[r], rw, world, faults)
  BY DEF SoloOK
<1> QED
  BY <1>1, <1>2, <1>3, SaveInv

LEMMA BlsActInv ==
    ASSUME SessionInv, service = "BLS", NEW r \in Requests, pc[r] # "idle",
           NEW label \in {"idle"} \cup LabelsOf("BLS"),
           NEW loaded \in HeldOf("BLS"), NEW w \in WorldType,
           Step(r, label, loaded, row, w),
           WorldLater(world, w), Evidenced(row, w, overlapped),
           w.repeats = world.repeats,
           BlsRowOK(row, w),
           BlsRequestOK(label, loaded, w),
           BlsSoloOK(pc[r], row, world, faults) =>
               BlsSoloOK(label, row, w, faults),
           Balanced(r, label, w, faults)
    PROVE  SessionInv'
<1>1. RowOK(row, w, faults) /\ RequestOK(label, loaded, row, w, faults)
  BY DEF RowOK, RequestOK
<1>2. SoloOK(pc[r], held[r], row, world, faults) =>
          SoloOK(label, loaded, row, w, faults)
  BY DEF SoloOK
<1>3. pc[r] \in LabelsOf(service)
  BY UnderWayFacts
<1>4. pc[r] \notin Challenging
  BY <1>3 DEF Challenging, LabelsOf, BlsLabels
<1> QED
  BY <1>1, <1>2, <1>4, ActInv

\* The first scan and what it discovers.
LEMMA BlsDiscoveryInv ==
    ASSUME SessionInv, service = "BLS", NEW r \in Requests,
           BlsExpire(r) \/ BlsSearch(r) \/ BlsDiscovered(r) \/ BlsFail(r)
    PROVE  SessionInv'
<1> USE DEF LabelsOf, BlsLabels, Reporting
<1>1. CASE BlsExpire(r)
  <2> DEFINE rw == BlsSet("EXPIRED")
  <2>1. pc[r] = "bls_expire" /\ Save(r, rw, "idle")
    BY <1>1 DEF BlsExpire
  <2>2. /\ row \in BlsRows /\ world \in WorldType /\ faults \in Nat
        /\ held[r] \in HeldOf("BLS")
        /\ held[r].row \in BlsRows \cup {NoValue} /\ held[r].person \in Anyone
        /\ BlsRowOK(row, world)
        /\ BlsRequestOK(pc[r], held[r], world)
    BY <2>1, BlsFacts
  <2>3. rw \in BlsRows
    BY <2>2, BlsRowFacts DEF BlsStatuses
  <2>4. rw.status = "EXPIRED" /\ rw.anchor = row.anchor /\ rw.accounts = row.accounts
    BY <2>2, BlsRowFacts DEF BlsStatuses
  <2> HIDE DEF rw
  <2>5. BlsRowOK(rw, world) /\ RowLater(row, rw)
    BY <2>1, <2>2, <2>4 DEF BlsRowOK, BlsRequestOK, RowLater
  <2>6. BlsRequestOK("idle", held[r], world)
    BY <2>1, <2>2, <2>4 DEF BlsRequestOK
  <2>7. BlsSoloOK(pc[r], row, world, faults) =>
            BlsSoloOK("idle", rw, world, faults)
    BY <2>1, <2>2, <2>4 DEF BlsSoloOK
  <2> QED
    BY <2>1, <2>3, <2>5, <2>6, <2>7, BlsSaveInv
<1>2. CASE BlsSearch(r)
  <2>1. pc[r] = "bls_search"
    BY <1>2 DEF BlsSearch
  <2>2. /\ row \in BlsRows /\ world \in WorldType /\ held[r] \in HeldOf("BLS")
        /\ BlsRowOK(row, world) /\ BlsRequestOK(pc[r], held[r], world)
        /\ Evidenced(row, world, overlapped)
    BY <2>1, BlsFacts
  <2>3. CASE Pass(r, "bls_fail")
    <3>1. Save(r, row, "bls_fail")
      BY <2>3 DEF Pass
    <3>2. BlsRequestOK("bls_fail", held[r], world) /\ RowLater(row, row)
      BY DEF BlsRequestOK, RowLater
    <3>3. BlsSoloOK(pc[r], row, world, faults) =>
              BlsSoloOK("bls_fail", row, world, faults)
      BY <2>1 DEF BlsSoloOK
    <3> QED
      BY <2>1, <2>2, <3>1, <3>2, <3>3, BlsSaveInv
  <2>4. ASSUME NEW p \in People,
               Step(r, "bls_discovered", [held[r] EXCEPT !.person = p], row,
                    Show(p, "finger"))
        PROVE  SessionInv'
    <3> DEFINE h == [held[r] EXCEPT !.person = p]
               w == Show(p, "finger")
    <3>1. h \in HeldOf("BLS") /\ h.person = p /\ h.row = held[r].row
      BY <2>2 DEF HeldOf, Anyone
    <3>2. /\ w \in WorldType /\ WorldLater(world, w)
          /\ w.done = world.done /\ w.told = world.told
          /\ w.served = world.served /\ w.repeats = world.repeats
          /\ w.excused = world.excused /\ Has(w, p, "finger")
      BY <2>2, ShowFacts DEF Anyone, Evidence
    <3> HIDE DEF h, w
    <3>3. Evidenced(row, w, overlapped)
      BY <2>2, <3>2, EvidenceKept
    <3>4. BlsRowOK(row, w)
      BY <2>2, <3>2, BlsRowKept
    <3>5. BlsRequestOK("bls_discovered", h, w)
      <4>1. p # NoOne
        BY GatewayAssumption
      <4> QED
        BY <3>1, <3>2, <4>1 DEF BlsRequestOK
    <3>6. BlsSoloOK(pc[r], row, world, faults) =>
              BlsSoloOK("bls_discovered", row, w, faults)
      BY <2>1, <3>2 DEF BlsSoloOK
    <3>7. Balanced(r, "bls_discovered", w, faults)
      BY <2>1, <3>2 DEF Balanced, Rep
    <3>8. Step(r, "bls_discovered", h, row, w)
      BY <2>4 DEF h, w
    <3> QED
      BY <2>1, <3>1, <3>2, <3>3, <3>4, <3>5, <3>6, <3>7, <3>8, BlsActInv
  <2> QED
    BY <1>2, <2>3, <2>4 DEF BlsSearch, SearchByFingerprint
<1>3. CASE BlsDiscovered(r)
  <2> DEFINE rw == [row EXCEPT !.status = "DISCOVERED", !.anchor = held[r].person,
                              !.accounts = held[r].person, !.idleOver = FALSE]
  <2>1. pc[r] = "bls_discovered" /\ Save(r, rw, "idle")
    BY <1>3 DEF BlsDiscovered
  <2>2. /\ row \in BlsRows /\ world \in WorldType /\ faults \in Nat
        /\ held[r] \in HeldOf("BLS")
        /\ held[r].row \in BlsRows \cup {NoValue} /\ held[r].person \in Anyone
        /\ BlsRowOK(row, world)
        /\ BlsRequestOK(pc[r], held[r], world)
    BY <2>1, BlsFacts
  <2>3. rw \in BlsRows
    BY <2>2, Zenon DEF BlsRows, BlsStatuses
  <2>4. rw.status = "DISCOVERED" /\ rw.anchor = held[r].person
        /\ rw.accounts = held[r].person
    BY <2>2 DEF BlsRows
  <2> HIDE DEF rw
  <2>5. BlsRowOK(rw, world) /\ RowLater(row, rw)
    BY <2>1, <2>2, <2>4 DEF BlsRowOK, BlsRequestOK, RowLater
  <2>6. BlsRequestOK("idle", held[r], world)
    BY <2>1, <2>2, <2>4 DEF BlsRequestOK
  <2>7. BlsSoloOK(pc[r], row, world, faults) =>
            BlsSoloOK("idle", rw, world, faults)
    BY <2>1, <2>2, <2>4 DEF BlsSoloOK
  <2> QED
    BY <2>1, <2>3, <2>5, <2>6, <2>7, BlsSaveInv
<1>4. CASE BlsFail(r)
  <2> DEFINE rw == BlsSet("FAILED")
  <2>1. pc[r] = "bls_fail" /\ Save(r, rw, "idle")
    BY <1>4 DEF BlsFail
  <2>2. /\ row \in BlsRows /\ world \in WorldType /\ faults \in Nat
        /\ held[r] \in HeldOf("BLS")
        /\ held[r].row \in BlsRows \cup {NoValue} /\ held[r].person \in Anyone
        /\ BlsRowOK(row, world)
        /\ BlsRequestOK(pc[r], held[r], world)
    BY <2>1, BlsFacts
  <2>3. rw \in BlsRows
    BY <2>2, BlsRowFacts DEF BlsStatuses
  <2>4. rw.status = "FAILED" /\ rw.anchor = row.anchor /\ rw.accounts = row.accounts
    BY <2>2, BlsRowFacts DEF BlsStatuses
  <2> HIDE DEF rw
  <2>5. BlsRowOK(rw, world) /\ RowLater(row, rw)
    BY <2>1, <2>2, <2>4 DEF BlsRowOK, BlsRequestOK, RowLater
  <2>6. BlsRequestOK("idle", held[r], world)
    BY <2>1, <2>2, <2>4 DEF BlsRequestOK
  <2>7. BlsSoloOK(pc[r], row, world, faults) =>
            BlsSoloOK("idle", rw, world, faults)
    BY <2>1, <2>2, <2>4 DEF BlsSoloOK
  <2> QED
    BY <2>1, <2>3, <2>5, <2>6, <2>7, BlsSaveInv
<1> QED
  BY <1>1, <1>2, <1>3, <1>4

\* The selection, the seal and the comparison of the two people.
LEMMA BlsSealInv ==
    ASSUME SessionInv, service = "BLS", NEW r \in Requests,
           BlsSelected(r) \/ BlsSeal(r) \/ BlsCrossValidate(r)
    PROVE  SessionInv'
<1> USE DEF LabelsOf, BlsLabels, Reporting
<1>1. CASE BlsSelected(r)
  <2> DEFINE rw == [row EXCEPT !.status = "AWAITING_SEAL",
                              !.selected = held[r].row.accounts, !.idleOver = FALSE]
  <2>1. pc[r] = "bls_select" /\ Save(r, rw, "idle")
    BY <1>1 DEF BlsSelected
  <2>2. /\ row \in BlsRows /\ world \in WorldType /\ faults \in Nat
        /\ held[r] \in HeldOf("BLS")
        /\ held[r].row \in BlsRows \cup {NoValue} /\ held[r].person \in Anyone
        /\ BlsRowOK(row, world)
        /\ BlsRequestOK(pc[r], held[r], world)
    BY <2>1, BlsFacts
  <2>8. held[r].row.accounts \in Anyone
    BY <2>1, <2>2 DEF BlsRequestOK, BlsRows
  <2>3. rw \in BlsRows
    BY <2>8, <2>2, Zenon DEF BlsRows, BlsStatuses
  <2>4. rw.status = "AWAITING_SEAL" /\ rw.anchor = row.anchor
        /\ rw.accounts = row.accounts
    BY <2>2 DEF BlsRows
  <2> HIDE DEF rw
  <2>5. BlsRowOK(rw, world) /\ RowLater(row, rw)
    BY <2>1, <2>2, <2>4 DEF BlsRowOK, BlsRequestOK, RowLater
  <2>6. BlsRequestOK("idle", held[r], world)
    BY <2>1, <2>2, <2>4 DEF BlsRequestOK
  <2>7. BlsSoloOK(pc[r], row, world, faults) =>
            BlsSoloOK("idle", rw, world, faults)
    BY <2>1, <2>2, <2>4 DEF BlsSoloOK
  <2> QED
    BY <2>1, <2>3, <2>5, <2>6, <2>7, BlsSaveInv
<1>2. CASE BlsSeal(r)
  <2>1. pc[r] = "bls_seal"
    BY <1>2 DEF BlsSeal
  <2>2. /\ row \in BlsRows /\ world \in WorldType /\ held[r] \in HeldOf("BLS")
        /\ BlsRowOK(row, world) /\ BlsRequestOK(pc[r], held[r], world)
        /\ Evidenced(row, world, overlapped)
    BY <2>1, BlsFacts
  <2>3. CASE Pass(r, "bls_fail")
    <3>1. Save(r, row, "bls_fail")
      BY <2>3 DEF Pass
    <3>2. BlsRequestOK("bls_fail", held[r], world) /\ RowLater(row, row)
      BY DEF BlsRequestOK, RowLater
    <3>3. BlsSoloOK(pc[r], row, world, faults) =>
              BlsSoloOK("bls_fail", row, world, faults)
      BY <2>1 DEF BlsSoloOK
    <3> QED
      BY <2>1, <2>2, <3>1, <3>2, <3>3, BlsSaveInv
  <2>4. ASSUME NEW p \in People,
               Step(r, "bls_cross", [held[r] EXCEPT !.person = p], row,
                    Show(p, "seal"))
        PROVE  SessionInv'
    <3> DEFINE h == [held[r] EXCEPT !.person = p]
               w == Show(p, "seal")
    <3>1. h \in HeldOf("BLS") /\ h.person = p /\ h.row = held[r].row
      BY <2>2 DEF HeldOf, Anyone
    <3>2. /\ w \in WorldType /\ WorldLater(world, w)
          /\ w.done = world.done /\ w.told = world.told
          /\ w.served = world.served /\ w.repeats = world.repeats
          /\ w.excused = world.excused /\ Has(w, p, "seal")
      BY <2>2, ShowFacts DEF Anyone, Evidence
    <3> HIDE DEF h, w
    <3>3. Evidenced(row, w, overlapped)
      BY <2>2, <3>2, EvidenceKept
    <3>4. BlsRowOK(row, w)
      BY <2>2, <3>2, BlsRowKept
    <3>5. BlsRequestOK("bls_cross", h, w)
      <4>1. held[r].row \in BlsRows /\ BlsRowOK(held[r].row, world)
        BY <2>1, <2>2 DEF BlsRequestOK
      <4>2. BlsRowOK(held[r].row, w)
        BY <2>2, <3>2, <4>1, BlsRowKept
      <4> QED
        BY <3>1, <3>2, <4>1, <4>2 DEF BlsRequestOK
    <3>6. BlsSoloOK(pc[r], row, world, faults) =>
              BlsSoloOK("bls_cross", row, w, faults)
      BY <2>1, <3>2 DEF BlsSoloOK
    <3>7. Balanced(r, "bls_cross", w, faults)
      BY <2>1, <3>2 DEF Balanced, Rep
    <3>8. Step(r, "bls_cross", h, row, w)
      BY <2>4 DEF h, w
    <3> QED
      BY <2>1, <3>1, <3>2, <3>3, <3>4, <3>5, <3>6, <3>7, <3>8, BlsActInv
  <2> QED
    BY <1>2, <2>3, <2>4 DEF BlsSeal, SearchByFingerprint
<1>3. CASE BlsCrossValidate(r)
  <2> DEFINE same == held[r].person = held[r].row.anchor
             rw == [row EXCEPT !.crossValidated = same]
  <2>1. pc[r] = "bls_cross" /\ Save(r, rw, IF same THEN "bls_execute" ELSE "bls_fail")
    BY <1>3 DEF BlsCrossValidate
  <2>2. row \in BlsRows /\ BlsRowOK(row, world) /\ BlsRequestOK(pc[r], held[r], world)
    BY <2>1, BlsFacts
  <2>3. same \in BOOLEAN
    OBVIOUS
  <2>4. rw \in BlsRows /\ rw.status = row.status /\ rw.anchor = row.anchor
        /\ rw.accounts = row.accounts
    BY <2>2, <2>3 DEF BlsRows
  <2> HIDE DEF rw
  <2>5. BlsRowOK(rw, world) /\ RowLater(row, rw)
    BY <2>2, <2>4 DEF BlsRowOK, RowLater
  <2>6. ASSUME same, Save(r, rw, "bls_execute")
        PROVE  SessionInv'
    <3>1. BlsRequestOK("bls_execute", held[r], world)
      BY <2>1, <2>2, <2>6 DEF BlsRequestOK
    <3>2. BlsSoloOK(pc[r], row, world, faults) =>
              BlsSoloOK("bls_execute", rw, world, faults)
      BY <2>1, <2>4 DEF BlsSoloOK
    <3> QED
      BY <2>1, <2>4, <2>5, <2>6, <3>1, <3>2, BlsSaveInv
  <2>7. ASSUME Save(r, rw, "bls_fail")
        PROVE  SessionInv'
    <3>1. BlsRequestOK("bls_fail", held[r], world)
      BY DEF BlsRequestOK
    <3>2. BlsSoloOK(pc[r], row, world, faults) =>
              BlsSoloOK("bls_fail", rw, world, faults)
      BY <2>1, <2>4 DEF BlsSoloOK
    <3> QED
      BY <2>1, <2>4, <2>5, <2>7, <3>1, <3>2, BlsSaveInv
  <2> QED
    BY <2>1, <2>6, <2>7
<1> QED
  BY <1>1, <1>2, <1>3

\* The debit and its record.
LEMMA BlsDebitInv ==
    ASSUME SessionInv, service = "BLS", NEW r \in Requests,
           BlsExecute(r) \/ BlsExecuted(r) \/ BlsAnswer(r) \/ BlsFailed(r)
    PROVE  SessionInv'
<1> USE DEF LabelsOf, BlsLabels, Reporting
<1>1. CASE BlsExecute(r)
  <2> DEFINE p == held[r].row.selected
             w == Serve(p)
  <2>1. pc[r] = "bls_execute"
    BY <1>1 DEF BlsExecute
  <2>2. /\ row \in BlsRows /\ world \in WorldType /\ faults \in Nat
        /\ held[r] \in HeldOf("BLS")
        /\ BlsRowOK(row, world) /\ BlsRequestOK(pc[r], held[r], world)
        /\ Evidenced(row, world, overlapped)
    BY <2>1, BlsFacts
  <2>3. ASSUME held[r].row.accounts # NoOne, p = held[r].row.accounts,
               Act(r, w, "bls_executed")
        PROVE  SessionInv'
    <3>1. p \in Anyone /\ Has(world, p, "finger") /\ Has(world, p, "seal")
      BY <2>1, <2>2, <2>3 DEF BlsRequestOK, BlsRowOK, BlsRows
    <3>2. /\ w \in WorldType /\ WorldLater(world, w)
          /\ w.done = world.done + 1 /\ w.told = world.told
          /\ w.repeats = world.repeats /\ w.excused = world.excused
      BY <2>2, <3>1, ServeFacts
    <3>3. Required = {"finger", "seal"}
      BY DEF Required
    <3>4. Evidenced(row, w, overlapped)
      BY <2>2, <3>1, <3>3, EvidenceServed
    <3>5. world.done \in Nat /\ world.told \in Nat
      BY <2>2 DEF WorldType
    <3> HIDE DEF w
    <3>6. BlsRowOK(row, w)
      BY <2>2, <3>2, BlsRowKept
    <3>7. BlsRequestOK("bls_executed", held[r], w)
      BY <3>2, <3>5 DEF BlsRequestOK
    <3>8. BlsSoloOK(pc[r], row, world, faults) =>
              BlsSoloOK("bls_executed", row, w, faults)
      BY <2>1, <3>2 DEF BlsSoloOK
    <3>9. Balanced(r, "bls_executed", w, faults)
      BY <2>1, <3>2, <3>5 DEF Balanced, Rep
    <3> QED
      BY <2>1, <2>2, <2>3, <3>2, <3>4, <3>6, <3>7, <3>8, <3>9, BlsActInv DEF Act
  <2>4. ASSUME Pass(r, "bls_failed")
        PROVE  SessionInv'
    <3>1. Save(r, row, "bls_failed")
      BY <2>4 DEF Pass
    <3>2. BlsRequestOK("bls_failed", held[r], world) /\ RowLater(row, row)
      BY DEF BlsRequestOK, RowLater
    <3>3. BlsSoloOK(pc[r], row, world, faults) =>
              BlsSoloOK("bls_failed", row, world, faults)
      BY <2>1 DEF BlsSoloOK
    <3> QED
      BY <2>1, <2>2, <3>1, <3>2, <3>3, BlsSaveInv
  <2> QED
    BY <1>1, <2>3, <2>4 DEF BlsExecute
<1>2. CASE BlsExecuted(r)
  <2> DEFINE rw == BlsWiped("EXECUTED")
  <2>1. pc[r] = "bls_executed" /\ Save(r, rw, "bls_audit")
    BY <1>2 DEF BlsExecuted
  <2>2. /\ row \in BlsRows /\ world \in WorldType /\ faults \in Nat
        /\ held[r] \in HeldOf("BLS")
        /\ held[r].row \in BlsRows \cup {NoValue} /\ held[r].person \in Anyone
        /\ BlsRowOK(row, world)
        /\ BlsRequestOK(pc[r], held[r], world)
    BY <2>1, BlsFacts
  <2>3. rw \in BlsRows
    BY <2>2, BlsRowFacts DEF BlsStatuses
  <2>4. rw.status = "EXECUTED" /\ rw.anchor = row.anchor /\ rw.accounts = NoOne
    BY <2>2, BlsRowFacts DEF BlsStatuses
  <2> HIDE DEF rw
  <2>5. BlsRowOK(rw, world) /\ RowLater(row, rw)
    BY <2>1, <2>2, <2>4 DEF BlsRowOK, BlsRequestOK, RowLater
  <2>6. BlsRequestOK("bls_audit", held[r], world)
    BY <2>1, <2>2, <2>4 DEF BlsRequestOK
  <2>7. BlsSoloOK(pc[r], row, world, faults) =>
            BlsSoloOK("bls_audit", rw, world, faults)
    BY <2>1, <2>2, <2>4 DEF BlsSoloOK
  <2> QED
    BY <2>1, <2>3, <2>5, <2>6, <2>7, BlsSaveInv
<1>3. CASE BlsAnswer(r)
  <2>1. pc[r] = "bls_audit" /\ Act(r, Tell, "idle")
    BY <1>3 DEF BlsAnswer
  <2>2. /\ row \in BlsRows /\ world \in WorldType /\ held[r] \in HeldOf("BLS")
        /\ BlsRowOK(row, world) /\ Evidenced(row, world, overlapped)
    BY <2>1, BlsFacts
  <2>3. /\ Tell \in WorldType /\ WorldLater(world, Tell)
        /\ Tell.done = world.done /\ Tell.told = world.told + 1
        /\ Tell.served = world.served /\ Tell.repeats = world.repeats
    BY <2>2, TellFacts
  <2>4. Evidenced(row, Tell, overlapped)
    BY <2>2, <2>3, EvidenceKept
  <2>5. BlsRowOK(row, Tell)
    BY <2>2, <2>3, BlsRowKept
  <2>6. BlsRequestOK("idle", held[r], Tell)
    BY DEF BlsRequestOK
  <2>7. BlsSoloOK(pc[r], row, world, faults) => BlsSoloOK("idle", row, Tell, faults)
    BY <2>1, <2>3 DEF BlsSoloOK
  <2>8. world.done \in Nat /\ world.told \in Nat
    BY <2>2 DEF WorldType
  <2>9. Balanced(r, "idle", Tell, faults)
    BY <2>1, <2>3, <2>8 DEF Balanced, Rep
  <2> QED
    BY <2>1, <2>2, <2>3, <2>4, <2>5, <2>6, <2>7, <2>9, BlsActInv DEF Act
<1>4. CASE BlsFailed(r)
  <2> DEFINE rw == BlsWiped("FAILED")
  <2>1. pc[r] = "bls_failed" /\ Save(r, rw, "idle")
    BY <1>4 DEF BlsFailed
  <2>2. /\ row \in BlsRows /\ world \in WorldType /\ faults \in Nat
        /\ held[r] \in HeldOf("BLS")
        /\ held[r].row \in BlsRows \cup {NoValue} /\ held[r].person \in Anyone
        /\ BlsRowOK(row, world)
        /\ BlsRequestOK(pc[r], held[r], world)
    BY <2>1, BlsFacts
  <2>3. rw \in BlsRows
    BY <2>2, BlsRowFacts DEF BlsStatuses
  <2>4. rw.status = "FAILED" /\ rw.anchor = row.anchor /\ rw.accounts = NoOne
    BY <2>2, BlsRowFacts DEF BlsStatuses
  <2> HIDE DEF rw
  <2>5. BlsRowOK(rw, world) /\ RowLater(row, rw)
    BY <2>1, <2>2, <2>4 DEF BlsRowOK, BlsRequestOK, RowLater
  <2>6. BlsRequestOK("idle", held[r], world)
    BY <2>1, <2>2, <2>4 DEF BlsRequestOK
  <2>7. BlsSoloOK(pc[r], row, world, faults) =>
            BlsSoloOK("idle", rw, world, faults)
    BY <2>1, <2>2, <2>4 DEF BlsSoloOK
  <2> QED
    BY <2>1, <2>3, <2>5, <2>6, <2>7, BlsSaveInv
<1> QED
  BY <1>1, <1>2, <1>3, <1>4

LEMMA BlsBegins ==
    ASSUME SessionInv, service = "BLS", NEW r \in Requests, BlsCall(r)
    PROVE  SessionInv'
<1>1. /\ row \in BlsRows /\ world \in WorldType /\ faults \in Nat
      /\ overlapped \in BOOLEAN
      /\ BlsRowOK(row, world) /\ Evidenced(row, world, overlapped)
  BY DEF SessionInv, Typed, RowsOf, RowOK
<1>2. Checked \in HeldOf(service) /\ Loaded \in HeldOf(service)
  BY <1>1 DEF Checked, Loaded, HeldOf, RowsOf, Anyone
<1>3. Loaded.row = row
  BY DEF Loaded
<1>4. ASSUME NEW label \in BlsLabels, NEW loaded \in HeldOf(service),
             Begin(r, label, loaded), label \notin Reporting,
             BlsRequestOK(label, loaded, world),
             BlsSoloOK("idle", row, world, faults) =>
                 BlsSoloOK(label, row, world, faults)
      PROVE  SessionInv'
  <2>1. label \in LabelsOf(service) /\ label # "idle"
    BY <1>4 DEF LabelsOf, BlsLabels
  <2>2. RequestOK(label, loaded, row, world, faults)
    BY <1>4 DEF RequestOK
  <2>3. SoloOK("idle", NoValue, row, world, faults) =>
            SoloOK(label, loaded, row, world, faults)
    BY <1>4 DEF SoloOK
  <2> QED
    BY <1>4, <2>1, <2>2, <2>3, BeginInv
<1> USE DEF BlsLabels, Reporting
<1>5. CASE BlsInitiate(r)
  <2> DEFINE rw == BlsSet("INITIATED")
  <2>1. row.status = "NONE" /\ Once(r, rw, world)
    BY <1>5 DEF BlsInitiate
  <2>2. /\ rw \in BlsRows /\ rw.status = "INITIATED"
        /\ rw.anchor = row.anchor /\ rw.accounts = row.accounts
    BY <1>1, BlsRowFacts DEF BlsStatuses
  <2>3. Still(rw, world) /\ overlapped' = (overlapped \/ Busy)
    BY <2>1 DEF Once, Still
  <2> HIDE DEF rw
  <2>4. rw \in RowsOf(service) /\ RowLater(row, rw)
    BY <2>2 DEF RowsOf, RowLater
  <2>5. RowOK(rw, world, faults)
    BY <1>1, <2>2 DEF RowOK, BlsRowOK
  <2>6. Evidenced(rw, world, overlapped)
    BY <1>1, EvidenceKept, WorldStays
  <2>7. ~ overlapped' =>
            \A l, h : /\ l # "idle" => Busy
                      /\ SoloOK(l, h, row, world, faults)
                      => SoloOK(l, h, rw, world, faults)
    BY <2>1, <2>2, <2>3 DEF SoloOK, BlsSoloOK
  <2>8. SensorOK'
    BY <2>3 DEF Still, SensorOK
  <2> QED
    BY <1>1, <2>3, <2>4, <2>5, <2>6, <2>7, <2>8, WorldStays, StillInv
<1>6. CASE BlsFindIdle(r)
  <2>1. Begin(r, "bls_expire", Checked)
    BY <1>6 DEF BlsFindIdle
  <2>2. BlsRequestOK("bls_expire", Checked, world)
    BY DEF BlsRequestOK
  <2>3. BlsSoloOK("idle", row, world, faults) =>
            BlsSoloOK("bls_expire", row, world, faults)
    BY DEF BlsSoloOK
  <2> QED
    BY <1>2, <1>4, <2>1, <2>2, <2>3
<1>7. CASE BlsSubmitDiscoveryScan(r)
  <2>1. row.status = "INITIATED" /\ Begin(r, "bls_search", Checked)
    BY <1>7 DEF BlsSubmitDiscoveryScan, BlsAssertActive
  <2>2. BlsRequestOK("bls_search", Checked, world)
    BY DEF BlsRequestOK
  <2>3. BlsSoloOK("idle", row, world, faults) =>
            BlsSoloOK("bls_search", row, world, faults)
    BY <2>1 DEF BlsSoloOK
  <2> QED
    BY <1>2, <1>4, <2>1, <2>2, <2>3
<1>8. CASE BlsSelectAccount(r)
  <2>1. row.status = "DISCOVERED" /\ Begin(r, "bls_select", Loaded)
    BY <1>8 DEF BlsSelectAccount, BlsAssertActive
  <2>2. BlsRequestOK("bls_select", Loaded, world)
    BY <1>1, <1>3 DEF BlsRequestOK
  <2>3. BlsSoloOK("idle", row, world, faults) =>
            BlsSoloOK("bls_select", row, world, faults)
    BY <2>1 DEF BlsSoloOK
  <2> QED
    BY <1>2, <1>4, <2>1, <2>2, <2>3
<1>9. CASE BlsSubmitSealScan(r)
  <2>1. row.status = "AWAITING_SEAL" /\ Begin(r, "bls_seal", Loaded)
    BY <1>9 DEF BlsSubmitSealScan, BlsAssertActive
  <2>2. BlsRequestOK("bls_seal", Loaded, world)
    BY <1>1, <1>3 DEF BlsRequestOK
  <2>3. BlsSoloOK("idle", row, world, faults) =>
            BlsSoloOK("bls_seal", row, world, faults)
    BY <2>1 DEF BlsSoloOK
  <2> QED
    BY <1>2, <1>4, <2>1, <2>2, <2>3
<1> QED
  BY <1>5, <1>6, <1>7, <1>8, <1>9 DEF BlsCall

LEMMA BlsTimeInv ==
    ASSUME SessionInv, BlsTimePasses
    PROVE  SessionInv'
<1> DEFINE rw == [row EXCEPT !.idleOver = TRUE]
<1>1. service = "BLS" /\ Outside(rw, world)
  BY DEF BlsTimePasses
<1>2. /\ row \in BlsRows /\ world \in WorldType /\ overlapped \in BOOLEAN
      /\ BlsRowOK(row, world) /\ Evidenced(row, world, overlapped)
  BY <1>1 DEF SessionInv, Typed, RowsOf, RowOK
<1>3. /\ rw \in BlsRows /\ rw.status = row.status
      /\ rw.anchor = row.anchor /\ rw.accounts = row.accounts
  BY <1>2 DEF BlsRows
<1>4. Still(rw, world) /\ overlapped' = overlapped
  BY <1>1 DEF Outside, Still
<1> HIDE DEF rw
<1>5. rw \in RowsOf(service) /\ RowLater(row, rw)
  BY <1>1, <1>3 DEF RowsOf, RowLater
<1>6. RowOK(rw, world, faults)
  BY <1>1, <1>2, <1>3 DEF RowOK, BlsRowOK
<1>7. Evidenced(rw, world, overlapped)
  BY <1>1, <1>2, EvidenceKept, WorldStays
<1>8. \A l, h : SoloOK(l, h, row, world, faults) => SoloOK(l, h, rw, world, faults)
  BY <1>1, <1>3 DEF SoloOK, BlsSoloOK
<1>9. SensorOK'
  BY <1>1, <1>4 DEF Still, SensorOK
<1> QED
  BY <1>1, <1>2, <1>4, <1>5, <1>6, <1>7, <1>8, <1>9, WorldStays, StillInv

-----------------------------------------------------------------------------
(* ZFOE                                                                    *)

LEMMA ZfoeRowFacts ==
    ASSUME row \in ZfoeRows
    PROVE  \A s \in ZfoeStatuses :
               /\ ZfoeSet(s) \in ZfoeRows /\ ZfoeSet(s).status = s
               /\ ZfoeSet(s).subscriber = row.subscriber
BY DEF ZfoeSet, ZfoeRows

\* What a ZFOE request under way knows.
LEMMA ZfoeFacts ==
    ASSUME SessionInv, service = "ZFOE", NEW r \in Requests, pc[r] # "idle"
    PROVE  /\ row \in ZfoeRows /\ world \in WorldType /\ faults \in Nat
           /\ held[r] \in HeldOf("ZFOE")
           /\ held[r].row \in ZfoeRows \cup {NoValue} /\ held[r].person \in Anyone
           /\ held[r].challenge \in Nat
           /\ ZfoeRowOK(row, world)
           /\ ZfoeRequestOK(pc[r], held[r], world)
           /\ Evidenced(row, world, overlapped)
<1>1. /\ held[r] \in HeldOf(service)
      /\ row \in RowsOf(service) /\ world \in WorldType /\ faults \in Nat
      /\ Evidenced(row, world, overlapped)
      /\ RowOK(row, world, faults)
      /\ RequestOK(pc[r], held[r], row, world, faults)
  BY UnderWayFacts
<1>2. RowsOf(service) = ZfoeRows
  BY DEF RowsOf
<1>3. /\ held[r].row \in ZfoeRows \cup {NoValue} /\ held[r].person \in Anyone
      /\ held[r].challenge \in Nat
  BY <1>1, <1>2 DEF HeldOf
<1> QED
  BY <1>1, <1>2, <1>3 DEF RowOK, RequestOK

LEMMA ZfoeSaveInv ==
    ASSUME SessionInv, service = "ZFOE", NEW r \in Requests, pc[r] # "idle",
           NEW label \in {"idle"} \cup LabelsOf("ZFOE"), NEW rw \in ZfoeRows,
           Save(r, rw, label), RowLater(row, rw),
           ZfoeRowOK(rw, world),
           ZfoeRequestOK(label, held[r], world),
           ZfoeSoloOK(pc[r], row, world) =>
               ZfoeSoloOK(label, rw, world),
           label \in Reporting <=> pc[r] \in Reporting
    PROVE  SessionInv'
<1>1. RowsOf(service) = ZfoeRows
  BY DEF RowsOf
<1>2. RowOK(rw, world, faults) /\ RequestOK(label, held[r], rw, world, faults)
  BY DEF RowOK, RequestOK
<1>3. SoloOK(pc[r], held[r], row, world, faults) =>
          SoloOK(label, held[r], rw, world, faults)
  BY DEF SoloOK
<1> QED
  BY <1>1, <1>2, <1>3, SaveInv

LEMMA ZfoeActInv ==
    ASSUME SessionInv, service = "ZFOE", NEW r \in Requests, pc[r] # "idle",
           NEW label \in {"idle"} \cup LabelsOf("ZFOE"),
           NEW loaded \in HeldOf("ZFOE"), NEW w \in WorldType,
           Step(r, label, loaded, row, w),
           WorldLater(world, w), Evidenced(row, w, overlapped),
           w.repeats = world.repeats,
           ZfoeRowOK(row, w),
           ZfoeRequestOK(label, loaded, w),
           ZfoeSoloOK(pc[r], row, world) =>
               ZfoeSoloOK(label, row, w),
           Balanced(r, label, w, faults)
    PROVE  SessionInv'
<1>1. RowOK(row, w, faults) /\ RequestOK(label, loaded, row, w, faults)
  BY DEF RowOK, RequestOK
<1>2. SoloOK(pc[r], held[r], row, world, faults) =>
          SoloOK(label, loaded, row, w, faults)
  BY DEF SoloOK
<1>3. pc[r] \in LabelsOf(service)
  BY UnderWayFacts
<1>4. pc[r] \notin Challenging
  BY <1>3 DEF Challenging, LabelsOf, ZfoeLabels
<1> QED
  BY <1>1, <1>2, <1>4, ActInv

\* The first session of the number, and the bank's selection.
LEMMA ZfoeSelectInv ==
    ASSUME SessionInv, service = "ZFOE", NEW r \in Requests,
           ZfoeCreate(r) \/ ZfoeBankSelected(r)
    PROVE  SessionInv'
<1> USE DEF LabelsOf, ZfoeLabels, Reporting
<1>1. CASE ZfoeCreate(r)
  <2>1. pc[r] = "zfoe_create"
    BY <1>1 DEF ZfoeCreate
  <2>2. /\ row \in ZfoeRows /\ world \in WorldType /\ faults \in Nat
        /\ held[r] \in HeldOf("ZFOE")
        /\ ZfoeRowOK(row, world) /\ ZfoeRequestOK(pc[r], held[r], world)
        /\ Evidenced(row, world, overlapped)
    BY <2>1, ZfoeFacts
  <2>3. ASSUME row.status = "NONE", NEW p \in People,
               Save(r, [status |-> "IDENTITY_FETCHED", subscriber |-> p], "idle")
        PROVE  SessionInv'
    <3> DEFINE rw == [status |-> "IDENTITY_FETCHED", subscriber |-> p]
    <3>1. rw \in ZfoeRows /\ rw.status = "IDENTITY_FETCHED"
      BY DEF ZfoeRows, ZfoeStatuses, Anyone
    <3> HIDE DEF rw
    <3>2. ZfoeRowOK(rw, world) /\ RowLater(row, rw)
          /\ ZfoeRequestOK("idle", held[r], world)
      BY <3>1 DEF ZfoeRowOK, RowLater, ZfoeRequestOK
    <3>3. ZfoeSoloOK(pc[r], row, world) => ZfoeSoloOK("idle", rw, world)
      BY <2>3, <3>1 DEF ZfoeSoloOK
    <3>4. Save(r, rw, "idle")
      BY <2>3 DEF rw
    <3> QED
      BY <2>1, <3>1, <3>2, <3>3, <3>4, ZfoeSaveInv
  <2>4. ASSUME row.status # "NONE", Act(r, Repetition, "idle")
        PROVE  SessionInv'
    <3>1. /\ Repetition \in WorldType /\ WorldLater(world, Repetition)
          /\ Repetition.done = world.done /\ Repetition.told = world.told
          /\ Repetition.served = world.served
          /\ Repetition.excused = world.excused
      BY <2>2, RepetitionFacts
    <3>2. Evidenced(row, Repetition, overlapped)
      BY <2>2, <3>1, EvidenceKept
    <3>3. RowOK(row, Repetition, faults)
      BY <2>2, <3>1 DEF RowOK, ZfoeRowOK
    <3>4. ~ SoloOK(pc[r], held[r], row, world, faults)
      BY <2>1, <2>4 DEF SoloOK, ZfoeSoloOK
    <3>5. Balanced(r, "idle", Repetition, faults)
      BY <2>1, <3>1 DEF Balanced, Rep
    <3> QED
      BY <2>1, <2>2, <2>4, <3>1, <3>2, <3>3, <3>4, <3>5, ActInv
      DEF Act, Challenging
  <2> QED
    BY <1>1, <2>3, <2>4 DEF ZfoeCreate, Repetition
<1>2. CASE ZfoeBankSelected(r)
  <2> DEFINE rw == ZfoeSet("BANK_SELECTED")
  <2>1. pc[r] = "zfoe_select" /\ Save(r, rw, "idle")
    BY <1>2 DEF ZfoeBankSelected
  <2>2. /\ row \in ZfoeRows /\ world \in WorldType /\ faults \in Nat
        /\ held[r] \in HeldOf("ZFOE")
        /\ held[r].row \in ZfoeRows \cup {NoValue} /\ held[r].person \in Anyone
        /\ ZfoeRowOK(row, world)
        /\ ZfoeRequestOK(pc[r], held[r], world)
    BY <2>1, ZfoeFacts
  <2>3. rw \in ZfoeRows
    BY <2>2, ZfoeRowFacts DEF ZfoeStatuses
  <2>4. rw.status = "BANK_SELECTED" /\ rw.subscriber = row.subscriber
    BY <2>2, ZfoeRowFacts DEF ZfoeStatuses
  <2> HIDE DEF rw
  <2>5. ZfoeRowOK(rw, world) /\ RowLater(row, rw)
    BY <2>1, <2>2, <2>4 DEF ZfoeRowOK, ZfoeRequestOK, RowLater
  <2>6. ZfoeRequestOK("idle", held[r], world)
    BY <2>1, <2>2, <2>4 DEF ZfoeRequestOK
  <2>7. ZfoeSoloOK(pc[r], row, world) =>
            ZfoeSoloOK("idle", rw, world)
    BY <2>1, <2>2, <2>4 DEF ZfoeSoloOK
  <2> QED
    BY <2>1, <2>3, <2>5, <2>6, <2>7, ZfoeSaveInv
<1> QED
  BY <1>1, <1>2

\* The gate, and the two updates before the bank is asked.
LEMMA ZfoeGateInv ==
    ASSUME SessionInv, service = "ZFOE", NEW r \in Requests,
           \/ ZfoeGate(r) \/ ZfoeNoMatch(r) \/ ZfoeBiometricOk(r)
           \/ ZfoeProvisioning(r)
    PROVE  SessionInv'
<1> USE DEF LabelsOf, ZfoeLabels, Reporting
<1>1. CASE ZfoeGate(r)
  <2>1. pc[r] = "zfoe_gate"
    BY <1>1 DEF ZfoeGate
  <2>2. /\ row \in ZfoeRows /\ world \in WorldType /\ faults \in Nat
        /\ held[r] \in HeldOf("ZFOE")
        /\ ZfoeRowOK(row, world) /\ ZfoeRequestOK(pc[r], held[r], world)
        /\ Evidenced(row, world, overlapped)
    BY <2>1, ZfoeFacts
  <2>3. ASSUME NEW p \in People, NEW e \in {"finger", "face"},
               Act(r, Show(p, e), "zfoe_ok")
        PROVE  SessionInv'
    <3> DEFINE w == Show(p, e)
    <3>1. /\ w \in WorldType /\ WorldLater(world, w)
          /\ w.done = world.done /\ w.told = world.told
          /\ w.served = world.served /\ w.repeats = world.repeats
          /\ w.excused = world.excused /\ w.shown # {}
      BY <2>2, ShowFacts DEF Anyone, Evidence
    <3>2. Act(r, w, "zfoe_ok")
      BY <2>3
    <3> HIDE DEF w
    <3>3. Evidenced(row, w, overlapped)
      BY <2>2, <3>1, EvidenceKept
    <3>4. ZfoeRowOK(row, w) /\ ZfoeRequestOK("zfoe_ok", held[r], w)
      BY <2>1, <2>2, <3>1 DEF ZfoeRowOK, ZfoeRequestOK
    <3>5. ZfoeSoloOK(pc[r], row, world) => ZfoeSoloOK("zfoe_ok", row, w)
      BY <2>1, <3>1 DEF ZfoeSoloOK
    <3>6. Balanced(r, "zfoe_ok", w, faults)
      BY <2>1, <3>1 DEF Balanced, Rep
    <3> QED
      BY <2>1, <2>2, <3>1, <3>2, <3>3, <3>4, <3>5, <3>6, ZfoeActInv DEF Act
  <2>4. ASSUME Pass(r, "zfoe_no_match")
        PROVE  SessionInv'
    <3>1. Save(r, row, "zfoe_no_match")
      BY <2>4 DEF Pass
    <3>2. ZfoeRequestOK("zfoe_no_match", held[r], world) /\ RowLater(row, row)
      BY DEF ZfoeRequestOK, RowLater
    <3>3. ZfoeSoloOK(pc[r], row, world) => ZfoeSoloOK("zfoe_no_match", row, world)
      BY <2>1 DEF ZfoeSoloOK
    <3> QED
      BY <2>1, <2>2, <3>1, <3>2, <3>3, ZfoeSaveInv
  <2> QED
    BY <1>1, <2>3, <2>4 DEF ZfoeGate
<1>2. CASE ZfoeNoMatch(r)
  <2> DEFINE rw == ZfoeSet("FAILED")
  <2>1. pc[r] = "zfoe_no_match" /\ Save(r, rw, "idle")
    BY <1>2 DEF ZfoeNoMatch
  <2>2. /\ row \in ZfoeRows /\ world \in WorldType /\ faults \in Nat
        /\ held[r] \in HeldOf("ZFOE")
        /\ held[r].row \in ZfoeRows \cup {NoValue} /\ held[r].person \in Anyone
        /\ ZfoeRowOK(row, world)
        /\ ZfoeRequestOK(pc[r], held[r], world)
    BY <2>1, ZfoeFacts
  <2>3. rw \in ZfoeRows
    BY <2>2, ZfoeRowFacts DEF ZfoeStatuses
  <2>4. rw.status = "FAILED" /\ rw.subscriber = row.subscriber
    BY <2>2, ZfoeRowFacts DEF ZfoeStatuses
  <2> HIDE DEF rw
  <2>5. ZfoeRowOK(rw, world) /\ RowLater(row, rw)
    BY <2>1, <2>2, <2>4 DEF ZfoeRowOK, ZfoeRequestOK, RowLater
  <2>6. ZfoeRequestOK("idle", held[r], world)
    BY <2>1, <2>2, <2>4 DEF ZfoeRequestOK
  <2>7. ZfoeSoloOK(pc[r], row, world) =>
            ZfoeSoloOK("idle", rw, world)
    BY <2>1, <2>2, <2>4 DEF ZfoeSoloOK
  <2> QED
    BY <2>1, <2>3, <2>5, <2>6, <2>7, ZfoeSaveInv
<1>3. CASE ZfoeBiometricOk(r)
  <2> DEFINE rw == ZfoeSet("BIOMETRIC_OK")
  <2>1. pc[r] = "zfoe_ok" /\ Save(r, rw, "zfoe_claim")
    BY <1>3 DEF ZfoeBiometricOk
  <2>2. /\ row \in ZfoeRows /\ world \in WorldType /\ faults \in Nat
        /\ held[r] \in HeldOf("ZFOE")
        /\ held[r].row \in ZfoeRows \cup {NoValue} /\ held[r].person \in Anyone
        /\ ZfoeRowOK(row, world)
        /\ ZfoeRequestOK(pc[r], held[r], world)
    BY <2>1, ZfoeFacts
  <2>3. rw \in ZfoeRows
    BY <2>2, ZfoeRowFacts DEF ZfoeStatuses
  <2>4. rw.status = "BIOMETRIC_OK" /\ rw.subscriber = row.subscriber
    BY <2>2, ZfoeRowFacts DEF ZfoeStatuses
  <2> HIDE DEF rw
  <2>5. ZfoeRowOK(rw, world) /\ RowLater(row, rw)
    BY <2>1, <2>2, <2>4 DEF ZfoeRowOK, ZfoeRequestOK, RowLater
  <2>6. ZfoeRequestOK("zfoe_claim", held[r], world)
    BY <2>1, <2>2, <2>4 DEF ZfoeRequestOK
  <2>7. ZfoeSoloOK(pc[r], row, world) =>
            ZfoeSoloOK("zfoe_claim", rw, world)
    BY <2>1, <2>2, <2>4 DEF ZfoeSoloOK
  <2> QED
    BY <2>1, <2>3, <2>5, <2>6, <2>7, ZfoeSaveInv
<1>4. CASE ZfoeProvisioning(r)
  <2> DEFINE rw == ZfoeSet("PROVISIONING")
  <2>1. pc[r] = "zfoe_claim" /\ Save(r, rw, "zfoe_push")
    BY <1>4 DEF ZfoeProvisioning
  <2>2. /\ row \in ZfoeRows /\ world \in WorldType /\ faults \in Nat
        /\ held[r] \in HeldOf("ZFOE")
        /\ held[r].row \in ZfoeRows \cup {NoValue} /\ held[r].person \in Anyone
        /\ ZfoeRowOK(row, world)
        /\ ZfoeRequestOK(pc[r], held[r], world)
    BY <2>1, ZfoeFacts
  <2>3. rw \in ZfoeRows
    BY <2>2, ZfoeRowFacts DEF ZfoeStatuses
  <2>4. rw.status = "PROVISIONING" /\ rw.subscriber = row.subscriber
    BY <2>2, ZfoeRowFacts DEF ZfoeStatuses
  <2> HIDE DEF rw
  <2>5. ZfoeRowOK(rw, world) /\ RowLater(row, rw)
    BY <2>1, <2>2, <2>4 DEF ZfoeRowOK, ZfoeRequestOK, RowLater
  <2>6. ZfoeRequestOK("zfoe_push", held[r], world)
    BY <2>1, <2>2, <2>4 DEF ZfoeRequestOK
  <2>7. ZfoeSoloOK(pc[r], row, world) =>
            ZfoeSoloOK("zfoe_push", rw, world)
    BY <2>1, <2>2, <2>4 DEF ZfoeSoloOK
  <2> QED
    BY <2>1, <2>3, <2>5, <2>6, <2>7, ZfoeSaveInv
<1> QED
  BY <1>1, <1>2, <1>3, <1>4

\* The bank and the record of its answer.
LEMMA ZfoePushInv ==
    ASSUME SessionInv, service = "ZFOE", NEW r \in Requests,
           ZfoePush(r) \/ ZfoeComplete(r) \/ ZfoeAnswer(r)
    PROVE  SessionInv'
<1> USE DEF LabelsOf, ZfoeLabels, Reporting
<1>1. CASE ZfoePush(r)
  <2> DEFINE p == held[r].row.subscriber
             w == Serve(p)
  <2>1. pc[r] = "zfoe_push"
    BY <1>1 DEF ZfoePush
  <2>2. /\ row \in ZfoeRows /\ world \in WorldType /\ faults \in Nat
        /\ held[r] \in HeldOf("ZFOE")
        /\ ZfoeRowOK(row, world) /\ ZfoeRequestOK(pc[r], held[r], world)
        /\ Evidenced(row, world, overlapped)
    BY <2>1, ZfoeFacts
  <2>3. p \in Anyone /\ world.shown # {}
    BY <2>1, <2>2 DEF ZfoeRequestOK, ZfoeRows
  <2>4. /\ w \in WorldType /\ WorldLater(world, w)
        /\ w.done = world.done + 1 /\ w.told = world.told
        /\ w.repeats = world.repeats /\ w.excused = world.excused
    BY <2>2, <2>3, ServeFacts
  <2>5. Evidenced(row, w, overlapped)
    <3>1. Required = {}
      BY DEF Required
    <3> QED
      BY <2>2, <2>3, <3>1, EvidenceServed
  <2>6. world.done \in Nat /\ world.told \in Nat
    BY <2>2 DEF WorldType
  <2>7. ASSUME Act(r, w, "zfoe_complete")
        PROVE  SessionInv'
    <3> HIDE DEF w
    <3>1. ZfoeRowOK(row, w) /\ ZfoeRequestOK("zfoe_complete", held[r], w)
      BY <2>4, <2>6 DEF ZfoeRowOK, ZfoeRequestOK
    <3>2. ZfoeSoloOK(pc[r], row, world) => ZfoeSoloOK("zfoe_complete", row, w)
      BY <2>1, <2>4 DEF ZfoeSoloOK
    <3>3. Balanced(r, "zfoe_complete", w, faults)
      BY <2>1, <2>4, <2>6 DEF Balanced, Rep
    <3> QED
      BY <2>1, <2>2, <2>4, <2>5, <2>7, <3>1, <3>2, <3>3, ZfoeActInv DEF Act
  <2>8. ASSUME Act(r, Refusal, "idle")
        PROVE  SessionInv'
    <3>1. /\ Refusal \in WorldType /\ WorldLater(world, Refusal)
          /\ Refusal.done = world.done /\ Refusal.told = world.told
          /\ Refusal.served = world.served /\ Refusal.repeats = world.repeats
          /\ Refusal.excused = world.excused
      BY <2>2, RefusalFacts
    <3>2. Evidenced(row, Refusal, overlapped)
      BY <2>2, <3>1, EvidenceKept
    <3>3. ZfoeRowOK(row, Refusal) /\ ZfoeRequestOK("idle", held[r], Refusal)
      BY <2>2, <3>1 DEF ZfoeRowOK, ZfoeRequestOK
    <3>4. ZfoeSoloOK(pc[r], row, world) => ZfoeSoloOK("idle", row, Refusal)
      BY <2>1, <3>1 DEF ZfoeSoloOK
    <3>5. Balanced(r, "idle", Refusal, faults)
      BY <2>1, <3>1 DEF Balanced, Rep
    <3> QED
      BY <2>1, <2>2, <2>8, <3>1, <3>2, <3>3, <3>4, <3>5, ZfoeActInv DEF Act
  <2>9. ASSUME Fault(r, "idle", w)
        PROVE  SessionInv'
    <3> HIDE DEF w
    <3>1. RowOK(row, w, faults + 1)
      BY <2>4, <2>6 DEF RowOK, ZfoeRowOK
    <3>2. SoloOK(pc[r], held[r], row, world, faults) =>
              SoloOK("idle", held[r], row, w, faults + 1)
      BY <2>1, <2>4 DEF SoloOK, ZfoeSoloOK
    <3> QED
      BY <2>1, <2>4, <2>5, <2>9, <3>1, <3>2, FaultInv
  <2> QED
    BY <1>1, <2>7, <2>8, <2>9 DEF ZfoePush, PushToCbs, Refusal
<1>2. CASE ZfoeComplete(r)
  <2> DEFINE rw == ZfoeSet("COMPLETED")
  <2>1. pc[r] = "zfoe_complete" /\ Save(r, rw, "zfoe_audit")
    BY <1>2 DEF ZfoeComplete
  <2>2. /\ row \in ZfoeRows /\ world \in WorldType /\ faults \in Nat
        /\ held[r] \in HeldOf("ZFOE")
        /\ held[r].row \in ZfoeRows \cup {NoValue} /\ held[r].person \in Anyone
        /\ ZfoeRowOK(row, world)
        /\ ZfoeRequestOK(pc[r], held[r], world)
    BY <2>1, ZfoeFacts
  <2>3. rw \in ZfoeRows
    BY <2>2, ZfoeRowFacts DEF ZfoeStatuses
  <2>4. rw.status = "COMPLETED" /\ rw.subscriber = row.subscriber
    BY <2>2, ZfoeRowFacts DEF ZfoeStatuses
  <2> HIDE DEF rw
  <2>5. ZfoeRowOK(rw, world) /\ RowLater(row, rw)
    BY <2>1, <2>2, <2>4 DEF ZfoeRowOK, ZfoeRequestOK, RowLater
  <2>6. ZfoeRequestOK("zfoe_audit", held[r], world)
    BY <2>1, <2>2, <2>4 DEF ZfoeRequestOK
  <2>7. ZfoeSoloOK(pc[r], row, world) =>
            ZfoeSoloOK("zfoe_audit", rw, world)
    BY <2>1, <2>2, <2>4 DEF ZfoeSoloOK
  <2> QED
    BY <2>1, <2>3, <2>5, <2>6, <2>7, ZfoeSaveInv
<1>3. CASE ZfoeAnswer(r)
  <2>1. pc[r] = "zfoe_audit" /\ Act(r, Tell, "idle")
    BY <1>3 DEF ZfoeAnswer
  <2>2. /\ row \in ZfoeRows /\ world \in WorldType /\ held[r] \in HeldOf("ZFOE")
        /\ ZfoeRowOK(row, world) /\ Evidenced(row, world, overlapped)
    BY <2>1, ZfoeFacts
  <2>3. /\ Tell \in WorldType /\ WorldLater(world, Tell)
        /\ Tell.done = world.done /\ Tell.told = world.told + 1
        /\ Tell.served = world.served /\ Tell.repeats = world.repeats
    BY <2>2, TellFacts
  <2>4. Evidenced(row, Tell, overlapped)
    BY <2>2, <2>3, EvidenceKept
  <2>5. ZfoeRowOK(row, Tell) /\ ZfoeRequestOK("idle", held[r], Tell)
    BY <2>2, <2>3 DEF ZfoeRowOK, ZfoeRequestOK
  <2>6. ZfoeSoloOK(pc[r], row, world) => ZfoeSoloOK("idle", row, Tell)
    BY <2>1, <2>3 DEF ZfoeSoloOK
  <2>7. world.done \in Nat /\ world.told \in Nat
    BY <2>2 DEF WorldType
  <2>8. Balanced(r, "idle", Tell, faults)
    BY <2>1, <2>3, <2>7 DEF Balanced, Rep
  <2> QED
    BY <2>1, <2>2, <2>3, <2>4, <2>5, <2>6, <2>8, ZfoeActInv DEF Act
<1> QED
  BY <1>1, <1>2, <1>3

LEMMA ZfoeBegins ==
    ASSUME SessionInv, service = "ZFOE", NEW r \in Requests, ZfoeCall(r)
    PROVE  SessionInv'
<1>1. row \in ZfoeRows
  BY DEF SessionInv, Typed, RowsOf
<1>2. Checked \in HeldOf(service) /\ Loaded \in HeldOf(service)
  BY <1>1 DEF Checked, Loaded, HeldOf, RowsOf, Anyone
<1>3. Loaded.row = row
  BY DEF Loaded
<1>4. ASSUME NEW label \in ZfoeLabels, NEW loaded \in HeldOf(service),
             Begin(r, label, loaded), label \notin Reporting,
             ZfoeRequestOK(label, loaded, world),
             ZfoeSoloOK("idle", row, world) => ZfoeSoloOK(label, row, world)
      PROVE  SessionInv'
  <2>1. label \in LabelsOf(service) /\ label # "idle"
    BY <1>4 DEF LabelsOf, ZfoeLabels
  <2>2. RequestOK(label, loaded, row, world, faults)
    BY <1>4 DEF RequestOK
  <2>3. SoloOK("idle", NoValue, row, world, faults) =>
            SoloOK(label, loaded, row, world, faults)
    BY <1>4 DEF SoloOK
  <2> QED
    BY <1>4, <2>1, <2>2, <2>3, BeginInv
<1> USE DEF ZfoeLabels, Reporting
<1>5. CASE ZfoeHarvest(r)
  <2>1. row.status = "NONE" /\ Begin(r, "zfoe_create", Checked)
    BY <1>5 DEF ZfoeHarvest
  <2>2. ZfoeRequestOK("zfoe_create", Checked, world)
    BY <1>1, <1>3 DEF ZfoeRequestOK
  <2>3. ZfoeSoloOK("idle", row, world) => ZfoeSoloOK("zfoe_create", row, world)
    BY <2>1 DEF ZfoeSoloOK
  <2> QED
    BY <1>2, <1>4, <2>1, <2>2, <2>3
<1>6. CASE ZfoeSelectBank(r)
  <2>1. row.status = "IDENTITY_FETCHED" /\ Begin(r, "zfoe_select", Checked)
    BY <1>6 DEF ZfoeSelectBank
  <2>2. ZfoeRequestOK("zfoe_select", Checked, world)
    BY <1>1, <1>3 DEF ZfoeRequestOK
  <2>3. ZfoeSoloOK("idle", row, world) => ZfoeSoloOK("zfoe_select", row, world)
    BY <2>1 DEF ZfoeSoloOK
  <2> QED
    BY <1>2, <1>4, <2>1, <2>2, <2>3
<1>7. CASE ZfoeAuthorize(r)
  <2>1. row.status = "BANK_SELECTED" /\ Begin(r, "zfoe_gate", Loaded)
    BY <1>7 DEF ZfoeAuthorize
  <2>2. ZfoeRequestOK("zfoe_gate", Loaded, world)
    BY <1>1, <1>3 DEF ZfoeRequestOK
  <2>3. ZfoeSoloOK("idle", row, world) => ZfoeSoloOK("zfoe_gate", row, world)
    BY <2>1 DEF ZfoeSoloOK
  <2> QED
    BY <1>2, <1>4, <2>1, <2>2, <2>3
<1> QED
  BY <1>5, <1>6, <1>7 DEF ZfoeCall

-----------------------------------------------------------------------------
(* ZFPS                                                                    *)

LEMMA ZfpsRowFacts ==
    ASSUME row \in ZfpsRows
    PROVE  /\ \A b \in BOOLEAN :
                  /\ [row EXCEPT !.vault = b] \in ZfpsRows
                  /\ [row EXCEPT !.vault = b].status = row.status
                  /\ [row EXCEPT !.smsDelivered = b] \in ZfpsRows
                  /\ [row EXCEPT !.smsDelivered = b].status = row.status
           /\ \A s \in {"COMPLETED", "FAILED", "VAULT_EXPIRED"} :
                  /\ [row EXCEPT !.status = s] \in ZfpsRows
                  /\ [row EXCEPT !.status = s].status = s
BY DEF ZfpsRows

\* What a ZFPS request under way knows.
LEMMA ZfpsFacts ==
    ASSUME SessionInv, service = "ZFPS", NEW r \in Requests, pc[r] # "idle"
    PROVE  /\ row \in ZfpsRows /\ world \in WorldType /\ faults \in Nat
           /\ world.done \in Nat /\ world.told \in Nat /\ world.repeats \in Nat
           /\ held[r] \in HeldOf("ZFPS")
           /\ ZfpsRowOK(row, world, faults)
           /\ ZfpsRequestOK(pc[r], world, faults)
<1>1. /\ held[r] \in HeldOf(service)
      /\ row \in RowsOf(service) /\ world \in WorldType /\ faults \in Nat
      /\ RowOK(row, world, faults)
      /\ RequestOK(pc[r], held[r], row, world, faults)
  BY UnderWayFacts
<1>2. world.done \in Nat /\ world.told \in Nat /\ world.repeats \in Nat
  BY <1>1 DEF WorldType
<1> QED
  BY <1>1, <1>2 DEF RowsOf, RowOK, RequestOK

\* Nothing need be shown to ZFPS.
LEMMA ZfpsEvidence ==
    ASSUME service = "ZFPS", NEW rw, NEW w
    PROVE  Evidenced(rw, w, overlapped)
BY DEF Evidenced, Required

LEMMA ZfpsStepInv ==
    ASSUME SessionInv, service = "ZFPS", NEW r \in Requests, pc[r] # "idle",
           NEW label \in {"idle"} \cup LabelsOf("ZFPS"), NEW rw \in ZfpsRows,
           NEW w \in WorldType, Step(r, label, held[r], rw, w),
           WorldLater(world, w), Balanced(r, label, w, faults),
           ZfpsRowOK(rw, w, faults), ZfpsRequestOK(label, w, faults),
           world.repeats = 0 /\ ZfpsSoloOK(pc[r], row) =>
               w.repeats = 0 /\ ZfpsSoloOK(label, rw)
    PROVE  SessionInv'
<1>1. Moved(r, label, held[r], rw, w, faults)
  BY StepMoved
<1>2. held[r] \in HeldOf(service) /\ faults \in Nat
  BY UnderWayFacts
<1>3. MoveTyped(label, held[r], rw, w, faults)
  BY <1>2 DEF MoveTyped, RowsOf
<1>4. /\ RowLater(row, rw) /\ Evidenced(rw, w, overlapped)
      /\ RowOK(rw, w, faults) /\ RequestOK(label, held[r], rw, w, faults)
  BY ZfpsEvidence DEF RowLater, RowOK, RequestOK
<1>5. SoloOK(pc[r], held[r], row, world, faults) =>
          SoloOK(label, held[r], rw, w, faults)
  BY DEF SoloOK
<1>6. MoveOK(r, label, held[r], rw, w, faults)
  BY <1>4, <1>5 DEF MoveOK
<1> QED
  BY <1>1, <1>3, <1>6, MoveInv

\* A step that leaves the world alone.
LEMMA ZfpsSaveInv ==
    ASSUME SessionInv, service = "ZFPS", NEW r \in Requests, pc[r] # "idle",
           NEW label \in {"idle"} \cup LabelsOf("ZFPS"), NEW rw \in ZfpsRows,
           Save(r, rw, label), label \in Reporting <=> pc[r] \in Reporting,
           ZfpsRowOK(rw, world, faults), ZfpsRequestOK(label, world, faults),
           ZfpsSoloOK(label, rw)
    PROVE  SessionInv'
<1>1. Balanced(r, label, world, faults)
  BY DEF Balanced, Rep
<1> QED
  BY <1>1, ZfpsFacts, WorldStays, ZfpsStepInv DEF Save

\* A step that goes wrong.
LEMMA ZfpsFaultInv ==
    ASSUME SessionInv, service = "ZFPS", NEW r \in Requests, pc[r] # "idle",
           NEW w \in WorldType, Fault(r, "zfps_refused", w),
           WorldLater(world, w), w.repeats = world.repeats
    PROVE  SessionInv'
<1>1. /\ faults \in Nat /\ world \in WorldType /\ w.done \in Nat
      /\ world.done \in Nat /\ ZfpsRowOK(row, world, faults)
  BY ZfpsFacts DEF WorldType
<1>2. faults + 1 > 0
  BY <1>1
<1>3. RowOK(row, w, faults + 1)
  BY <1>1, <1>2 DEF RowOK, ZfpsRowOK, WorldLater
<1>4. RequestOK("zfps_refused", held[r], row, w, faults + 1)
  BY <1>2 DEF RequestOK, ZfpsRequestOK
<1>5. SoloOK(pc[r], held[r], row, world, faults) =>
          SoloOK("zfps_refused", held[r], row, w, faults + 1)
  BY DEF SoloOK, ZfpsSoloOK
<1>6. "zfps_refused" \in {"idle"} \cup LabelsOf(service)
  BY DEF LabelsOf, ZfpsLabels
<1> QED
  BY <1>3, <1>4, <1>5, <1>6, ZfpsEvidence, FaultInv

\* Staging, and the bank.
LEMMA ZfpsPushInv ==
    ASSUME SessionInv, service = "ZFPS", NEW r \in Requests,
           ZfpsStage(r) \/ ZfpsPush(r)
    PROVE  SessionInv'
<1> USE DEF LabelsOf, ZfpsLabels, Reporting
<1>1. CASE ZfpsStage(r)
  <2> DEFINE rw == [row EXCEPT !.vault = TRUE]
  <2>1. PICK next \in {"zfps_push", "idle"} : Save(r, rw, next)
    BY <1>1 DEF ZfpsStage
  <2>2. pc[r] = "zfps_stage"
    BY <1>1 DEF ZfpsStage
  <2>3. rw \in ZfpsRows /\ rw.status = row.status
    BY <2>2, ZfpsFacts, ZfpsRowFacts
  <2> HIDE DEF rw
  <2>4. ZfpsRowOK(rw, world, faults)
    BY <2>2, <2>3, ZfpsFacts DEF ZfpsRowOK
  <2>5. ZfpsRequestOK(next, world, faults) /\ ZfpsSoloOK(next, rw)
    BY DEF ZfpsRequestOK, ZfpsSoloOK
  <2> QED
    BY <2>1, <2>2, <2>3, <2>4, <2>5, ZfpsSaveInv
<1>2. CASE ZfpsPush(r)
  <2> DEFINE w == Serve(NoOne)
  <2>1. pc[r] = "zfps_push"
    BY <1>2 DEF ZfpsPush
  <2>2. /\ row \in ZfpsRows /\ world \in WorldType /\ faults \in Nat
        /\ world.done \in Nat /\ world.told \in Nat
        /\ ZfpsRowOK(row, world, faults)
    BY <2>1, ZfpsFacts
  <2>3. /\ w \in WorldType /\ WorldLater(world, w)
        /\ w.done = world.done + 1 /\ w.told = world.told
        /\ w.repeats = world.repeats
    BY <2>2, ServeFacts DEF Anyone
  <2>4. ASSUME Act(r, w, "zfps_monitor")
        PROVE  SessionInv'
    <3> HIDE DEF w
    <3>1. ZfpsRowOK(row, w, faults) /\ ZfpsRequestOK("zfps_monitor", w, faults)
      BY <2>2, <2>3 DEF ZfpsRowOK, ZfpsRequestOK, WorldLater
    <3>2. Balanced(r, "zfps_monitor", w, faults)
      BY <2>1, <2>2, <2>3 DEF Balanced, Rep
    <3>3. ZfpsSoloOK("zfps_monitor", row)
      BY DEF ZfpsSoloOK
    <3> QED
      BY <2>1, <2>2, <2>3, <2>4, <3>1, <3>2, <3>3, ZfpsStepInv DEF Act
  <2>5. ASSUME Act(r, Refusal, "zfps_refused")
        PROVE  SessionInv'
    <3>1. /\ Refusal \in WorldType /\ WorldLater(world, Refusal)
          /\ Refusal.done = world.done /\ Refusal.told = world.told
          /\ Refusal.repeats = world.repeats /\ Refusal.refused
      BY <2>2, RefusalFacts
    <3>2. /\ ZfpsRowOK(row, Refusal, faults)
          /\ ZfpsRequestOK("zfps_refused", Refusal, faults)
      BY <2>2, <3>1 DEF ZfpsRowOK, ZfpsRequestOK
    <3>3. Balanced(r, "zfps_refused", Refusal, faults)
      BY <2>1, <3>1 DEF Balanced, Rep
    <3>4. ZfpsSoloOK("zfps_refused", row)
      BY DEF ZfpsSoloOK
    <3> QED
      BY <2>1, <2>2, <2>5, <3>1, <3>2, <3>3, <3>4, ZfpsStepInv DEF Act
  <2>6. ASSUME Fault(r, "zfps_refused", w)
        PROVE  SessionInv'
    BY <2>1, <2>3, <2>6, ZfpsFaultInv
  <2> QED
    BY <1>2, <2>4, <2>5, <2>6 DEF ZfpsPush, PushToCbs, Refusal
<1> QED
  BY <1>1, <1>2

\* The latency monitor.  What it throws makes the outcome a refusal.
LEMMA ZfpsMonitorInv ==
    ASSUME SessionInv, service = "ZFPS", NEW r \in Requests,
           ZfpsMonitor(r) \/ ZfpsFlag(r) \/ ZfpsMonitorThrows(r)
    PROVE  SessionInv'
<1> USE DEF LabelsOf, ZfpsLabels, Reporting
<1>1. CASE ZfpsMonitor(r)
  <2>1. pc[r] = "zfps_monitor"
    BY <1>1 DEF ZfpsMonitor
  <2>2. PICK next \in {"zfps_flag", "zfps_opened"} :
            Save(r, row, next) /\ ZfpsSoloOK(next, row)
    BY <1>1 DEF ZfpsMonitor, Pass, ZfpsSoloOK
  <2>3. ZfpsRequestOK(next, world, faults)
    BY <2>1, ZfpsFacts DEF ZfpsRequestOK
  <2> QED
    BY <2>1, <2>2, <2>3, ZfpsFacts, ZfpsSaveInv
<1>2. CASE ZfpsFlag(r)
  <2> DEFINE rw == [row EXCEPT !.recent = @ + 1]
             again == IF row.recent > 0 THEN 1 ELSE 0
             w == [world EXCEPT !.repeats = @ + again]
  <2>1. pc[r] = "zfps_flag" /\ Step(r, "zfps_opened", held[r], rw, w)
    BY <1>2 DEF ZfpsFlag
  <2>2. /\ row \in ZfpsRows /\ world \in WorldType /\ faults \in Nat
        /\ world.done \in Nat /\ world.told \in Nat /\ world.repeats \in Nat
        /\ ZfpsRowOK(row, world, faults) /\ ZfpsRequestOK(pc[r], world, faults)
    BY <2>1, ZfpsFacts
  <2>3. rw \in ZfpsRows /\ rw.status = row.status
    BY <2>2 DEF ZfpsRows
  <2>4. again \in Nat /\ (row.recent = 0 => again = 0)
    BY <2>2 DEF ZfpsRows
  <2>5. w \in WorldType
    BY <2>2, <2>4 DEF WorldType
  <2>6. /\ w.done = world.done /\ w.told = world.told /\ w.shown = world.shown
        /\ w.refused = world.refused /\ w.excused = world.excused
        /\ w.repeats = world.repeats + again
    BY <2>2 DEF WorldType
  <2> HIDE DEF rw, w, again
  <2>7. WorldLater(world, w)
    BY <2>2, <2>6 DEF WorldLater
  <2>8. ZfpsRowOK(rw, w, faults) /\ ZfpsRequestOK("zfps_opened", w, faults)
    BY <2>1, <2>2, <2>3, <2>6 DEF ZfpsRowOK, ZfpsRequestOK
  <2>9. world.repeats = 0 /\ ZfpsSoloOK(pc[r], row) =>
            w.repeats = 0 /\ ZfpsSoloOK("zfps_opened", rw)
    BY <2>1, <2>4, <2>6 DEF ZfpsSoloOK
  <2>10. Balanced(r, "zfps_opened", w, faults)
    BY <2>1, <2>6 DEF Balanced, Rep
  <2> QED
    BY <2>1, <2>3, <2>5, <2>7, <2>8, <2>9, <2>10, ZfpsStepInv
<1>3. CASE ZfpsMonitorThrows(r)
  <2>1. pc[r] # "idle" /\ Fault(r, "zfps_refused", Excuse)
    BY <1>3 DEF ZfpsMonitorThrows
  <2> QED
    BY <2>1, ZfpsFacts, ExcuseFacts, ZfpsFaultInv
<1> QED
  BY <1>1, <1>2, <1>3

\* The vault is emptied, and the outcome recorded.
LEMMA ZfpsOutcomeInv ==
    ASSUME SessionInv, service = "ZFPS", NEW r \in Requests,
           ZfpsInvalidateVault(r) \/ ZfpsRecord(r)
    PROVE  SessionInv'
<1> USE DEF LabelsOf, ZfpsLabels, Reporting
<1>1. CASE ZfpsInvalidateVault(r)
  <2> DEFINE rw == [row EXCEPT !.vault = FALSE]
  <2>1. pc[r] \in {"zfps_opened", "zfps_refused"}
    BY <1>1 DEF ZfpsInvalidateVault
  <2>2. /\ row \in ZfpsRows /\ world \in WorldType /\ faults \in Nat
        /\ ZfpsRowOK(row, world, faults) /\ ZfpsRequestOK(pc[r], world, faults)
    BY <2>1, ZfpsFacts
  <2>3. rw \in ZfpsRows /\ rw.status = row.status
    BY <2>2, ZfpsRowFacts
  <2>4. ASSUME NEW next \in {"zfps_completed", "zfps_failed"}, Save(r, rw, next),
               next = "zfps_completed" <=> pc[r] = "zfps_opened"
        PROVE  SessionInv'
    <3> HIDE DEF rw
    <3>1. ZfpsRowOK(rw, world, faults) /\ ZfpsRequestOK(next, world, faults)
      BY <2>1, <2>2, <2>3, <2>4 DEF ZfpsRowOK, ZfpsRequestOK
    <3>2. ZfpsSoloOK(next, rw)
      BY DEF ZfpsSoloOK
    <3> QED
      BY <2>1, <2>3, <2>4, <3>1, <3>2, ZfpsSaveInv
  <2>5. ASSUME Step(r, "zfps_expired", held[r], rw, Excuse)
        PROVE  SessionInv'
    <3> HIDE DEF rw
    <3>1. /\ Excuse \in WorldType /\ WorldLater(world, Excuse)
          /\ Excuse.done = world.done /\ Excuse.repeats = world.repeats
          /\ Excuse.excused
      BY <2>2, ExcuseFacts
    <3>2. ZfpsRowOK(rw, Excuse, faults) /\ ZfpsRequestOK("zfps_expired", Excuse, faults)
      BY <2>2, <2>3, <3>1 DEF ZfpsRowOK, ZfpsRequestOK, WorldLater
    <3>3. ZfpsSoloOK("zfps_expired", rw)
      BY DEF ZfpsSoloOK
    <3>4. Balanced(r, "zfps_expired", Excuse, faults)
      BY <3>1 DEF Balanced
    <3> QED
      BY <2>1, <2>3, <2>5, <3>1, <3>2, <3>3, <3>4, ZfpsStepInv
  <2> QED
    BY <1>1, <2>4, <2>5 DEF ZfpsInvalidateVault
<1>2. CASE ZfpsRecord(r)
  <2>1. PICK s \in {"COMPLETED", "FAILED", "VAULT_EXPIRED"},
             next \in {"zfps_text", "idle"} :
            /\ Save(r, [row EXCEPT !.status = s], next)
            /\ pc[r] \in {"zfps_completed", "zfps_failed", "zfps_expired"}
            /\ s = "COMPLETED" <=> pc[r] = "zfps_completed"
            /\ s = "FAILED" <=> pc[r] = "zfps_failed"
            /\ next = "zfps_text" <=> pc[r] = "zfps_completed"
    BY <1>2 DEF ZfpsRecord
  <2> DEFINE rw == [row EXCEPT !.status = s]
  <2>2. /\ row \in ZfpsRows /\ ZfpsRequestOK(pc[r], world, faults)
    BY <2>1, ZfpsFacts
  <2>3. rw \in ZfpsRows /\ rw.status = s /\ Save(r, rw, next)
    BY <2>1, <2>2, ZfpsRowFacts
  <2> HIDE DEF rw
  <2>4. ZfpsRowOK(rw, world, faults) /\ ZfpsRequestOK(next, world, faults)
    BY <2>1, <2>2, <2>3 DEF ZfpsRowOK, ZfpsRequestOK
  <2>5. ZfpsSoloOK(next, rw)
    BY DEF ZfpsSoloOK
  <2> QED
    BY <2>1, <2>3, <2>4, <2>5, ZfpsSaveInv
<1> QED
  BY <1>1, <1>2

\* The customer is told, or the text could not be sent.
LEMMA ZfpsSmsInv ==
    ASSUME SessionInv, service = "ZFPS", NEW r \in Requests,
           ZfpsSendSms(r) \/ ZfpsSmsRecorded(r)
    PROVE  SessionInv'
<1> USE DEF LabelsOf, ZfpsLabels, Reporting
<1>1. CASE ZfpsSendSms(r)
  <2>1. pc[r] = "zfps_text"
    BY <1>1 DEF ZfpsSendSms
  <2>2. /\ row \in ZfpsRows /\ world \in WorldType /\ world.done \in Nat
        /\ world.told \in Nat /\ ZfpsRowOK(row, world, faults)
    BY <2>1, ZfpsFacts
  <2>3. ASSUME NEW w \in WorldType, NEW next \in {"zfps_sent", "zfps_unsent"},
               Act(r, w, next), WorldLater(world, w), w.done = world.done,
               w.repeats = world.repeats,
               w.excused \/ w.told = world.told + 1
        PROVE  SessionInv'
    <3>1. ZfpsRowOK(row, w, faults) /\ ZfpsRequestOK(next, w, faults)
      BY <2>2, <2>3 DEF ZfpsRowOK, ZfpsRequestOK, WorldLater
    <3>2. ZfpsSoloOK(next, row)
      BY DEF ZfpsSoloOK
    <3>3. Balanced(r, next, w, faults)
      BY <2>1, <2>2, <2>3 DEF Balanced, Rep
    <3> QED
      BY <2>1, <2>2, <2>3, <3>1, <3>2, <3>3, ZfpsStepInv DEF Act
  <2>4. ASSUME Act(r, Tell, "zfps_sent")
        PROVE  SessionInv'
    BY <2>2, <2>3, <2>4, TellFacts
  <2>5. ASSUME Act(r, Excuse, "zfps_unsent")
        PROVE  SessionInv'
    BY <2>2, <2>3, <2>5, ExcuseFacts
  <2> QED
    BY <1>1, <2>4, <2>5 DEF ZfpsSendSms
<1>2. CASE ZfpsSmsRecorded(r)
  <2> DEFINE sent == pc[r] = "zfps_sent"
             rw == [row EXCEPT !.smsDelivered = sent]
  <2>1. pc[r] \in {"zfps_sent", "zfps_unsent"} /\ Save(r, rw, "idle")
    BY <1>2 DEF ZfpsSmsRecorded
  <2>2. row \in ZfpsRows /\ ZfpsRowOK(row, world, faults)
    BY <2>1, ZfpsFacts
  <2>3. sent \in BOOLEAN
    OBVIOUS
  <2> HIDE DEF sent
  <2>4. rw \in ZfpsRows /\ rw.status = row.status
    BY <2>2, <2>3, ZfpsRowFacts
  <2> HIDE DEF rw
  <2>5. ZfpsRowOK(rw, world, faults) /\ ZfpsRequestOK("idle", world, faults)
    BY <2>2, <2>4 DEF ZfpsRowOK, ZfpsRequestOK
  <2>6. ZfpsSoloOK("idle", rw)
    BY DEF ZfpsSoloOK
  <2> QED
    BY <2>1, <2>4, <2>5, <2>6, ZfpsSaveInv
<1> QED
  BY <1>1, <1>2

LEMMA ZfpsBegins ==
    ASSUME SessionInv, NEW r \in Requests, ZfpsProvision(r)
    PROVE  SessionInv'
<1>1. service = "ZFPS" /\ Begin(r, "zfps_stage", Checked)
  BY DEF ZfpsProvision
<1>2. row \in ZfpsRows
  BY <1>1 DEF SessionInv, Typed, RowsOf
<1>3. Checked \in HeldOf(service)
  BY <1>1, <1>2 DEF Checked, Loaded, HeldOf, RowsOf, Anyone
<1>4. "zfps_stage" \in LabelsOf(service) /\ "zfps_stage" \notin Reporting
  BY <1>1 DEF LabelsOf, ZfpsLabels, Reporting
<1>5. RequestOK("zfps_stage", Checked, row, world, faults)
  BY <1>1 DEF RequestOK, ZfpsRequestOK
<1>6. SoloOK("idle", NoValue, row, world, faults) =>
          SoloOK("zfps_stage", Checked, row, world, faults)
  BY <1>1 DEF SoloOK, ZfpsSoloOK
<1> QED
  BY <1>1, <1>3, <1>4, <1>5, <1>6, BeginInv

\* What no request does: it ends no more than an entry or a flag's hour.
LEMMA ZfpsOutsideInv ==
    ASSUME SessionInv, service = "ZFPS", NEW rw \in ZfpsRows, Outside(rw, world),
           rw.status = row.status, row.recent = 0 => rw.recent = 0
    PROVE  SessionInv'
<1>1. /\ row \in ZfpsRows /\ world \in WorldType /\ overlapped \in BOOLEAN
      /\ ZfpsRowOK(row, world, faults)
  BY DEF SessionInv, Typed, RowsOf, RowOK
<1>2. Still(rw, world) /\ overlapped' = overlapped
  BY DEF Outside, Still
<1>3. rw \in RowsOf(service) /\ RowLater(row, rw)
  BY DEF RowsOf, RowLater
<1>4. RowOK(rw, world, faults)
  BY <1>1 DEF RowOK, ZfpsRowOK
<1>5. Evidenced(rw, world, overlapped)
  BY ZfpsEvidence
<1>6. \A l, h : SoloOK(l, h, row, world, faults) => SoloOK(l, h, rw, world, faults)
  BY DEF SoloOK, ZfpsSoloOK
<1>7. SensorOK'
  BY <1>2 DEF Still, SensorOK
<1> QED
  BY <1>1, <1>2, <1>3, <1>4, <1>5, <1>6, <1>7, WorldStays, StillInv

LEMMA ZfpsVaultInv ==
    ASSUME SessionInv, ZfpsVaultExpires
    PROVE  SessionInv'
<1> DEFINE rw == [row EXCEPT !.vault = FALSE]
<1>1. service = "ZFPS" /\ Outside(rw, world)
  BY DEF ZfpsVaultExpires
<1>2. row \in ZfpsRows
  BY <1>1 DEF SessionInv, Typed, RowsOf
<1>3. rw \in ZfpsRows /\ rw.status = row.status /\ rw.recent = row.recent
  BY <1>2 DEF ZfpsRows
<1> HIDE DEF rw
<1> QED
  BY <1>1, <1>3, ZfpsOutsideInv

LEMMA ZfpsWindowInv ==
    ASSUME SessionInv, ZfpsFlagLeavesWindow
    PROVE  SessionInv'
<1> DEFINE n == row.recent - 1
           rw == [row EXCEPT !.recent = n]
<1>1. service = "ZFPS" /\ row.recent > 0 /\ Outside(rw, world)
  BY DEF ZfpsFlagLeavesWindow
<1>2. row \in ZfpsRows /\ row.recent \in Nat
  BY <1>1 DEF SessionInv, Typed, RowsOf, ZfpsRows
<1>3. n \in Nat
  BY <1>1, <1>2
<1> HIDE DEF n
<1>4. rw \in ZfpsRows /\ rw.status = row.status
  BY <1>2, <1>3 DEF ZfpsRows
<1>5. row.recent # 0
  BY <1>1, <1>2
<1> HIDE DEF rw
<1> QED
  BY <1>1, <1>4, <1>5, ZfpsOutsideInv

-----------------------------------------------------------------------------
(* LBAS: the challenge                                                     *)

LEMMA LbasRowFacts ==
    ASSUME row \in LbasRows
    PROVE  \A s \in {"COMPLETED", "FAILED", "EXPIRED"} :
               /\ LbasSet(s) \in LbasRows /\ LbasSet(s).status = s
               /\ LbasSet(s).customer = row.customer /\ LbasSet(s).late = row.late
BY DEF LbasSet, LbasRows

\* What an LBAS request under way knows.
LEMMA LbasFacts ==
    ASSUME SessionInv, service = "LBAS", NEW r \in Requests, pc[r] # "idle"
    PROVE  /\ row \in LbasRows /\ world \in WorldType /\ faults \in Nat
           /\ world.done \in Nat /\ world.told \in Nat
           /\ held[r] \in HeldOf("LBAS")
           /\ pc[r] \in LbasLabels \ SensorLabels
           /\ LbasRowOK(row) /\ LbasRequestOK(pc[r], held[r], row, world)
           /\ Evidenced(row, world, overlapped)
<1>1. /\ held[r] \in HeldOf(service) /\ pc[r] \in LabelsOf(service)
      /\ row \in RowsOf(service) /\ world \in WorldType /\ faults \in Nat
      /\ Evidenced(row, world, overlapped)
      /\ RowOK(row, world, faults)
      /\ RequestOK(pc[r], held[r], row, world, faults)
  BY UnderWayFacts
<1>2. world.done \in Nat /\ world.told \in Nat
  BY <1>1 DEF WorldType
<1> QED
  BY <1>1, <1>2 DEF RowsOf, LabelsOf, RowOK, RequestOK

LEMMA LbasSaveInv ==
    ASSUME SessionInv, service = "LBAS", NEW r \in Requests, pc[r] # "idle",
           NEW label \in {"idle"} \cup (LbasLabels \ SensorLabels), NEW rw \in LbasRows,
           Save(r, rw, label), row.late => rw.late,
           LbasRowOK(rw), LbasRequestOK(label, held[r], rw, world),
           LbasSoloOK(pc[r], row, world) => LbasSoloOK(label, rw, world)
    PROVE  SessionInv'
<1>1. rw \in RowsOf(service) /\ label \in {"idle"} \cup LabelsOf(service)
  BY DEF RowsOf, LabelsOf
<1>2. /\ RowLater(row, rw) /\ RowOK(rw, world, faults)
      /\ RequestOK(label, held[r], rw, world, faults)
  BY DEF RowLater, RowOK, RequestOK
<1>3. SoloOK(pc[r], held[r], row, world, faults) =>
          SoloOK(label, held[r], rw, world, faults)
  BY DEF SoloOK
<1>4. label \notin Reporting /\ pc[r] \notin Reporting
  BY LbasFacts DEF LbasLabels, Reporting
<1> QED
  BY <1>1, <1>2, <1>3, <1>4, SaveInv

LEMMA LbasActInv ==
    ASSUME SessionInv, service = "LBAS", NEW r \in Requests, pc[r] # "idle",
           NEW label \in {"idle"} \cup (LbasLabels \ SensorLabels),
           NEW w \in WorldType, Act(r, w, label),
           WorldLater(world, w), Evidenced(row, w, overlapped),
           w.repeats = world.repeats, w.done + world.told = world.done + w.told,
           LbasRequestOK(label, held[r], row, w),
           LbasSoloOK(pc[r], row, world) => LbasSoloOK(label, row, w)
    PROVE  SessionInv'
<1>1. label \in {"idle"} \cup LabelsOf(service) /\ held[r] \in HeldOf(service)
  BY UnderWayFacts DEF LabelsOf
<1>2. RowOK(row, w, faults) /\ RequestOK(label, held[r], row, w, faults)
  BY LbasFacts DEF RowOK, RequestOK
<1>3. SoloOK(pc[r], held[r], row, world, faults) =>
          SoloOK(label, held[r], row, w, faults)
  BY DEF SoloOK
<1>4. /\ label \notin Reporting /\ pc[r] \notin Reporting
      /\ pc[r] \notin Challenging
  BY LbasFacts DEF LbasLabels, Reporting, Challenging
<1>5. Balanced(r, label, w, faults)
  <2>1. w.done \in Nat /\ w.told \in Nat /\ world.done \in Nat /\ world.told \in Nat
    BY LbasFacts DEF WorldType
  <2> QED
    BY <1>4, <2>1 DEF Balanced, Rep
<1> QED
  BY <1>1, <1>2, <1>3, <1>4, <1>5, ActInv DEF Act

\* What a check of the proof leads to.
NextCheck(label) ==
    CASE label = "tasks" -> "lbas_passive"
      [] label = "passive" -> "lbas_face"
      [] label = "face" -> "lbas_matched"

\* The three checks of a proof, each of which adds to what the customer of
\* the loaded challenge has shown.
LEMMA LbasCheckInv ==
    ASSUME SessionInv, service = "LBAS", NEW r \in Requests,
           LbasTasks(r) \/ LbasPassive(r) \/ LbasFace(r)
    PROVE  SessionInv'
<1> USE DEF LbasLabels, SensorLabels
<1> DEFINE p == held[r].row.customer
<1>1. PICK e \in {"tasks", "passive", "face"} :
          /\ pc[r] = IF e = "tasks" THEN "lbas_tasks"
                     ELSE IF e = "passive" THEN "lbas_passive" ELSE "lbas_face"
          /\ Act(r, Show(p, e), NextCheck(e)) \/ Pass(r, "lbas_fail")
  BY DEF LbasTasks, LbasPassive, LbasFace, LbasCheck, NextCheck
<1>2. pc[r] \in {"lbas_tasks", "lbas_passive", "lbas_face"}
  BY <1>1
<1>3. /\ row \in LbasRows /\ world \in WorldType /\ faults \in Nat
      /\ world.done \in Nat /\ world.told \in Nat
      /\ LbasRowOK(row) /\ LbasRequestOK(pc[r], held[r], row, world)
      /\ Evidenced(row, world, overlapped)
  BY <1>2, LbasFacts
<1>4. held[r].row \in LbasRows /\ p \in Anyone
  BY <1>2, <1>3 DEF LbasRequestOK, LbasRows
<1>5. ASSUME Act(r, Show(p, e), NextCheck(e))
      PROVE  SessionInv'
  <2> DEFINE w == Show(p, e)
             next == NextCheck(e)
  <2>1. /\ w \in WorldType /\ WorldLater(world, w)
        /\ w.done = world.done /\ w.told = world.told
        /\ w.served = world.served /\ w.repeats = world.repeats
        /\ Has(w, p, e)
    BY <1>3, <1>4, ShowFacts DEF Evidence
  <2>2. next \in {"lbas_passive", "lbas_face", "lbas_matched"}
        /\ (e = "tasks" <=> next = "lbas_passive")
        /\ (e = "passive" <=> next = "lbas_face")
        /\ (e = "face" <=> next = "lbas_matched")
    BY DEF NextCheck
  <2>3. Act(r, w, next)
    BY <1>5
  <2> HIDE DEF w, next
  <2>4. Evidenced(row, w, overlapped)
    BY <1>3, <2>1, EvidenceKept
  <2>5. \A q, x : Has(world, q, x) => Has(w, q, x)
    BY <2>1, HasKept
  <2>6. LbasRequestOK(next, held[r], row, w)
    BY <1>1, <1>3, <1>4, <2>1, <2>2, <2>5 DEF LbasRequestOK
  <2>7. LbasSoloOK(pc[r], row, world) => LbasSoloOK(next, row, w)
    BY <1>2, <2>1, <2>2 DEF LbasSoloOK
  <2> QED
    BY <1>2, <1>3, <2>1, <2>2, <2>3, <2>4, <2>6, <2>7, LbasActInv
<1>6. ASSUME Pass(r, "lbas_fail")
      PROVE  SessionInv'
  <2>1. Save(r, row, "lbas_fail")
    BY <1>6 DEF Pass
  <2>2. LbasRequestOK("lbas_fail", held[r], row, world)
    BY DEF LbasRequestOK
  <2>3. LbasSoloOK(pc[r], row, world) => LbasSoloOK("lbas_fail", row, world)
    BY <1>2 DEF LbasSoloOK
  <2> QED
    BY <1>2, <1>3, <2>1, <2>2, <2>3, LbasSaveInv
<1> QED
  BY <1>1, <1>5, <1>6

\* The status is written, and YES is answered last.
LEMMA LbasOutcomeInv ==
    ASSUME SessionInv, service = "LBAS", NEW r \in Requests,
           LbasExpire(r) \/ LbasFail(r) \/ LbasComplete(r) \/ LbasAnswer(r)
    PROVE  SessionInv'
<1> USE DEF LbasLabels, SensorLabels
<1>1. ASSUME NEW label \in {"lbas_expire", "lbas_fail", "lbas_matched"},
             NEW s \in {"COMPLETED", "FAILED", "EXPIRED"},
             NEW next \in {"idle", "lbas_answer"},
             pc[r] = label, Save(r, LbasSet(s), next),
             s = "EXPIRED" <=> label = "lbas_expire",
             s = "COMPLETED" <=> next = "lbas_answer",
             next = "lbas_answer" <=> label = "lbas_matched"
      PROVE  SessionInv'
  <2> DEFINE rw == LbasSet(s)
  <2>1. /\ row \in LbasRows /\ LbasRowOK(row)
        /\ LbasRequestOK(pc[r], held[r], row, world)
    BY <1>1, LbasFacts
  <2>2. /\ rw \in LbasRows /\ rw.status = s /\ rw.late = row.late
        /\ Save(r, rw, next)
    BY <1>1, <2>1, LbasRowFacts
  <2> HIDE DEF rw
  <2>3. LbasRowOK(rw)
    BY <1>1, <2>1, <2>2 DEF LbasRowOK, LbasRequestOK
  <2>4. LbasRequestOK(next, held[r], rw, world)
    BY <1>1, <2>1 DEF LbasRequestOK
  <2>5. LbasSoloOK(pc[r], row, world) => LbasSoloOK(next, rw, world)
    BY <1>1, <2>2 DEF LbasSoloOK
  <2> QED
    BY <1>1, <2>2, <2>3, <2>4, <2>5, LbasSaveInv
<1>2. CASE LbasExpire(r)
  BY <1>1, <1>2 DEF LbasExpire
<1>3. CASE LbasFail(r)
  BY <1>1, <1>3 DEF LbasFail
<1>4. CASE LbasComplete(r)
  BY <1>1, <1>4 DEF LbasComplete
<1>5. CASE LbasAnswer(r)
  <2> DEFINE p == held[r].row.customer
             v == Serve(p)
             w == [v EXCEPT !.told = @ + 1]
  <2>1. pc[r] = "lbas_answer" /\ Act(r, w, "idle")
    BY <1>5 DEF LbasAnswer
  <2>2. /\ row \in LbasRows /\ world \in WorldType /\ faults \in Nat
        /\ world.done \in Nat /\ world.told \in Nat
        /\ LbasRequestOK(pc[r], held[r], row, world)
        /\ Evidenced(row, world, overlapped)
    BY <2>1, LbasFacts
  <2>3. /\ p \in Anyone /\ Has(world, p, "tasks") /\ Has(world, p, "passive")
        /\ Has(world, p, "face")
    BY <2>1, <2>2 DEF LbasRequestOK, LbasRows
  <2>4. /\ v \in WorldType /\ WorldLater(world, v)
        /\ v.done = world.done + 1 /\ v.told = world.told
        /\ v.repeats = world.repeats
    BY <2>2, <2>3, ServeFacts
  <2>5. Evidenced(row, v, overlapped)
    <3>1. Required = {"tasks", "passive", "face"}
      BY DEF Required
    <3> QED
      BY <2>2, <2>3, <3>1, EvidenceServed
  <2> HIDE DEF v
  <2>6. w \in WorldType
    BY <2>4 DEF WorldType
  <2>7. /\ w.done = v.done /\ w.told = v.told + 1 /\ w.served = v.served
        /\ w.shown = v.shown /\ w.refused = v.refused /\ w.excused = v.excused
        /\ w.repeats = v.repeats
    BY <2>4 DEF WorldType
  <2> HIDE DEF w
  <2>8. WorldLater(world, w)
    BY <2>4, <2>7 DEF WorldLater
  <2>9. Evidenced(row, w, overlapped)
    BY <2>5, <2>7 DEF Evidenced, Has
  <2>10. LbasSoloOK(pc[r], row, world) => LbasSoloOK("idle", row, w)
    BY <2>1, <2>4, <2>7 DEF LbasSoloOK
  <2>11. w.done + world.told = world.done + w.told
    BY <2>2, <2>4, <2>7
  <2>12. LbasRequestOK("idle", held[r], row, w)
    BY DEF LbasRequestOK
  <2> QED
    BY <2>1, <2>4, <2>6, <2>7, <2>8, <2>9, <2>10, <2>11, <2>12, LbasActInv
<1> QED
  BY <1>2, <1>3, <1>4, <1>5

LEMMA LbasBegins ==
    ASSUME SessionInv, service = "LBAS", NEW r \in Requests, LbasCall(r)
    PROVE  SessionInv'
<1>1. row \in LbasRows /\ world \in WorldType /\ LbasRowOK(row)
      /\ overlapped \in BOOLEAN /\ Evidenced(row, world, overlapped)
  BY DEF SessionInv, Typed, RowsOf, RowOK
<1>2. Checked \in HeldOf(service) /\ Loaded \in HeldOf(service) /\ Loaded.row = row
  BY <1>1 DEF Checked, Loaded, HeldOf, RowsOf, Anyone
<1>3. /\ {"lbas_expire", "lbas_tasks"} \subseteq LabelsOf(service)
      /\ "lbas_expire" \notin Reporting /\ "lbas_tasks" \notin Reporting
  BY DEF LabelsOf, LbasLabels, SensorLabels, Reporting
<1>4. CASE LbasIssueChallenge(r)
  <2>1. PICK p \in People :
            Once(r, [row EXCEPT !.status = "PENDING", !.customer = p], world)
    BY <1>4 DEF LbasIssueChallenge
  <2> DEFINE rw == [row EXCEPT !.status = "PENDING", !.customer = p]
  <2>2. row.status = "NONE"
    BY <1>4 DEF LbasIssueChallenge
  <2>3. rw.status = "PENDING" /\ rw.late = row.late
    BY <1>1 DEF LbasRows
  <2>4. p \in Anyone
    BY DEF Anyone
  <2>5. rw \in LbasRows
    BY <1>1, <2>4, Zenon DEF LbasRows
  <2>6. /\ Still(rw, world) /\ overlapped' = (overlapped \/ Busy)
    BY <2>1 DEF Once, Still
  <2> HIDE DEF rw
  <2>7. rw \in RowsOf(service) /\ RowLater(row, rw)
    BY <2>3, <2>5 DEF RowsOf, RowLater
  <2>8. RowOK(rw, world, faults)
    BY <2>3 DEF RowOK, LbasRowOK
  <2>9. Evidenced(rw, world, overlapped)
    BY <1>1, EvidenceKept, WorldStays
  <2>10. ASSUME ~ overlapped', NEW l, NEW h, l # "idle" => Busy,
                SoloOK(l, h, row, world, faults)
         PROVE  SoloOK(l, h, rw, world, faults)
    BY <2>2, <2>3, <2>6, <2>10 DEF SoloOK, LbasSoloOK
  <2>11. SensorOK'
    BY <2>6 DEF Still, SensorOK
  <2>12. overlapped' \in BOOLEAN /\ (overlapped => overlapped')
    BY <1>1, <2>6 DEF Busy
  <2> QED
    BY <1>1, <2>6, <2>7, <2>8, <2>9, <2>10, <2>11, <2>12, WorldStays, StillInv
<1>5. CASE LbasFindLate(r)
  <2>1. row.late /\ Begin(r, "lbas_expire", Checked)
    BY <1>5 DEF LbasFindLate
  <2>2. RequestOK("lbas_expire", Checked, row, world, faults)
    BY <2>1 DEF RequestOK, LbasRequestOK
  <2>3. SoloOK("idle", NoValue, row, world, faults) =>
            SoloOK("lbas_expire", Checked, row, world, faults)
    BY DEF SoloOK, LbasSoloOK
  <2> QED
    BY <1>2, <1>3, <2>1, <2>2, <2>3, BeginInv
<1>6. CASE LbasSubmitProof(r)
  <2>1. /\ Begin(r, "lbas_tasks", Loaded) /\ ~ row.late
        /\ row.status \notin {"NONE", "COMPLETED", "FAILED"}
    BY <1>6 DEF LbasSubmitProof
  <2>2. row.status = "PENDING"
    BY <1>1, <2>1 DEF LbasRowOK, LbasRows
  <2>3. RequestOK("lbas_tasks", Loaded, row, world, faults)
    BY <1>1, <1>2 DEF RequestOK, LbasRequestOK
  <2>4. SoloOK("idle", NoValue, row, world, faults) =>
            SoloOK("lbas_tasks", Loaded, row, world, faults)
    BY <2>2 DEF SoloOK, LbasSoloOK
  <2> QED
    BY <1>2, <1>3, <2>1, <2>3, <2>4, BeginInv
<1> QED
  BY <1>4, <1>5, <1>6 DEF LbasCall, SensorRegister, SensorSubmit

LEMMA LbasTimeInv ==
    ASSUME SessionInv, LbasTimePasses
    PROVE  SessionInv'
<1> DEFINE rw == [row EXCEPT !.late = TRUE]
<1>1. service = "LBAS" /\ Outside(rw, world)
  BY DEF LbasTimePasses
<1>2. /\ row \in LbasRows /\ world \in WorldType /\ overlapped \in BOOLEAN
      /\ Evidenced(row, world, overlapped)
  BY <1>1 DEF SessionInv, Typed, RowsOf, RowOK
<1>3. /\ rw \in LbasRows /\ rw.status = row.status /\ rw.late = TRUE
  BY <1>2 DEF LbasRows
<1>4. Still(rw, world) /\ overlapped' = overlapped
  BY <1>1 DEF Outside, Still
<1> HIDE DEF rw
<1>5. rw \in RowsOf(service) /\ RowLater(row, rw)
  BY <1>1, <1>3 DEF RowsOf, RowLater
<1>6. RowOK(rw, world, faults)
  BY <1>1, <1>3 DEF RowOK, LbasRowOK
<1>7. Evidenced(rw, world, overlapped)
  BY <1>1, <1>2, EvidenceKept, WorldStays
<1>8. \A l, h : SoloOK(l, h, row, world, faults) => SoloOK(l, h, rw, world, faults)
  BY <1>1, <1>3 DEF SoloOK, LbasSoloOK
<1>9. SensorOK'
  BY <1>1, <1>4 DEF Still, SensorOK
<1> QED
  BY <1>1, <1>2, <1>4, <1>5, <1>6, <1>7, <1>8, <1>9, WorldStays, StillInv

-----------------------------------------------------------------------------
(* LBAS: the sensor                                                        *)

LEMMA SensorFacts ==
    ASSUME SessionInv, service = "SENSOR", NEW r \in Requests, pc[r] # "idle"
    PROVE  /\ row \in SensorRows /\ world \in WorldType /\ faults \in Nat
           /\ world.done \in Nat /\ world.told \in Nat
           /\ held[r] \in HeldOf(service) /\ pc[r] \in SensorLabels
           /\ Evidenced(row, world, overlapped)
<1>1. /\ held[r] \in HeldOf(service) /\ pc[r] \in LabelsOf(service)
      /\ row \in RowsOf(service) /\ world \in WorldType /\ faults \in Nat
      /\ Evidenced(row, world, overlapped)
  BY UnderWayFacts
<1>2. world.done \in Nat /\ world.told \in Nat
  BY <1>1 DEF WorldType
<1> QED
  BY <1>1, <1>2 DEF RowsOf, LabelsOf

\* A request under way may do anything to a sensor but act for somebody.
LEMMA SensorStepInv ==
    ASSUME SessionInv, service = "SENSOR", NEW r \in Requests, pc[r] # "idle",
           NEW label \in {"idle"} \cup SensorLabels, NEW rw \in SensorRows,
           NEW w \in WorldType, Step(r, label, held[r], rw, w),
           WorldLater(world, w), w.done = world.done, w.told = world.told,
           w.served = world.served, w.repeats = world.repeats,
           w.revoked = world.revoked, w.excused = world.excused
    PROVE  SessionInv'
<1>1. Moved(r, label, held[r], rw, w, faults)
  BY StepMoved
<1>2. MoveTyped(label, held[r], rw, w, faults)
  BY SensorFacts DEF MoveTyped, RowsOf, LabelsOf
<1>3. Evidenced(rw, w, overlapped)
  BY SensorFacts, EvidenceKept
<1>4. Balanced(r, label, w, faults)
  BY SensorFacts DEF Balanced, Rep, SensorLabels, Reporting
<1>5. /\ RowLater(row, rw) /\ RowOK(rw, w, faults)
      /\ RequestOK(label, held[r], rw, w, faults)
      /\ SoloOK(pc[r], held[r], row, world, faults) =>
             SoloOK(label, held[r], rw, w, faults)
  BY DEF RowLater, RowOK, RequestOK, SoloOK
<1>6. MoveOK(r, label, held[r], rw, w, faults)
  BY <1>3, <1>4, <1>5 DEF MoveOK
<1> QED
  BY <1>1, <1>2, <1>6, MoveInv

LEMMA SensorUseInv ==
    ASSUME SessionInv, service = "SENSOR", NEW r \in Requests,
           SensorRegistered(r) \/ SensorMatch(r) \/ SensorActive(r)
    PROVE  SessionInv'
<1> USE DEF SensorLabels
<1>1. pc[r] \in SensorLabels
  BY DEF SensorRegistered, SensorMatch, SensorActive
<1>2. row \in SensorRows /\ world \in WorldType
  BY <1>1, SensorFacts
<1>3. ASSUME NEW s \in {"REGISTERED", "ACTIVE"}, Save(r, [row EXCEPT !.status = s], "idle")
      PROVE  SessionInv'
  <2> DEFINE rw == [row EXCEPT !.status = s]
  <2>1. rw \in SensorRows
    BY <1>2 DEF SensorRows
  <2>2. Step(r, "idle", held[r], rw, world)
    BY <1>3 DEF Save
  <2> HIDE DEF rw
  <2> QED
    BY <1>1, <1>2, <2>1, <2>2, WorldStays, SensorStepInv
<1>4. CASE SensorMatch(r)
  <2>1. ASSUME NEW p \in People, Act(r, Show(p, "finger"), "sensor_mark")
        PROVE  SessionInv'
    BY <1>1, <1>2, <2>1, ShowFacts, SensorStepInv DEF Act, Anyone, Evidence
  <2>2. ASSUME Pass(r, "sensor_mark")
        PROVE  SessionInv'
    BY <1>1, <1>2, <2>2, WorldStays, SensorStepInv DEF Pass, Save
  <2> QED
    BY <1>4, <2>1, <2>2 DEF SensorMatch
<1> QED
  BY <1>3, <1>4 DEF SensorRegistered, SensorActive

LEMMA SensorBegins ==
    ASSUME SessionInv, service = "SENSOR", NEW r \in Requests, LbasCall(r)
    PROVE  SessionInv'
<1>1. row \in SensorRows
  BY DEF SessionInv, Typed, RowsOf
<1>2. Checked \in HeldOf(service)
  BY <1>1 DEF Checked, Loaded, HeldOf, RowsOf, Anyone
<1>3. PICK label \in {"sensor_upsert", "sensor_match"} :
          row.status # "REVOKED" /\ Begin(r, label, Checked)
  BY DEF LbasCall, LbasIssueChallenge, LbasFindLate, LbasSubmitProof,
         SensorRegister, SensorSubmit
<1>4. label \in LabelsOf(service) /\ label \notin Reporting
  BY DEF LabelsOf, SensorLabels, Reporting
<1>5. /\ RequestOK(label, Checked, row, world, faults)
      /\ SoloOK("idle", NoValue, row, world, faults) =>
             SoloOK(label, Checked, row, world, faults)
  BY DEF RequestOK, SoloOK
<1> QED
  BY <1>2, <1>3, <1>4, <1>5, BeginInv

\* What is under way when the sensor is revoked is excused, so that nothing
\* is under way later that is not.
LEMMA SensorRevokeInv ==
    ASSUME SessionInv, SensorRevoke
    PROVE  SessionInv'
<1> DEFINE rw == [row EXCEPT !.status = "REVOKED"]
           busy == Busy
           w == [world EXCEPT !.revoked = TRUE, !.excused = busy]
<1>1. service = "SENSOR" /\ ~ world.revoked /\ Outside(rw, w)
  BY DEF SensorRevoke
<1>2. /\ row \in SensorRows /\ world \in WorldType /\ overlapped \in BOOLEAN
      /\ Evidenced(row, world, overlapped) /\ SensorOK
  BY <1>1 DEF SessionInv, Typed, RowsOf
<1>3. rw \in SensorRows /\ rw.status = "REVOKED"
  BY <1>2 DEF SensorRows
<1>4. busy \in BOOLEAN
  BY DEF Busy
<1>5. Still(rw, w) /\ overlapped' = overlapped
  BY <1>1 DEF Outside, Still
<1>6. Busy' = busy
  BY <1>1 DEF Outside, Busy
<1> HIDE DEF busy
<1>7. w \in WorldType
  BY <1>2, <1>4, Zenon DEF WorldType
<1>8. /\ w.done = world.done /\ w.told = world.told /\ w.served = world.served
      /\ w.shown = world.shown /\ w.refused = world.refused
      /\ w.repeats = world.repeats /\ w.revoked /\ w.excused = busy
  BY <1>2 DEF WorldType
<1> HIDE DEF rw, w
<1>9. WorldLater(world, w)
  BY <1>1, <1>2, <1>8 DEF WorldLater, WorldType, SensorOK
<1>10. rw \in RowsOf(service) /\ RowLater(row, rw)
  BY <1>1, <1>3 DEF RowsOf, RowLater
<1>11. RowOK(rw, w, faults)
  BY <1>1 DEF RowOK
<1>12. Evidenced(rw, w, overlapped)
  BY <1>1, <1>2, <1>8, <1>9, EvidenceKept
<1>13. \A l, h : SoloOK(l, h, row, world, faults) => SoloOK(l, h, rw, w, faults)
  BY <1>1, <1>8 DEF SoloOK
<1>14. SensorOK'
  BY <1>2, <1>3, <1>5, <1>6, <1>8 DEF Still, SensorOK
<1> QED
  BY <1>1, <1>2, <1>5, <1>7, <1>8, <1>9, <1>10, <1>11, <1>12, <1>13, <1>14, StillInv

-----------------------------------------------------------------------------
(* BLIDE                                                                   *)

Challenges == [task : Tasks, consumed : BOOLEAN]

LEMMA BlideRowFacts ==
    ASSUME row \in BlideRows
    PROVE  \A s \in BlideStatuses :
               /\ BlideSet(s) \in BlideRows /\ BlideSet(s).status = s
               /\ BlideSet(s).kind = row.kind /\ BlideSet(s).match = row.match
               /\ BlideSet(s).data = row.data
               /\ BlideSet(s).selected = row.selected
               /\ BlideSet(s).challenges = row.challenges
BY DEF BlideSet, BlideRows

\* What a BLIDE request under way knows.
LEMMA BlideFacts ==
    ASSUME SessionInv, service = "BLIDE", NEW r \in Requests, pc[r] # "idle"
    PROVE  /\ row \in BlideRows /\ world \in WorldType /\ faults \in Nat
           /\ world.done \in Nat /\ world.told \in Nat
           /\ held[r] \in HeldOf("BLIDE")
           /\ row.status # "NONE" /\ Len(row.challenges) \in Nat
           /\ BlideRowOK(row, world) /\ BlideRequestOK(pc[r], held[r], row, world)
           /\ Evidenced(row, world, overlapped)
<1>1. /\ held[r] \in HeldOf(service)
      /\ row \in RowsOf(service) /\ world \in WorldType /\ faults \in Nat
      /\ Evidenced(row, world, overlapped)
      /\ RowOK(row, world, faults)
      /\ RequestOK(pc[r], held[r], row, world, faults)
  BY UnderWayFacts
<1>2. world.done \in Nat /\ world.told \in Nat
  BY <1>1 DEF WorldType
<1>3. row \in BlideRows /\ Len(row.challenges) \in Nat
  BY <1>1 DEF RowsOf, BlideRows
<1>4. BlideRowOK(row, world) /\ BlideRequestOK(pc[r], held[r], row, world)
  BY <1>1 DEF RowOK, RequestOK
<1>5. row.status # "NONE"
  BY <1>4 DEF BlideRequestOK
<1> QED
  BY <1>1, <1>2, <1>3, <1>4, <1>5

\* What a BLIDE step owes: a challenge that is waited for, among others.
BlideWaits(r, label, rw, f) ==
    rw.status = "LIVENESS_CHALLENGED" /\ f = 0 =>
        \/ Len(rw.challenges) > 0
        \/ label \in Challenging
        \/ row.status = "LIVENESS_CHALLENGED" /\ pc[r] \notin Challenging

LEMMA BlideMoveInv ==
    ASSUME SessionInv, service = "BLIDE", NEW r \in Requests, pc[r] # "idle",
           NEW label \in {"idle"} \cup BlideLabels, NEW loaded \in HeldOf("BLIDE"),
           NEW rw \in BlideRows, NEW w \in WorldType, NEW f \in Nat, faults <= f,
           Moved(r, label, loaded, rw, w, f),
           rw.status # "NONE", rw.kind = row.kind,
           row.match # NoOne => rw.match # NoOne,
           Len(row.challenges) <= Len(rw.challenges),
           WorldLater(world, w), Evidenced(rw, w, overlapped),
           BlideRowOK(rw, w), BlideRequestOK(label, loaded, rw, w),
           world.repeats = 0 /\ BlideSoloOK(pc[r], held[r], row, world, faults) =>
               w.repeats = 0 /\ BlideSoloOK(label, loaded, rw, w, f),
           Balanced(r, label, w, f), BlideWaits(r, label, rw, f)
    PROVE  SessionInv'
<1>1. MoveTyped(label, loaded, rw, w, f)
  BY DEF MoveTyped, RowsOf, LabelsOf
<1>2. RowLater(row, rw) /\ RowOK(rw, w, f) /\ RequestOK(label, loaded, rw, w, f)
  BY DEF RowLater, RowOK, RequestOK
<1>3. SoloOK(pc[r], held[r], row, world, faults) => SoloOK(label, loaded, rw, w, f)
  BY DEF SoloOK
<1>4. MoveOK(r, label, loaded, rw, w, f)
  BY <1>2, <1>3 DEF MoveOK, BlideWaits
<1> QED
  BY <1>1, <1>4, MoveInv

\* The row is saved; the challenges and the world are as they were.
LEMMA BlideSaveInv ==
    ASSUME SessionInv, service = "BLIDE", NEW r \in Requests, pc[r] # "idle",
           NEW label \in {"idle"} \cup BlideLabels, NEW rw \in BlideRows,
           Save(r, rw, label), pc[r] # "blide_completed", label # "blide_completed",
           rw.status # "NONE", rw.kind = row.kind,
           row.match # NoOne => rw.match # NoOne,
           rw.challenges = row.challenges,
           rw.status = "LIVENESS_CHALLENGED" => label = "blide_issue",
           BlideRowOK(rw, world), BlideRequestOK(label, held[r], rw, world),
           BlideSoloOK(pc[r], held[r], row, world, faults) =>
               BlideSoloOK(label, held[r], rw, world, faults)
    PROVE  SessionInv'
<1>1. Moved(r, label, held[r], rw, world, faults)
  BY StepMoved DEF Save
<1>2. /\ world \in WorldType /\ faults \in Nat /\ held[r] \in HeldOf("BLIDE")
      /\ Len(row.challenges) \in Nat /\ Evidenced(row, world, overlapped)
  BY BlideFacts
<1>3. WorldLater(world, world) /\ Evidenced(rw, world, overlapped)
  BY <1>2, WorldStays, EvidenceKept
<1>4. Len(row.challenges) <= Len(rw.challenges)
  BY <1>2
<1>5. Balanced(r, label, world, faults)
  <2>1. pc[r] \in BlideLabels
    BY UnderWayFacts DEF LabelsOf
  <2>2. Rep(label) = 0 /\ Rep(pc[r]) = 0
    BY <2>1 DEF Rep, Reporting, BlideLabels
  <2> QED
    BY <2>2 DEF Balanced
<1>6. BlideWaits(r, label, rw, faults)
  BY DEF BlideWaits, Challenging
<1> QED
  BY <1>1, <1>2, <1>3, <1>4, <1>5, <1>6, BlideMoveInv

\* Something is done or read; the row stays.
LEMMA BlideActInv ==
    ASSUME SessionInv, service = "BLIDE", NEW r \in Requests, pc[r] # "idle",
           NEW label \in {"idle"} \cup BlideLabels, NEW loaded \in HeldOf("BLIDE"),
           NEW w \in WorldType, Step(r, label, loaded, row, w),
           pc[r] \in Challenging => label \in Challenging,
           WorldLater(world, w), Evidenced(row, w, overlapped),
           w.repeats = world.repeats, Balanced(r, label, w, faults),
           BlideRequestOK(label, loaded, row, w),
           BlideSoloOK(pc[r], held[r], row, world, faults) =>
               BlideSoloOK(label, loaded, row, w, faults)
    PROVE  SessionInv'
<1>1. Moved(r, label, loaded, row, w, faults)
  BY StepMoved
<1>2. /\ world \in WorldType /\ faults \in Nat /\ row \in BlideRows
      /\ Len(row.challenges) \in Nat /\ row.status # "NONE"
      /\ BlideRowOK(row, world)
  BY BlideFacts
<1>3. BlideRowOK(row, w)
  <2>1. Has(world, row.match, "face") => Has(w, row.match, "face")
    BY HasKept
  <2>2. world.done > 0 => w.done > 0
    BY <1>2 DEF WorldLater, WorldType
  <2> QED
    BY <1>2, <2>1, <2>2 DEF BlideRowOK
<1>4. BlideWaits(r, label, row, faults)
  BY DEF BlideWaits
<1> QED
  BY <1>1, <1>2, <1>3, <1>4, BlideMoveInv

\* The face: searched, unlocked, or matched by nobody.
LEMMA BlideFaceInv ==
    ASSUME SessionInv, service = "BLIDE", NEW r \in Requests,
           BlideSearch(r) \/ BlideUnlock(r)
    PROVE  SessionInv'
<1> USE DEF BlideLabels
<1>1. CASE BlideSearch(r)
  <2>1. pc[r] = "blide_search"
    BY <1>1 DEF BlideSearch
  <2>2. /\ row \in BlideRows /\ world \in WorldType /\ faults \in Nat
        /\ world.done \in Nat /\ world.told \in Nat
        /\ held[r] \in HeldOf("BLIDE") /\ row.status # "NONE"
        /\ BlideRowOK(row, world) /\ BlideRequestOK(pc[r], held[r], row, world)
        /\ Evidenced(row, world, overlapped)
    BY <2>1, BlideFacts
  <2>3. ASSUME NEW p \in People,
               Step(r, "blide_unlock", [held[r] EXCEPT !.person = p], row,
                    Show(p, "face"))
        PROVE  SessionInv'
    <3> DEFINE w == Show(p, "face")
               loaded == [held[r] EXCEPT !.person = p]
    <3>1. /\ w \in WorldType /\ WorldLater(world, w)
          /\ w.done = world.done /\ w.told = world.told
          /\ w.served = world.served /\ w.repeats = world.repeats
          /\ w.excused = world.excused /\ Has(w, p, "face")
      BY <2>2, ShowFacts DEF Anyone, Evidence
    <3>2. loaded \in HeldOf("BLIDE") /\ loaded.person = p
      BY <2>2 DEF HeldOf, Anyone
    <3>3. Step(r, "blide_unlock", loaded, row, w)
      BY <2>3
    <3> HIDE DEF w, loaded
    <3>4. Evidenced(row, w, overlapped)
      BY <2>2, <3>1, EvidenceKept
    <3>5. p # NoOne
      BY GatewayAssumption
    <3>6. BlideTargetOK("blide_unlock", loaded, w)
      BY DEF BlideTargetOK, Targeted
    <3>7. BlideRequestOK("blide_unlock", loaded, row, w)
      BY <2>1, <2>2, <3>1, <3>2, <3>5, <3>6 DEF BlideRequestOK, Targeted
    <3>8. BlideSoloOK(pc[r], held[r], row, world, faults) =>
              BlideSoloOK("blide_unlock", loaded, row, w, faults)
      BY <2>1, <3>1, <3>6 DEF BlideSoloOK
    <3>9. Balanced(r, "blide_unlock", w, faults)
      BY <2>1, <3>1 DEF Balanced, Rep, Reporting
    <3> QED
      BY <2>1, <3>1, <3>2, <3>3, <3>4, <3>7, <3>8, <3>9, BlideActInv
      DEF Challenging
  <2>4. ASSUME Pass(r, "blide_no_match")
        PROVE  SessionInv'
    <3>1. Step(r, "blide_no_match", held[r], row, world)
      BY <2>4 DEF Pass, Save
    <3>2. BlideTargetOK("blide_no_match", held[r], world)
      BY DEF BlideTargetOK, Targeted
    <3>3. BlideRequestOK("blide_no_match", held[r], row, world)
      BY <2>2, <3>2 DEF BlideRequestOK, Targeted
    <3>4. BlideSoloOK(pc[r], held[r], row, world, faults) =>
              BlideSoloOK("blide_no_match", held[r], row, world, faults)
      BY <2>1, <3>2 DEF BlideSoloOK
    <3>5. Balanced(r, "blide_no_match", world, faults)
      BY <2>1 DEF Balanced, Rep, Reporting
    <3> QED
      BY <2>1, <2>2, <3>1, <3>3, <3>4, <3>5, WorldStays, BlideActInv
      DEF Challenging
  <2> QED
    BY <1>1, <2>3, <2>4 DEF BlideSearch, SearchByFace
<1>2. CASE BlideUnlock(r)
  <2> DEFINE p == held[r].person
             rw == [row EXCEPT !.status = "IDENTITY_UNLOCKED", !.match = p, !.data = p]
  <2>1. pc[r] = "blide_unlock" /\ Save(r, rw, "idle")
    BY <1>2 DEF BlideUnlock
  <2>2. /\ row \in BlideRows /\ held[r] \in HeldOf("BLIDE")
        /\ BlideRequestOK(pc[r], held[r], row, world)
    BY <2>1, BlideFacts
  <2>3. p \in Anyone /\ p # NoOne /\ Has(world, p, "face")
    BY <2>1, <2>2 DEF HeldOf, BlideRequestOK
  <2>4. /\ rw.status = "IDENTITY_UNLOCKED" /\ rw.match = p /\ rw.data = p
        /\ rw.kind = row.kind /\ rw.challenges = row.challenges
    BY <2>2 DEF BlideRows
  <2>5. rw \in BlideRows
    <3>1. "IDENTITY_UNLOCKED" \in BlideStatuses
      BY DEF BlideStatuses
    <3> QED
      BY <2>2, <2>3, <3>1, Zenon DEF BlideRows
  <2> HIDE DEF rw, p
  <2>6. BlideRowOK(rw, world)
    BY <2>3, <2>4 DEF BlideRowOK
  <2>7. BlideTargetOK("idle", held[r], world)
    BY DEF BlideTargetOK, Targeted
  <2>8. BlideRequestOK("idle", held[r], rw, world)
    BY <2>7 DEF BlideRequestOK, Targeted
  <2>9. BlideSoloOK(pc[r], held[r], row, world, faults) =>
            BlideSoloOK("idle", held[r], rw, world, faults)
    BY <2>1, <2>4, <2>7 DEF BlideSoloOK
  <2> QED
    BY <2>1, <2>3, <2>4, <2>5, <2>6, <2>8, <2>9, BlideSaveInv
<1> QED
  BY <1>1, <1>2

\* The three plain updates of the status.
LEMMA BlideStatusInv ==
    ASSUME SessionInv, service = "BLIDE", NEW r \in Requests,
           BlideNoMatch(r) \/ BlideVerified(r) \/ BlideExecuting(r)
    PROVE  SessionInv'
<1> USE DEF BlideLabels
<1>1. ASSUME NEW label \in {"blide_no_match", "blide_verified", "blide_claim"},
             NEW s \in {"NO_MATCH", "LIVENESS_VERIFIED", "EXECUTING"},
             NEW next \in {"idle", "blide_claim", "blide_execute"},
             pc[r] = label, Save(r, BlideSet(s), next),
             s = "NO_MATCH" <=> label = "blide_no_match",
             s = "EXECUTING" <=> label = "blide_claim",
             next = "idle" <=> label = "blide_no_match",
             next = "blide_execute" <=> label = "blide_claim"
      PROVE  SessionInv'
  <2> DEFINE rw == BlideSet(s)
  <2>1. /\ row \in BlideRows /\ BlideRowOK(row, world)
        /\ BlideRequestOK(pc[r], held[r], row, world)
    BY <1>1, BlideFacts
  <2>2. /\ rw \in BlideRows /\ rw.status = s /\ rw.kind = row.kind
        /\ rw.match = row.match /\ rw.data = row.data
        /\ rw.challenges = row.challenges /\ Save(r, rw, next)
    BY <1>1, <2>1, BlideRowFacts DEF BlideStatuses
  <2> HIDE DEF rw
  <2>3. BlideTargetOK(label, held[r], world) => BlideTargetOK(next, held[r], world)
    BY <1>1 DEF BlideTargetOK, Targeted
  <2>4. BlideRowOK(rw, world)
    BY <1>1, <2>1, <2>2 DEF BlideRowOK, BlideRequestOK
  <2>5. BlideRequestOK(next, held[r], rw, world)
    <3>1. next # "idle" =>
              held[r].row \in BlideRows /\ row.match # NoOne /\ label \in Targeted
      BY <1>1, <2>1 DEF BlideRequestOK, Targeted
    <3>2. rw.kind = "ACCOUNT_SETUP" => BlideTargetOK(next, held[r], world)
      BY <1>1, <2>1, <2>2, <2>3 DEF BlideRequestOK
    <3>3. /\ rw.status # "NONE" /\ (next # "idle" => rw.match # NoOne)
          /\ next \notin {"blide_unlock", "blide_verify", "blide_consume",
                          "blide_completed"}
      BY <1>1, <2>2, <3>1
    <3> QED
      BY <3>1, <3>2, <3>3 DEF BlideRequestOK, Targeted
  <2>6. BlideSoloOK(pc[r], held[r], row, world, faults) =>
            BlideSoloOK(next, held[r], rw, world, faults)
    BY <1>1, <2>2, <2>3 DEF BlideSoloOK
  <2> QED
    BY <1>1, <2>2, <2>4, <2>5, <2>6, BlideSaveInv
<1>2. CASE BlideNoMatch(r)
  BY <1>1, <1>2 DEF BlideNoMatch
<1>3. CASE BlideVerified(r)
  BY <1>1, <1>3 DEF BlideVerified
<1>4. CASE BlideExecuting(r)
  BY <1>1, <1>4 DEF BlideExecuting
<1> QED
  BY <1>2, <1>3, <1>4

\* The target is selected and the status written, before there is a challenge.
LEMMA BlideSelectedInv ==
    ASSUME SessionInv, service = "BLIDE", NEW r \in Requests, BlideSelected(r)
    PROVE  SessionInv'
<1> USE DEF BlideLabels
<1> DEFINE p == held[r].row.selected
           rw == [row EXCEPT !.status = "LIVENESS_CHALLENGED", !.selected = p]
<1>1. pc[r] = "blide_select" /\ Save(r, rw, "blide_issue")
  BY DEF BlideSelected
<1>2. /\ row \in BlideRows /\ BlideRowOK(row, world)
      /\ BlideRequestOK(pc[r], held[r], row, world)
  BY <1>1, BlideFacts
<1>3. held[r].row \in BlideRows /\ row.match # NoOne
  BY <1>1, <1>2 DEF BlideRequestOK, Targeted
<1>4. p \in Anyone
  BY <1>3 DEF BlideRows
<1>5. /\ rw.status = "LIVENESS_CHALLENGED" /\ rw.selected = p
      /\ rw.match = row.match /\ rw.data = row.data
      /\ rw.kind = row.kind /\ rw.challenges = row.challenges
  BY <1>2 DEF BlideRows
<1>6. rw \in BlideRows
  <2>1. "LIVENESS_CHALLENGED" \in BlideStatuses
    BY DEF BlideStatuses
  <2> QED
    BY <1>2, <1>4, <2>1, Zenon DEF BlideRows
<1> HIDE DEF rw
<1>7. BlideRowOK(rw, world)
  BY <1>2, <1>3, <1>5 DEF BlideRowOK
<1>8. BlideTargetOK("blide_issue", held[r], world)
  BY DEF BlideTargetOK, Targeted
<1>9. BlideRequestOK("blide_issue", held[r], rw, world)
  BY <1>3, <1>5, <1>8 DEF BlideRequestOK, Targeted
<1>10. BlideSoloOK(pc[r], held[r], row, world, faults) =>
           BlideSoloOK("blide_issue", held[r], rw, world, faults)
  BY <1>1, <1>5, <1>8 DEF BlideSoloOK
<1> QED
  BY <1>1, <1>3, <1>5, <1>6, <1>7, <1>9, <1>10, BlideSaveInv

\* The tasks issued so far are read.
LEMMA BlideReadIssuedInv ==
    ASSUME SessionInv, service = "BLIDE", NEW r \in Requests, BlideReadIssued(r)
    PROVE  SessionInv'
<1> USE DEF BlideLabels
<1> DEFINE loaded == BlideIssued
<1>1. pc[r] = "blide_issue" /\ Step(r, "blide_create", loaded, row, world)
  BY DEF BlideReadIssued
<1>2. /\ row \in BlideRows /\ world \in WorldType /\ row.status # "NONE"
      /\ BlideRequestOK(pc[r], held[r], row, world)
      /\ Evidenced(row, world, overlapped)
  BY <1>1, BlideFacts
<1>3. [BlideEmpty EXCEPT !.challenges = row.challenges] \in BlideRows
  <2>1. row.challenges \in Seq(Challenges)
    BY <1>2 DEF BlideRows, Challenges
  <2>2. BlideEmpty \in BlideRows
    BY DEF BlideEmpty, BlideRows, BlideStatuses, BlideKinds, Anyone
  <2> QED
    BY <2>1, <2>2 DEF BlideRows, Challenges
<1>4. /\ loaded \in HeldOf("BLIDE")
      /\ loaded.row = [BlideEmpty EXCEPT !.challenges = row.challenges]
  BY <1>3 DEF BlideIssued, Checked, Loaded, HeldOf, RowsOf, Anyone
<1>5. loaded.row.challenges = row.challenges
  BY <1>4 DEF BlideEmpty
<1> HIDE DEF loaded
<1>6. BlideTargetOK("blide_create", loaded, world)
  BY DEF BlideTargetOK, Targeted
<1>7. BlideRequestOK("blide_create", loaded, row, world)
  BY <1>1, <1>2, <1>3, <1>4, <1>6 DEF BlideRequestOK, Targeted
<1>8. BlideSoloOK(pc[r], held[r], row, world, faults) =>
          BlideSoloOK("blide_create", loaded, row, world, faults)
  BY <1>1, <1>5, <1>6 DEF BlideSoloOK
<1>9. Balanced(r, "blide_create", world, faults)
  BY <1>1 DEF Balanced, Rep, Reporting
<1> QED
  BY <1>1, <1>2, <1>4, <1>7, <1>8, <1>9, WorldStays, BlideActInv DEF Challenging

\* A request that ends forgets what it held.
LEMMA IdleMoved ==
    ASSUME NEW r \in Requests, pc[r] # "idle", NEW loaded, NEW k, NEW rw, NEW w,
           Step(r, "idle", k, rw, w)
    PROVE  Moved(r, "idle", loaded, rw, w, faults)
BY DEF Step, Moved, Proceed

LEMMA EligibleFacts ==
    ASSUME NEW loaded
    PROVE  EligibleTasks(loaded) \subseteq Tasks
BY DEF EligibleTasks

\* A challenge is added; one issued twice takes two requests.
LEMMA BlideCreateInv ==
    ASSUME SessionInv, service = "BLIDE", NEW r \in Requests, BlideCreateChallenge(r)
    PROVE  SessionInv'
<1> USE DEF BlideLabels
<1>1. pc[r] = "blide_create"
  BY DEF BlideCreateChallenge
<1>2. PICK t \in EligibleTasks(held[r].row) :
          Step(r, "idle", NoValue,
               [row EXCEPT !.challenges = Append(@, [task |-> t, consumed |-> FALSE])],
               [world EXCEPT !.repeats =
                    @ + IF t \notin EligibleTasks(row) THEN 1 ELSE 0])
  BY DEF BlideCreateChallenge
<1> DEFINE new == [task |-> t, consumed |-> FALSE]
           more == Append(row.challenges, new)
           again == IF t \notin EligibleTasks(row) THEN 1 ELSE 0
           rw == [row EXCEPT !.challenges = more]
           w == [world EXCEPT !.repeats = @ + again]
<1>3. /\ row \in BlideRows /\ world \in WorldType /\ faults \in Nat
      /\ held[r] \in HeldOf("BLIDE") /\ row.status # "NONE"
      /\ BlideRowOK(row, world) /\ BlideRequestOK(pc[r], held[r], row, world)
      /\ Evidenced(row, world, overlapped)
  BY <1>1, BlideFacts
<1>4. Moved(r, "idle", held[r], rw, w, faults)
  BY <1>1, <1>2, IdleMoved
<1>5. new \in Challenges /\ row.challenges \in Seq(Challenges)
  BY <1>3, EligibleFacts DEF Challenges, BlideRows
<1> HIDE DEF new
<1>6. /\ more \in Seq(Challenges) /\ Len(more) = Len(row.challenges) + 1
      /\ Len(row.challenges) \in Nat
  BY <1>5
<1> HIDE DEF more
<1>7. /\ rw.status = row.status /\ rw.match = row.match /\ rw.data = row.data
      /\ rw.selected = row.selected /\ rw.kind = row.kind /\ rw.challenges = more
      /\ rw \in BlideRows
  BY <1>3, <1>6 DEF BlideRows, Challenges
<1>8. again \in Nat
  OBVIOUS
<1>9. held[r].row.challenges = row.challenges => again = 0
  BY DEF EligibleTasks, IssuedTasks
<1> HIDE DEF again
<1>10. w \in WorldType
  BY <1>3, <1>8 DEF WorldType
<1>11. /\ w.done = world.done /\ w.told = world.told /\ w.served = world.served
       /\ w.shown = world.shown /\ w.refused = world.refused
       /\ w.excused = world.excused /\ w.repeats = world.repeats + again
  BY <1>3 DEF WorldType
<1> HIDE DEF rw, w
<1>12. WorldLater(world, w)
  BY <1>3, <1>11 DEF WorldLater, WorldType
<1>13. Evidenced(rw, w, overlapped)
  BY <1>3, <1>7, <1>11, <1>12, EvidenceKept
<1>14. BlideRowOK(rw, w)
  BY <1>3, <1>7, <1>11 DEF BlideRowOK, Has
<1>15. BlideTargetOK("idle", held[r], w)
  BY DEF BlideTargetOK, Targeted
<1>16. BlideRequestOK("idle", held[r], rw, w)
  BY <1>15 DEF BlideRequestOK, Targeted
<1>17. world.repeats = 0 /\ BlideSoloOK(pc[r], held[r], row, world, faults) =>
           w.repeats = 0 /\ BlideSoloOK("idle", held[r], rw, w, faults)
  BY <1>1, <1>7, <1>9, <1>11, <1>15 DEF BlideSoloOK
<1>18. Balanced(r, "idle", w, faults)
  BY <1>1, <1>11 DEF Balanced, Rep, Reporting
<1>19. BlideWaits(r, "idle", rw, faults)
  BY <1>6, <1>7 DEF BlideWaits
<1>20. Len(row.challenges) <= Len(rw.challenges)
  BY <1>6, <1>7
<1> QED
  BY <1>1, <1>3, <1>4, <1>7, <1>10, <1>12, <1>13, <1>14, <1>16, <1>17, <1>18,
     <1>19, <1>20, BlideMoveInv

LEMMA BlideReadChallengeInv ==
    ASSUME SessionInv, service = "BLIDE", NEW r \in Requests, BlideReadChallenge(r)
    PROVE  SessionInv'
<1> USE DEF BlideLabels
<1>1. PICK next \in {"blide_consume", "idle"} : Step(r, next, held[r], row, world)
  BY DEF BlideReadChallenge, Pass, Save
<1>2. pc[r] = "blide_verify"
  BY DEF BlideReadChallenge
<1>3. /\ row \in BlideRows /\ world \in WorldType /\ held[r] \in HeldOf("BLIDE")
      /\ BlideRequestOK(pc[r], held[r], row, world)
      /\ Evidenced(row, world, overlapped)
  BY <1>2, BlideFacts
<1>4. BlideTargetOK(pc[r], held[r], world) => BlideTargetOK(next, held[r], world)
  BY <1>2 DEF BlideTargetOK, Targeted
<1>5. BlideRequestOK(next, held[r], row, world)
  BY <1>2, <1>3, <1>4 DEF BlideRequestOK, Targeted
<1>6. BlideSoloOK(pc[r], held[r], row, world, faults) =>
          BlideSoloOK(next, held[r], row, world, faults)
  BY <1>2, <1>4 DEF BlideSoloOK
<1>7. Balanced(r, next, world, faults)
  BY <1>2 DEF Balanced, Rep, Reporting
<1> QED
  BY <1>1, <1>2, <1>3, <1>5, <1>6, <1>7, WorldStays, BlideActInv DEF Challenging

\* A challenge is marked as consumed.
LEMMA SpentFacts ==
    ASSUME row \in BlideRows, NEW c \in 1 .. Len(row.challenges)
    PROVE  LET spent == [row EXCEPT !.challenges[c].consumed = TRUE]
           IN  /\ spent \in BlideRows /\ spent.status = row.status
               /\ spent.kind = row.kind /\ spent.match = row.match
               /\ spent.data = row.data /\ spent.selected = row.selected
               /\ Len(spent.challenges) = Len(row.challenges)
<1> DEFINE one == [row.challenges[c] EXCEPT !.consumed = TRUE]
           all == [row.challenges EXCEPT ![c] = one]
           spent == [row EXCEPT !.challenges = all]
<1>1. row.challenges \in Seq(Challenges)
  BY DEF BlideRows, Challenges
<1>2. row.challenges[c] \in Challenges
  BY <1>1
<1>3. one \in Challenges
  BY <1>2 DEF Challenges
<1> HIDE DEF one
<1>4. all \in Seq(Challenges) /\ Len(all) = Len(row.challenges)
  BY <1>1, <1>3
<1> HIDE DEF all
<1>5. /\ spent \in BlideRows /\ spent.status = row.status
      /\ spent.kind = row.kind /\ spent.match = row.match
      /\ spent.data = row.data /\ spent.selected = row.selected
      /\ spent.challenges = all
  BY <1>4 DEF BlideRows, Challenges
<1>6. [row EXCEPT !.challenges[c].consumed = TRUE] = spent
  BY DEF all, one
<1> QED
  BY <1>4, <1>5, <1>6

\* The answer: whose face is alive is whose the loaded match is, and that is
\* the target.
LEMMA BlideConsumeInv ==
    ASSUME SessionInv, service = "BLIDE", NEW r \in Requests, BlideConsume(r)
    PROVE  SessionInv'
<1> USE DEF BlideLabels
<1> DEFINE c == held[r].challenge
           m == held[r].row.match
           p == held[r].row.selected
           left == [held[r] EXCEPT !.challenge = 0, !.row.match = NoOne]
           rw == [row EXCEPT !.challenges[c].consumed = TRUE]
           w == Show(m, "live")
<1>1. pc[r] = "blide_consume"
  BY DEF BlideConsume
<1>2. Step(r, "blide_verified", left, rw, w) \/ Save(r, rw, "idle")
  BY DEF BlideConsume
<1>3. /\ row \in BlideRows /\ world \in WorldType /\ faults \in Nat
      /\ held[r] \in HeldOf("BLIDE") /\ row.status # "NONE"
      /\ BlideRowOK(row, world) /\ BlideRequestOK(pc[r], held[r], row, world)
      /\ Evidenced(row, world, overlapped)
      /\ Len(row.challenges) \in Nat
  BY <1>1, BlideFacts
<1>4. /\ c \in 1 .. Len(row.challenges) /\ held[r].row \in BlideRows
      /\ row.match # NoOne
  BY <1>1, <1>3 DEF BlideRequestOK, Targeted
<1>5. /\ rw \in BlideRows /\ rw.status = row.status /\ rw.kind = row.kind
      /\ rw.match = row.match /\ rw.data = row.data
      /\ rw.selected = row.selected /\ Len(rw.challenges) = Len(row.challenges)
  BY <1>3, <1>4, SpentFacts
<1> HIDE DEF rw, c
<1>6. m \in Anyone
  BY <1>4 DEF BlideRows
<1>7. /\ w \in WorldType /\ WorldLater(world, w)
      /\ w.done = world.done /\ w.told = world.told
      /\ w.served = world.served /\ w.repeats = world.repeats
      /\ w.excused = world.excused /\ Has(w, m, "live")
  BY <1>3, <1>6, ShowFacts DEF Evidence
<1>8. \A q, e : Has(world, q, e) => Has(w, q, e)
  BY <1>7, HasKept
<1> HIDE DEF w
<1>9. BlideWaits(r, "blide_verified", rw, faults) /\ BlideWaits(r, "idle", rw, faults)
  BY <1>1, <1>5 DEF BlideWaits, Challenging
<1>10. Len(row.challenges) <= Len(rw.challenges)
  BY <1>3, <1>5
<1>11. ASSUME Step(r, "blide_verified", left, rw, w)
       PROVE  SessionInv'
  <2>1. left.row \in BlideRows /\ left.row.selected = p
    BY <1>3, <1>4 DEF HeldOf, BlideRows, Anyone
  <2>2. left \in HeldOf("BLIDE")
    <3>1. [held[r].row EXCEPT !.match = NoOne] \in BlideRows
      BY <1>4 DEF BlideRows, Anyone
    <3> DEFINE mid == [held[r] EXCEPT !.challenge = 0]
               cut == [held[r].row EXCEPT !.match = NoOne]
    <3>2. mid \in HeldOf("BLIDE") /\ mid.row = held[r].row
      BY <1>3 DEF HeldOf
    <3>3. left = [mid EXCEPT !.row = cut]
      BY <3>2
    <3> HIDE DEF mid, cut
    <3>4. cut \in RowsOf("BLIDE") \cup {NoValue}
      BY <3>1 DEF cut, RowsOf
    <3>5. [mid EXCEPT !.row = cut] \in HeldOf("BLIDE")
      BY <3>2, <3>4 DEF HeldOf
    <3> QED
      BY <3>3, <3>5
  <2> HIDE DEF left
  <2>3. Moved(r, "blide_verified", left, rw, w, faults)
    BY <1>1, <1>11, StepMoved
  <2>4. BlideTargetOK(pc[r], held[r], world) => BlideTargetOK("blide_verified", left, w)
    BY <1>1, <1>7, <1>8, <2>1 DEF BlideTargetOK, Targeted
  <2>5. Evidenced(rw, w, overlapped)
    BY <1>3, <1>5, <1>7, EvidenceKept
  <2>6. BlideRowOK(rw, w)
    BY <1>3, <1>5, <1>7, <1>8 DEF BlideRowOK
  <2>7. BlideRequestOK("blide_verified", left, rw, w)
    BY <1>3, <1>4, <1>5, <2>1, <2>4 DEF BlideRequestOK, Targeted
  <2>8. BlideSoloOK(pc[r], held[r], row, world, faults) =>
            BlideSoloOK("blide_verified", left, rw, w, faults)
    BY <1>1, <1>5, <1>7, <2>4 DEF BlideSoloOK
  <2>9. Balanced(r, "blide_verified", w, faults)
    BY <1>1, <1>7 DEF Balanced, Rep, Reporting
  <2> QED
    BY <1>1, <1>3, <1>4, <1>5, <1>7, <1>9, <1>10, <2>2, <2>3, <2>5, <2>6, <2>7,
       <2>8, <2>9, BlideMoveInv
<1>12. ASSUME Save(r, rw, "idle")
       PROVE  SessionInv'
  <2>1. Moved(r, "idle", held[r], rw, world, faults)
    BY <1>1, <1>12, StepMoved DEF Save
  <2>2. Evidenced(rw, world, overlapped) /\ WorldLater(world, world)
    BY <1>3, <1>5, EvidenceKept, WorldStays
  <2>3. BlideRowOK(rw, world)
    BY <1>3, <1>5 DEF BlideRowOK
  <2>4. BlideTargetOK("idle", held[r], world)
    BY DEF BlideTargetOK, Targeted
  <2>5. BlideRequestOK("idle", held[r], rw, world)
    BY <2>4 DEF BlideRequestOK, Targeted
  <2>6. BlideSoloOK(pc[r], held[r], row, world, faults) =>
            BlideSoloOK("idle", held[r], rw, world, faults)
    BY <1>1, <1>5, <2>4 DEF BlideSoloOK
  <2>7. Balanced(r, "idle", world, faults)
    BY <1>1 DEF Balanced, Rep, Reporting
  <2> QED
    BY <1>1, <1>3, <1>4, <1>5, <1>9, <1>10, <2>1, <2>2, <2>3, <2>5, <2>6, <2>7,
       BlideMoveInv
<1> QED
  BY <1>2, <1>11, <1>12

\* The execution: for the one whose face is known and alive, or, for an
\* operation, after requests overlapped.
LEMMA BlideExecuteInv ==
    ASSUME SessionInv, service = "BLIDE", NEW r \in Requests, BlideExecute(r)
    PROVE  SessionInv'
<1> USE DEF BlideLabels
<1> DEFINE p == held[r].row.selected
           w == Serve(p)
<1>1. pc[r] = "blide_execute"
  BY DEF BlideExecute
<1>2. /\ row \in BlideRows /\ world \in WorldType /\ faults \in Nat
      /\ world.done \in Nat /\ world.told \in Nat
      /\ held[r] \in HeldOf("BLIDE") /\ row.status # "NONE"
      /\ BlideRowOK(row, world) /\ BlideRequestOK(pc[r], held[r], row, world)
      /\ Evidenced(row, world, overlapped)
      /\ Len(row.challenges) \in Nat
  BY <1>1, BlideFacts
<1>3. held[r].row \in BlideRows /\ row.match # NoOne /\ p \in Anyone
  BY <1>1, <1>2 DEF BlideRequestOK, Targeted, BlideRows
<1>4. (row.kind = "OPERATION" /\ overlapped) \/ BlideTargetOK(pc[r], held[r], world)
  <2>1. CASE row.kind = "ACCOUNT_SETUP"
    BY <1>2, <2>1 DEF BlideRequestOK
  <2>2. CASE row.kind # "ACCOUNT_SETUP"
    <3>1. row.kind = "OPERATION"
      BY <1>2, <2>2 DEF BlideRows, BlideKinds
    <3>2. ~ overlapped => SoloOK(pc[r], held[r], row, world, faults)
      BY <1>1 DEF SessionInv, Solo
    <3> QED
      BY <3>1, <3>2 DEF SoloOK, BlideSoloOK
  <2> QED
    BY <2>1, <2>2
<1>5. /\ w \in WorldType /\ WorldLater(world, w)
      /\ w.done = world.done + 1 /\ w.told = world.told
      /\ w.repeats = world.repeats /\ w.excused = world.excused
      /\ w.shown = world.shown
  BY <1>2, <1>3, ServeFacts
<1>6. Evidenced(row, w, overlapped)
  <2>1. Required = {"face", "live"}
    BY DEF Required
  <2>2. \A e \in Required :
            \/ Has(world, p, e)
            \/ service = "BLIDE" /\ row.kind = "OPERATION" /\ overlapped
    BY <1>1, <1>4, <2>1 DEF BlideTargetOK, Targeted
  <2> QED
    BY <1>2, <1>3, <2>2, EvidenceServed
<1> HIDE DEF w
<1>7. ASSUME NEW f \in Nat, faults <= f,
             NEW next \in {"blide_completed", "blide_failed"},
             Moved(r, next, held[r], row, w, f), next = "blide_failed" => f > 0
      PROVE  SessionInv'
  <2>1. BlideRowOK(row, w)
    BY <1>2, <1>5 DEF BlideRowOK, Has
  <2>2. BlideTargetOK(next, held[r], w)
    BY DEF BlideTargetOK, Targeted
  <2>3. BlideRequestOK(next, held[r], row, w)
    BY <1>2, <1>3, <1>5, <2>2 DEF BlideRequestOK, Targeted
  <2>4. BlideSoloOK(pc[r], held[r], row, world, faults) =>
            BlideSoloOK(next, held[r], row, w, f)
    BY <1>1, <1>5, <1>7, <2>2 DEF BlideSoloOK
  <2>5. Balanced(r, next, w, f)
    BY <1>1, <1>2, <1>5, <1>7 DEF Balanced, Rep, Reporting
  <2>6. BlideWaits(r, next, row, f)
    BY <1>1 DEF BlideWaits, Challenging
  <2> QED
    BY <1>1, <1>2, <1>5, <1>6, <1>7, <2>1, <2>3, <2>4, <2>5, <2>6, BlideMoveInv
<1>8. ASSUME Act(r, w, "blide_completed")
      PROVE  SessionInv'
  BY <1>1, <1>2, <1>7, <1>8, StepMoved DEF Act
<1>9. ASSUME Fault(r, "blide_failed", w)
      PROVE  SessionInv'
  <2>1. Moved(r, "blide_failed", held[r], row, w, faults + 1)
    BY <1>1, <1>9, FaultMoved
  <2> QED
    BY <1>2, <1>7, <2>1
<1>10. ASSUME NEW v \in {world, Refusal}, Step(r, "blide_failed", held[r], row, v)
       PROVE  SessionInv'
  <2>1. /\ v \in WorldType /\ WorldLater(world, v)
        /\ v.done = world.done /\ v.told = world.told
        /\ v.served = world.served /\ v.repeats = world.repeats
        /\ v.excused = world.excused
    BY <1>2, WorldStays, RefusalFacts
  <2>2. Evidenced(row, v, overlapped)
    BY <1>2, <2>1, EvidenceKept
  <2>3. BlideTargetOK("blide_failed", held[r], v)
    BY DEF BlideTargetOK, Targeted
  <2>4. BlideRequestOK("blide_failed", held[r], row, v)
    BY <1>2, <1>3, <2>3 DEF BlideRequestOK, Targeted
  <2>5. BlideSoloOK(pc[r], held[r], row, world, faults) =>
            BlideSoloOK("blide_failed", held[r], row, v, faults)
    BY <1>1, <2>1, <2>3 DEF BlideSoloOK
  <2>6. Balanced(r, "blide_failed", v, faults)
    BY <1>1, <1>2, <2>1 DEF Balanced, Rep, Reporting
  <2> QED
    BY <1>1, <1>2, <1>10, <2>1, <2>2, <2>4, <2>5, <2>6, BlideActInv
    DEF Challenging
<1> QED
  BY <1>8, <1>9, <1>10 DEF BlideExecute, PushToCbs, Refusal, Act, Pass, Save, w

\* The row is closed, and the customer answered.
LEMMA BlideCloseInv ==
    ASSUME SessionInv, service = "BLIDE", NEW r \in Requests,
           BlideCompleted(r) \/ BlideFailed(r)
    PROVE  SessionInv'
<1> USE DEF BlideLabels
<1>1. pc[r] \in {"blide_completed", "blide_failed"}
  BY DEF BlideCompleted, BlideFailed
<1>2. /\ row \in BlideRows /\ world \in WorldType /\ faults \in Nat
      /\ world.done \in Nat /\ world.told \in Nat
      /\ held[r] \in HeldOf("BLIDE") /\ row.status # "NONE"
      /\ BlideRowOK(row, world) /\ BlideRequestOK(pc[r], held[r], row, world)
      /\ Evidenced(row, world, overlapped)
      /\ Len(row.challenges) \in Nat
  BY <1>1, BlideFacts
<1>3. row.match # NoOne
  BY <1>1, <1>2 DEF BlideRequestOK, Targeted
<1>4. \A s \in {"COMPLETED", "FAILED"} :
          /\ BlideClosed(s) \in BlideRows /\ BlideClosed(s).status = s
          /\ BlideClosed(s).kind = row.kind /\ BlideClosed(s).match = row.match
          /\ BlideClosed(s).challenges = row.challenges
          /\ row.kind = "ACCOUNT_SETUP" => BlideClosed(s).data = row.data
  <2> SUFFICES ASSUME NEW s \in {"COMPLETED", "FAILED"}
               PROVE  /\ BlideClosed(s) \in BlideRows /\ BlideClosed(s).status = s
                      /\ BlideClosed(s).kind = row.kind
                      /\ BlideClosed(s).match = row.match
                      /\ BlideClosed(s).challenges = row.challenges
                      /\ row.kind = "ACCOUNT_SETUP" => BlideClosed(s).data = row.data
    OBVIOUS
  <2> DEFINE d == IF row.kind = "OPERATION" THEN NoOne ELSE row.data
             rw == [row EXCEPT !.status = s, !.data = d]
  <2>1. BlideClosed(s) = rw
    BY <1>2 DEF BlideClosed, BlideRows
  <2>2. d \in Anyone /\ (row.kind = "ACCOUNT_SETUP" => d = row.data)
    BY <1>2 DEF BlideRows, Anyone
  <2>3. s \in BlideStatuses
    BY DEF BlideStatuses
  <2> HIDE DEF d
  <2>4. rw \in BlideRows
    BY <1>2, <2>2, <2>3, Zenon DEF BlideRows
  <2>5. /\ rw.status = s /\ rw.kind = row.kind /\ rw.match = row.match
        /\ rw.challenges = row.challenges /\ rw.data = d
    BY <1>2 DEF BlideRows
  <2> QED
    BY <2>1, <2>2, <2>4, <2>5
<1>5. CASE BlideCompleted(r)
  <2> DEFINE rw == BlideClosed("COMPLETED")
  <2>1. pc[r] = "blide_completed" /\ Step(r, "idle", NoValue, rw, Tell)
    BY <1>5 DEF BlideCompleted
  <2>2. Moved(r, "idle", held[r], rw, Tell, faults)
    BY <2>1, IdleMoved
  <2>3. /\ rw \in BlideRows /\ rw.status = "COMPLETED" /\ rw.kind = row.kind
        /\ rw.match = row.match /\ rw.challenges = row.challenges
        /\ row.kind = "ACCOUNT_SETUP" => rw.data = row.data
    BY <1>4
  <2> HIDE DEF rw
  <2>4. /\ Tell \in WorldType /\ WorldLater(world, Tell)
        /\ Tell.done = world.done /\ Tell.told = world.told + 1
        /\ Tell.served = world.served /\ Tell.shown = world.shown
        /\ Tell.repeats = world.repeats
    BY <1>2, TellFacts
  <2>5. Evidenced(rw, Tell, overlapped)
    BY <1>2, <2>3, <2>4, EvidenceKept
  <2>6. BlideRowOK(rw, Tell)
    BY <1>2, <2>1, <2>3, <2>4 DEF BlideRowOK, BlideRequestOK, Has
  <2>7. BlideTargetOK("idle", held[r], Tell)
    BY DEF BlideTargetOK, Targeted
  <2>8. BlideRequestOK("idle", held[r], rw, Tell)
    BY <2>7 DEF BlideRequestOK, Targeted
  <2>9. BlideSoloOK(pc[r], held[r], row, world, faults) =>
            BlideSoloOK("idle", held[r], rw, Tell, faults)
    BY <2>1, <2>3, <2>4, <2>7 DEF BlideSoloOK
  <2>10. Balanced(r, "idle", Tell, faults)
    BY <1>2, <2>1, <2>4 DEF Balanced, Rep, Reporting
  <2>11. BlideWaits(r, "idle", rw, faults) /\ Len(row.challenges) <= Len(rw.challenges)
    BY <1>2, <2>3 DEF BlideWaits
  <2> QED
    BY <1>1, <1>2, <2>2, <2>3, <2>4, <2>5, <2>6, <2>8, <2>9, <2>10, <2>11,
       BlideMoveInv
<1>6. CASE BlideFailed(r)
  <2> DEFINE rw == BlideClosed("FAILED")
  <2>1. pc[r] = "blide_failed" /\ Save(r, rw, "idle")
    BY <1>6 DEF BlideFailed
  <2>2. /\ rw \in BlideRows /\ rw.status = "FAILED" /\ rw.kind = row.kind
        /\ rw.match = row.match /\ rw.challenges = row.challenges
        /\ row.kind = "ACCOUNT_SETUP" => rw.data = row.data
    BY <1>4
  <2> HIDE DEF rw
  <2>3. BlideRowOK(rw, world)
    BY <1>2, <1>3, <2>2 DEF BlideRowOK
  <2>4. BlideTargetOK("idle", held[r], world)
    BY DEF BlideTargetOK, Targeted
  <2>5. BlideRequestOK("idle", held[r], rw, world)
    BY <2>4 DEF BlideRequestOK, Targeted
  <2>6. BlideSoloOK(pc[r], held[r], row, world, faults) =>
            BlideSoloOK("idle", held[r], rw, world, faults)
    BY <2>1, <2>2, <2>4 DEF BlideSoloOK
  <2> QED
    BY <2>1, <2>2, <2>3, <2>5, <2>6, BlideSaveInv
<1> QED
  BY <1>5, <1>6

\* The four endpoints.
LEMMA BlideInitiateInv ==
    ASSUME SessionInv, NEW r \in Requests, BlideInitiate(r)
    PROVE  SessionInv'
<1>1. service = "BLIDE" /\ row.status = "NONE"
  BY DEF BlideInitiate
<1>2. PICK k \in BlideKinds :
          Once(r, [row EXCEPT !.status = "INITIATED", !.kind = k], world)
  BY DEF BlideInitiate
<1> DEFINE rw == [row EXCEPT !.status = "INITIATED", !.kind = k]
<1>3. /\ row \in BlideRows /\ world \in WorldType /\ overlapped \in BOOLEAN
      /\ BlideRowOK(row, world) /\ Evidenced(row, world, overlapped)
  BY <1>1 DEF SessionInv, Typed, RowsOf, RowOK
<1>4. /\ rw.status = "INITIATED" /\ rw.match = row.match /\ rw.data = row.data
      /\ rw.challenges = row.challenges /\ rw.selected = row.selected
  BY <1>3 DEF BlideRows
<1>5. rw \in BlideRows
  <2>1. "INITIATED" \in BlideStatuses
    BY DEF BlideStatuses
  <2> QED
    BY <1>3, <2>1, Zenon DEF BlideRows
<1>6. Still(rw, world) /\ overlapped' = (overlapped \/ Busy)
  BY <1>2 DEF Once, Still
<1> HIDE DEF rw
<1>7. rw \in RowsOf(service) /\ RowLater(row, rw)
  BY <1>1, <1>3, <1>4, <1>5 DEF RowsOf, RowLater, BlideRows
<1>8. RowOK(rw, world, faults)
  BY <1>1, <1>3, <1>4 DEF RowOK, BlideRowOK
<1>9. Evidenced(rw, world, overlapped)
  BY <1>1, <1>3 DEF Evidenced, BlideRowOK
<1>10. ASSUME ~ overlapped', NEW l, NEW h, l # "idle" => Busy,
              SoloOK(l, h, row, world, faults)
       PROVE  SoloOK(l, h, rw, world, faults)
  <2>1. l = "idle"
    BY <1>6, <1>10
  <2>2. BlideSoloOK("idle", h, row, world, faults) =>
            BlideSoloOK("idle", h, rw, world, faults)
    BY <1>1, <1>4 DEF BlideSoloOK
  <2> QED
    BY <1>1, <1>10, <2>1, <2>2 DEF SoloOK
<1>11. SensorOK'
  BY <1>1, <1>6 DEF Still, SensorOK
<1>12. overlapped' \in BOOLEAN /\ (overlapped => overlapped')
  BY <1>3, <1>6 DEF Busy
<1> QED
  BY <1>3, <1>4, <1>6, <1>7, <1>8, <1>9, <1>10, <1>11, <1>12, WorldStays, StillInv

LEMMA BlideBegins ==
    ASSUME SessionInv, NEW r \in Requests, BlideCall(r)
    PROVE  SessionInv'
<1>1. service = "BLIDE"
  BY DEF BlideCall, BlideInitiate, BlideSubmitFace, BlideSelectTarget,
         BlideSubmitLiveness
<1>2. row \in BlideRows /\ BlideRowOK(row, world) /\ Len(row.challenges) \in Nat
  BY <1>1 DEF SessionInv, Typed, RowsOf, RowOK, BlideRows
<1>3. Checked \in HeldOf("BLIDE") /\ Checked.row = NoValue
  BY DEF Checked, Loaded, HeldOf, RowsOf, Anyone
<1>4. \A p \in Anyone : /\ BlideLoaded(p) \in HeldOf("BLIDE")
                        /\ BlideLoaded(p).row \in BlideRows
                        /\ BlideLoaded(p).row.match = row.match
                        /\ BlideLoaded(p).row.selected = p
  <2> SUFFICES ASSUME NEW p \in Anyone
               PROVE  /\ BlideLoaded(p) \in HeldOf("BLIDE")
                      /\ BlideLoaded(p).row \in BlideRows
                      /\ BlideLoaded(p).row.match = row.match
                      /\ BlideLoaded(p).row.selected = p
    OBVIOUS
  <2> DEFINE m == row.match
             rw == [BlideEmpty EXCEPT !.match = m, !.selected = p]
  <2>1. m \in Anyone
    BY <1>2 DEF BlideRows
  <2> HIDE DEF m
  <2>2. BlideEmpty \in BlideRows
    BY DEF BlideEmpty, BlideRows, BlideStatuses, BlideKinds, Anyone
  <2>3. rw \in BlideRows
    BY <2>1, <2>2, Zenon DEF BlideRows
  <2>4. rw.match = m /\ rw.selected = p
    BY DEF BlideEmpty
  <2> HIDE DEF rw
  <2>5. BlideLoaded(p) = [Checked EXCEPT !.row = rw]
    BY DEF BlideLoaded, rw, m
  <2>6. [Checked EXCEPT !.row = rw] \in HeldOf("BLIDE")
        /\ [Checked EXCEPT !.row = rw].row = rw
    BY <1>3, <2>3 DEF HeldOf, RowsOf
  <2> QED
    BY <2>3, <2>4, <2>5, <2>6 DEF m
<1>5. ASSUME NEW label \in BlideLabels, NEW loaded \in HeldOf("BLIDE"),
             Begin(r, label, loaded), label # "blide_completed",
             BlideRequestOK(label, loaded, row, world),
             BlideSoloOK("idle", NoValue, row, world, faults) =>
                 BlideSoloOK(label, loaded, row, world, faults)
      PROVE  SessionInv'
  <2>1. label \in LabelsOf(service) /\ label # "idle" /\ label \notin Reporting
    BY <1>1, <1>5 DEF LabelsOf, BlideLabels, Reporting
  <2>2. RequestOK(label, loaded, row, world, faults)
    BY <1>1, <1>5 DEF RequestOK
  <2>3. SoloOK("idle", NoValue, row, world, faults) =>
            SoloOK(label, loaded, row, world, faults)
    BY <1>1, <1>5 DEF SoloOK
  <2> QED
    BY <1>1, <1>5, <2>1, <2>2, <2>3, BeginInv
<1> USE DEF BlideLabels
<1>6. CASE BlideInitiate(r)
  BY <1>6, BlideInitiateInv
<1>7. CASE BlideSubmitFace(r)
  <2>1. row.status = "INITIATED" /\ Begin(r, "blide_search", Checked)
    BY <1>7 DEF BlideSubmitFace
  <2>2. BlideTargetOK("blide_search", Checked, world)
    BY DEF BlideTargetOK, Targeted
  <2>3. BlideRequestOK("blide_search", Checked, row, world)
    BY <2>1, <2>2 DEF BlideRequestOK, Targeted
  <2>4. BlideSoloOK("idle", NoValue, row, world, faults) =>
            BlideSoloOK("blide_search", Checked, row, world, faults)
    BY <2>1, <2>2 DEF BlideSoloOK
  <2> QED
    BY <1>3, <1>5, <2>1, <2>3, <2>4
<1>8. CASE BlideSelectTarget(r)
  <2> DEFINE loaded == BlideLoaded(row.data)
  <2>1. row.status = "IDENTITY_UNLOCKED" /\ Begin(r, "blide_select", loaded)
    BY <1>8 DEF BlideSelectTarget
  <2>2. loaded \in HeldOf("BLIDE") /\ loaded.row \in BlideRows
        /\ loaded.row.selected = row.data
    BY <1>2, <1>4 DEF BlideRows
  <2> HIDE DEF loaded
  <2>3. BlideTargetOK("blide_select", loaded, world)
    BY DEF BlideTargetOK, Targeted
  <2>4. BlideRequestOK("blide_select", loaded, row, world)
    BY <1>2, <2>1, <2>2, <2>3 DEF BlideRequestOK, Targeted, BlideRowOK
  <2>5. BlideSoloOK("idle", NoValue, row, world, faults) =>
            BlideSoloOK("blide_select", loaded, row, world, faults)
    BY <2>1, <2>2, <2>3 DEF BlideSoloOK
  <2> QED
    BY <1>5, <2>1, <2>2, <2>4, <2>5
<1>9. CASE BlideSubmitLiveness(r)
  <2>1. row.status = "LIVENESS_CHALLENGED"
    BY <1>9 DEF BlideSubmitLiveness
  <2>2. PICK c \in DOMAIN row.challenges :
            Begin(r, "blide_verify", [BlideLoaded(BlideTarget) EXCEPT !.challenge = c])
    BY <1>9 DEF BlideSubmitLiveness
  <2> DEFINE first == BlideLoaded(BlideTarget)
             loaded == [first EXCEPT !.challenge = c]
  <2>3. c \in 1 .. Len(row.challenges) /\ c \in Nat
    BY <1>2 DEF BlideRows
  <2>4. BlideTarget \in Anyone
    BY <1>2 DEF BlideTarget, BlideRows
  <2>5. /\ first \in HeldOf("BLIDE") /\ first.row \in BlideRows
        /\ first.row.match = row.match /\ first.row.selected = BlideTarget
    BY <1>4, <2>4
  <2> HIDE DEF first
  <2>6. /\ loaded \in HeldOf("BLIDE") /\ loaded.row = first.row
        /\ loaded.challenge = c
    BY <2>3, <2>5 DEF HeldOf
  <2>7. Begin(r, "blide_verify", loaded)
    BY <2>2 DEF first
  <2> HIDE DEF loaded
  <2>8. row.match # NoOne /\ Has(world, row.match, "face")
    BY <1>2, <2>1 DEF BlideRowOK
  <2>9. BlideTarget = row.match => BlideTargetOK("blide_verify", loaded, world)
    BY <2>5, <2>6, <2>8 DEF BlideTargetOK, Targeted
  <2>10. row.kind = "ACCOUNT_SETUP" => BlideTarget = row.match
    BY <1>2 DEF BlideRowOK, BlideTarget
  <2>11. BlideRequestOK("blide_verify", loaded, row, world)
    BY <2>1, <2>3, <2>5, <2>6, <2>8, <2>9, <2>10 DEF BlideRequestOK, Targeted
  <2>12. ASSUME BlideSoloOK("idle", NoValue, row, world, faults)
         PROVE  BlideSoloOK("blide_verify", loaded, row, world, faults)
    <3>1. row.selected = row.match
      BY <2>1, <2>12 DEF BlideSoloOK
    <3>2. BlideTarget = row.match
      BY <2>10, <3>1 DEF BlideTarget
    <3> QED
      BY <2>1, <2>9, <2>12, <3>2 DEF BlideSoloOK
  <2> QED
    BY <1>5, <2>6, <2>7, <2>11, <2>12
<1> QED
  BY <1>6, <1>7, <1>8, <1>9 DEF BlideCall

-----------------------------------------------------------------------------
(* The invariant holds at first and survives every step.                   *)

\* No label is of two services.
LEMMA LabelsApart ==
    ASSUME Typed, NEW r \in Requests, pc[r] # "idle"
    PROVE  /\ pc[r] \in BihLabels => service = "BIH"
           /\ pc[r] \in ZfpsLabels => service = "ZFPS"
<1>1. pc[r] \in LabelsOf(service) /\ service \in Services
  BY DEF Typed
<1> QED
  BY <1>1 DEF LabelsOf, Services, BihLabels, BlsLabels, BlideLabels, ZfoeLabels,
              ZfpsLabels, LbasLabels, SensorLabels

LEMMA InitInv ==
    ASSUME IInit
    PROVE  SessionInv
<1>1. /\ service \in Services /\ row = EmptyRow(service) /\ world = NothingDone
      /\ pc = [r \in Requests |-> "idle"] /\ held = [r \in Requests |-> NoValue]
      /\ overlapped = FALSE /\ faults = 0
  BY DEF IInit, FrameInit
<1>2. row \in RowsOf(service)
  <2>1. BlideEmpty \in BlideRows
    BY DEF BlideEmpty, BlideRows, BlideStatuses, BlideKinds, Anyone
  <2>2. BihEmpty \in BihRows /\ BlsEmpty \in BlsRows
    BY DEF BihEmpty, BihRows, BihStatuses, Kinds, BlsEmpty, BlsRows, BlsStatuses,
           Anyone
  <2>3. ZfoeEmpty \in ZfoeRows /\ ZfpsEmpty \in ZfpsRows
    BY DEF ZfoeEmpty, ZfoeRows, ZfoeStatuses, ZfpsEmpty, ZfpsRows, Anyone
  <2>4. LbasEmpty \in LbasRows /\ SensorEmpty \in SensorRows
    BY DEF LbasEmpty, LbasRows, SensorEmpty, SensorRows, Anyone
  <2> QED
    BY <1>1, <2>1, <2>2, <2>3, <2>4 DEF Services, EmptyRow, RowsOf
<1>3. row.status = "NONE"
  BY <1>1 DEF Services, EmptyRow, BihEmpty, BlsEmpty, BlideEmpty, ZfoeEmpty,
              ZfpsEmpty, LbasEmpty, SensorEmpty
<1>4. /\ world \in WorldType /\ world.done = 0 /\ world.told = 0
      /\ world.served = {} /\ world.shown = {} /\ world.repeats = 0
      /\ world.revoked = FALSE /\ world.excused = FALSE
  BY <1>1 DEF NothingDone, WorldType
<1>5. \A r \in Requests : pc[r] = "idle" /\ held[r] = NoValue
  BY <1>1
<1>6. Typed
  BY <1>1, <1>2, <1>4, <1>5 DEF Typed
<1>7. Evidenced(row, world, overlapped)
  BY <1>4 DEF Evidenced
<1>8. RowOK(row, world, faults)
  <2>1. service = "BLS" => row.anchor = NoOne /\ row.accounts = NoOne
    BY <1>1 DEF EmptyRow, BlsEmpty
  <2>2. service = "BLIDE" => row.match = NoOne /\ row.data = NoOne
    BY <1>1 DEF EmptyRow, BlideEmpty
  <2> QED
    BY <1>3, <1>4, <2>1, <2>2
    DEF RowOK, BihRowOK, BlsRowOK, BlideRowOK, ZfoeRowOK, ZfpsRowOK, LbasRowOK
<1>9. \A r \in Requests : RequestOK(pc[r], held[r], row, world, faults)
  BY <1>5, IdleRelies
<1>10. Solo
  <2>1. SoloOK("idle", NoValue, row, world, faults)
    <3>1. BlideTargetOK("idle", NoValue, world)
      BY DEF BlideTargetOK, Targeted
    <3> QED
      BY <1>3, <1>4, <3>1 DEF SoloOK, BihSoloOK, BlsSoloOK, BlideSoloOK, ZfoeSoloOK,
                              ZfpsSoloOK, LbasSoloOK
  <2> QED
    BY <1>5, <2>1 DEF Solo
<1>11. Challenged /\ SensorOK
  BY <1>3, <1>4 DEF Challenged, SensorOK
<1>12. Reported
  <2>1. Reporters = {}
    BY <1>5 DEF Reporters, Reporting
  <2>2. IsFiniteSet({}) /\ Cardinality({}) = 0
    BY FS_EmptySet
  <2> QED
    BY <1>4, <2>1, <2>2 DEF Reported
<1> QED
  BY <1>6, <1>7, <1>8, <1>9, <1>10, <1>11, <1>12 DEF SessionInv

LEMMA CallInv ==
    ASSUME SessionInv, NEW r \in Requests,
           \/ BihCall(r) \/ BlsCall(r) \/ BlideCall(r) \/ ZfoeCall(r)
           \/ ZfpsProvision(r) \/ LbasCall(r)
    PROVE  SessionInv'
<1>1. BihCall(r) => service = "BIH"
  BY DEF BihCall, BihInitiate, BihSubmitTemplate, BihSelectBank, BihAuthorize
<1>2. BlsCall(r) => service = "BLS"
  BY DEF BlsCall, BlsInitiate, BlsFindIdle, BlsSubmitDiscoveryScan,
         BlsSelectAccount, BlsSubmitSealScan, BlsAssertActive
<1>3. ZfoeCall(r) => service = "ZFOE"
  BY DEF ZfoeCall, ZfoeHarvest, ZfoeSelectBank, ZfoeAuthorize
<1>4. LbasCall(r) => service \in {"LBAS", "SENSOR"}
  BY DEF LbasCall, LbasIssueChallenge, LbasFindLate, LbasSubmitProof,
         SensorRegister, SensorSubmit
<1> QED
  BY <1>1, <1>2, <1>3, <1>4, BihBegins, BlsBegins, BlideBegins, ZfoeBegins,
     ZfpsBegins, LbasBegins, SensorBegins

LEMMA GoOnInv ==
    ASSUME SessionInv, NEW r \in Requests, IGoOn(r)
    PROVE  SessionInv'
<1>1. CASE service = "BIH" /\ BihGoOn(r)
  BY <1>1, BihScanInv, BihProvisionInv, BihCloseInv, BihOperationInv DEF BihGoOn
<1>2. CASE service = "BLS" /\ BlsGoOn(r)
  BY <1>2, BlsDiscoveryInv, BlsSealInv, BlsDebitInv DEF BlsGoOn
<1>3. CASE service = "BLIDE" /\ BlideGoOn(r)
  BY <1>3, BlideFaceInv, BlideStatusInv, BlideSelectedInv, BlideReadIssuedInv,
     BlideCreateInv, BlideReadChallengeInv, BlideConsumeInv, BlideExecuteInv,
     BlideCloseInv DEF BlideGoOn
<1>4. CASE service = "ZFOE" /\ ZfoeGoOn(r)
  BY <1>4, ZfoeSelectInv, ZfoeGateInv, ZfoePushInv DEF ZfoeGoOn
<1>5. CASE service = "ZFPS" /\ ZfpsGoOn(r)
  BY <1>5, ZfpsPushInv, ZfpsMonitorInv, ZfpsOutcomeInv, ZfpsSmsInv DEF ZfpsGoOn
<1>6. CASE service \in {"LBAS", "SENSOR"} /\ LbasGoOn(r)
  <2>1. pc[r] # "idle"
    BY <1>6 DEF LbasGoOn, LbasExpire, LbasTasks, LbasPassive, LbasFace, LbasCheck,
                LbasFail, LbasComplete, LbasAnswer, SensorRegistered, SensorMatch,
                SensorActive
  <2>2. CASE service = "LBAS"
    <3>1. pc[r] \notin SensorLabels
      BY <2>1, <2>2, LbasFacts
    <3>2. ~ (SensorRegistered(r) \/ SensorMatch(r) \/ SensorActive(r))
      BY <3>1 DEF SensorLabels, SensorRegistered, SensorMatch, SensorActive
    <3> QED
      BY <1>6, <2>2, <3>2, LbasCheckInv, LbasOutcomeInv DEF LbasGoOn
  <2>3. CASE service = "SENSOR"
    <3>1. pc[r] \in SensorLabels
      BY <2>1, <2>3, SensorFacts
    <3>2. SensorRegistered(r) \/ SensorMatch(r) \/ SensorActive(r)
      BY <1>6, <3>1 DEF SensorLabels, LbasGoOn, LbasExpire, LbasTasks, LbasPassive,
                        LbasFace, LbasCheck, LbasFail, LbasComplete, LbasAnswer
    <3> QED
      BY <2>3, <3>2, SensorUseInv
  <2> QED
    BY <1>6, <2>2, <2>3
<1> QED
  BY <1>1, <1>2, <1>3, <1>4, <1>5, <1>6 DEF IGoOn

LEMMA NextInv ==
    ASSUME SessionInv, [INext]_fvars
    PROVE  SessionInv'
<1>1. ASSUME NEW r \in Requests, BihThrow(r)
      PROVE  SessionInv'
  <2>1. pc[r] # "idle" /\ pc[r] \in BihLabels
    BY <1>1 DEF BihThrow, BihLabels
  <2>2. service = "BIH"
    BY <2>1, LabelsApart DEF SessionInv
  <2> QED
    BY <1>1, <2>2, BihCloseInv
<1>2. ASSUME NEW r \in Requests, ZfpsMonitorThrows(r)
      PROVE  SessionInv'
  <2>1. pc[r] # "idle" /\ pc[r] \in ZfpsLabels
    BY <1>2 DEF ZfpsMonitorThrows, ZfpsLabels
  <2>2. service = "ZFPS"
    BY <2>1, LabelsApart DEF SessionInv
  <2> QED
    BY <1>2, <2>2, ZfpsMonitorInv
<1>3. CASE UNCHANGED fvars
  BY <1>3 DEF fvars, SessionInv, Typed, Evidenced, Required, RowOK, RequestOK, Solo,
              SoloOK, Busy, Challenged, SensorOK, Reported, Reporters
<1> QED
  BY <1>1, <1>2, <1>3, CallInv, GoOnInv, DieInv, BlsTimeInv, LbasTimeInv,
     ZfpsVaultInv, ZfpsWindowInv, SensorRevokeInv DEF INext

\* The invariant itself.
THEOREM SessionsKept == ISpec => []SessionInv
<1>1. IInit => SessionInv
  BY InitInv
<1>2. SessionInv /\ [INext]_fvars => SessionInv'
  BY NextInv
<1> QED
  BY <1>1, <1>2, PTL DEF ISpec

-----------------------------------------------------------------------------
(* What it says.                                                           *)

\* As long as nothing overlapped, the row and the world are as some request
\* left them.
LEMMA SoloHolds ==
    ASSUME SessionInv, ~ overlapped
    PROVE  \E l, h : SoloOK(l, h, row, world, faults)
<1>1. CASE Busy
  <2>1. PICK r \in Requests : pc[r] # "idle"
    BY <1>1 DEF Busy
  <2>2. SoloOK(pc[r], held[r], row, world, faults)
    BY <2>1 DEF SessionInv, Solo
  <2> QED
    BY <2>2
<1>2. CASE ~ Busy
  BY <1>2 DEF SessionInv, Solo
<1> QED
  BY <1>1, <1>2

LEMMA TypesSaid ==
    ASSUME SessionInv
    PROVE  ITypeOK
<1>1. {"idle"} \cup LabelsOf(service) \subseteq IdentityLabels
  BY DEF SessionInv, Typed, Services, LabelsOf, IdentityLabels, LbasLabels,
         SensorLabels
<1>2. pc \in [Requests -> IdentityLabels]
  BY <1>1 DEF SessionInv, Typed
<1>3. /\ service \in Services /\ row \in RowsOf(service) /\ world \in WorldType
      /\ overlapped \in BOOLEAN /\ faults \in Nat
      /\ held \in [Requests -> HeldOf(service) \cup {NoValue}]
  BY DEF SessionInv, Typed
<1>4. \A r \in Requests : held[r] = NoValue \/ held[r] \in HeldOf(service)
  BY <1>3
<1> QED
  BY <1>2, <1>3, <1>4 DEF ITypeOK, HeldOf

LEMMA OnceSaid ==
    ASSUME SessionInv
    PROVE  OncePerSession
<1> SUFFICES ASSUME ~ overlapped
             PROVE  /\ world.repeats = 0
                    /\ service # "ZFPS" /\ world.done > 1 =>
                           ExecutesFirst /\ faults > 0
  BY DEF OncePerSession
<1>1. PICK l, h : SoloOK(l, h, row, world, faults)
  BY SoloHolds
<1>2. /\ service \in Services /\ row \in RowsOf(service) /\ faults \in Nat
      /\ world.done \in Nat /\ SensorOK
  BY DEF SessionInv, Typed, WorldType
<1>3. world.repeats = 0
  BY <1>1 DEF SoloOK
<1>4. ASSUME service # "ZFPS", world.done > 1
      PROVE  ExecutesFirst /\ faults > 0
  <2>1. CASE service = "BIH"
    <3>1. row.kind # "ACCOUNT_SETUP" /\ faults # 0
      BY <1>1, <1>2, <1>4, <2>1 DEF SoloOK, BihSoloOK
    <3>2. row.kind = "OPERATION"
      BY <1>2, <2>1, <3>1 DEF RowsOf, BihRows, Kinds
    <3> QED
      BY <1>2, <2>1, <3>1, <3>2 DEF ExecutesFirst
  <2>2. CASE service = "BLS"
    BY <1>1, <1>2, <1>4, <2>2 DEF SoloOK, BlsSoloOK, ExecutesFirst
  <2>3. CASE service \in {"BLIDE", "ZFOE", "LBAS"}
    BY <1>1, <1>2, <1>4, <2>3 DEF SoloOK, BlideSoloOK, ZfoeSoloOK, LbasSoloOK
  <2>4. CASE service = "SENSOR"
    BY <1>2, <1>4, <2>4 DEF SensorOK
  <2> QED
    BY <1>2, <1>4, <2>1, <2>2, <2>3, <2>4 DEF Services
<1> QED
  BY <1>3, <1>4

LEMMA EvidenceSaid ==
    ASSUME SessionInv
    PROVE  EvidenceShown
BY DEF SessionInv, Evidenced, Has, EvidenceShown

LEMMA StatusSaid ==
    ASSUME SessionInv
    PROVE  StatusHonest
<1>1. /\ service \in Services /\ row \in RowsOf(service) /\ faults \in Nat
      /\ world.done \in Nat /\ SensorOK /\ RowOK(row, world, faults)
  BY DEF SessionInv, Typed, WorldType
<1> USE DEF Services, RowsOf, BihRows, BihStatuses, BlsRows, BlsStatuses, BlideRows,
            BlideStatuses, ZfoeRows, ZfoeStatuses, ZfpsRows, LbasRows, SensorRows
<1>2. row.status = "EXECUTED" => service = "BLS"
  BY <1>1
<1>3. row.status = "COMPLETED" =>
          service \in {"BIH", "BLIDE", "ZFOE", "ZFPS", "LBAS"}
  BY <1>1
<1>4. row.status = "EXECUTED" \/ (row.status = "COMPLETED" /\ service # "LBAS") =>
          world.done > 0
  BY <1>1, <1>2, <1>3 DEF RowOK, BihRowOK, BlsRowOK, BlideRowOK, ZfoeRowOK, ZfpsRowOK
<1>5. ASSUME row.status = "FAILED", world.done > 0, ~ overlapped, faults = 0
      PROVE  service = "ZFPS" /\ world.refused
  <2>1. PICK l, h : SoloOK(l, h, row, world, faults)
    BY <1>5, SoloHolds
  <2>2. service \in {"ZFPS", "SENSOR"}
    BY <1>1, <1>5, <2>1 DEF SoloOK, BihSoloOK, BlsSoloOK, BlideSoloOK, ZfoeSoloOK,
                            LbasSoloOK
  <2> QED
    BY <1>1, <1>5, <2>2 DEF RowOK, ZfpsRowOK, SensorOK
<1>6. service = "BLIDE" /\ row.status = "LIVENESS_CHALLENGED" =>
          row.challenges # <<>> \/ Busy \/ faults > 0
  <2>1. Len(<<>>) = 0
    OBVIOUS
  <2> QED
    BY <1>1, <2>1 DEF SessionInv, Challenged, Busy
<1>7. service = "SENSOR" /\ world.revoked => row.status = "REVOKED" \/ world.excused
  BY <1>1 DEF SensorOK
<1> QED
  BY <1>1, <1>4, <1>5, <1>6, <1>7 DEF StatusHonest

LEMMA ToldSaid ==
    ASSUME SessionInv
    PROVE  CustomerTold
<1> SUFFICES ASSUME ~ Busy, faults = 0, ~ world.excused
             PROVE  world.told = world.done
  BY DEF CustomerTold
<1>1. Reporters = {}
  BY DEF Busy, Reporters, Reporting
<1>2. Cardinality({}) = 0
  BY FS_EmptySet
<1>3. world.done = world.told + Cardinality(Reporters) /\ world.told \in Nat
  BY DEF SessionInv, Reported, Typed, WorldType
<1> QED
  BY <1>1, <1>2, <1>3

\* The row, the copies requests hold and the world keep their types.
THEOREM IdentityTypeCorrect == ISpec => []ITypeOK
<1>1. SessionInv => ITypeOK
  BY TypesSaid
<1> QED
  BY <1>1, SessionsKept, PTL

\* A session acts once and creates nothing twice, as long as no two of its
\* requests overlap and nothing fails between an execution and its record.
THEOREM SessionsActOnce == ISpec => []OncePerSession
<1>1. SessionInv => OncePerSession
  BY OnceSaid
<1> QED
  BY <1>1, SessionsKept, PTL

\* Nobody is served on another's finger, face, proof of life or tasks,
\* whatever the requests of a session do to each other, but for the
\* operations of BLIDE when requests overlap.
THEOREM ServedOnEvidence == ISpec => []EvidenceShown
<1>1. SessionInv => EvidenceShown
  BY EvidenceSaid
<1> QED
  BY <1>1, SessionsKept, PTL

\* What a row says of what was done is so.
THEOREM StatusesHonest == ISpec => []StatusHonest
<1>1. SessionInv => StatusHonest
  BY StatusSaid
<1> QED
  BY <1>1, SessionsKept, PTL

\* What was done for a customer and went well has been told.
THEOREM CustomersTold == ISpec => []CustomerTold
<1>1. SessionInv => CustomerTold
  BY ToldSaid
<1> QED
  BY <1>1, SessionsKept, PTL

=============================================================================
