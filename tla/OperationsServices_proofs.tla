---------------------- MODULE OperationsServices_proofs ----------------------
(***************************************************************************)
(* The safety properties of the operational services, for any number of    *)
(* requests, documents, vaults, launches and faults.  Every step of the    *)
(* frame shifts at most one request (Shifted); ShiftInv says once for all  *)
(* services what such a step owes the invariant of OperationsInvariant     *)
(* (ShiftOK), and each service pays it action by action.                   *)
(***************************************************************************)
EXTENDS OperationsInvariant, FiniteSetTheorems, SequenceTheorems, WellFoundedInduction,
        TLAPS

\* Request r is now at label with what it loaded; the others are where they
\* were.  o says whether requests have overlapped by now.
Shifted(r, label, loaded, rw, w, f, o) ==
    /\ pc' = [pc EXCEPT ![r] = label]
    /\ \/ held' = [held EXCEPT ![r] = loaded]
       \/ label = "idle" /\ held' \in {held, [held EXCEPT ![r] = NoValue]}
    /\ service' = service /\ row' = rw /\ world' = w
    /\ faults' = f /\ overlapped' = o

ShiftTyped(label, loaded, rw, w, f, o) ==
    /\ label \in {"idle"} \cup LabelsOf(service)
    /\ loaded \in OHeld(service) \cup {NoValue}
    /\ rw \in ORows(service) /\ OWorld(service, w)
    /\ f \in Nat /\ o \in BOOLEAN

\* Without an overlap so far, r was the one under way, or nobody was.
Alone(r, o) ==
    service # "SDK" /\ ~ o => ~ overlapped /\ (pc[r] # "idle" \/ ~ Busy)

OthersKept(r, rw, w) ==
    \A q \in Requests \ {r} :
        RequestOK(pc[q], held[q], row, world) => RequestOK(pc[q], held[q], rw, w)

BalanceKept(r, label, loaded, rw, w, f) ==
    \A n, m \in [Kinds -> Nat] :
        /\ Balanced(row, world, faults, n)
        /\ \A k \in Kinds :
               m[k] + Units(k, pc[r], held[r]) = n[k] + Units(k, label, loaded)
        => Balanced(rw, w, f, m)

ShiftOK(r, label, loaded, rw, w, f, o) ==
    /\ RowOK(rw, w, o)
    /\ label # "idle" => RequestOK(label, loaded, rw, w)
    /\ OthersKept(r, rw, w)
    /\ ~ o /\ SoloOK(pc[r], held[r], row, world, faults) =>
           SoloOK(label, loaded, rw, w, f)
    /\ Owed(rw, w, f) =>
           \/ label \in Debtors
           \/ Owed(row, world, faults) /\ pc[r] \notin Debtors
    /\ BalanceKept(r, label, loaded, rw, w, f)

-----------------------------------------------------------------------------
(* What requests have in hand, summed over all of them.                    *)

LEMMA UnitsOf ==
    ASSUME NEW k \in Kinds, NEW l \in {"idle"} \cup LabelsOf(service),
           service \in OServices, NEW h, NEW rw, NEW w, RequestOK(l, h, rw, w)
    PROVE  Units(k, l, h) \in Nat
<1>1. CASE k = "uncounted" /\ l \in {"bank_push", "ver_mirror"}
  <2>1. service \in {"BANK", "VERIFY"}
    BY <1>1 DEF LabelsOf, OServices, TerminalLabels, VaultLabels, SdkLabels,
                ProofLabels, AnchorLabels
  <2>2. CASE service = "BANK"
    <3>1. l = "bank_push"
      BY <1>1, <2>2 DEF LabelsOf, BankLabels
    <3>2. h \in BankHeld /\ h.left <= h.found
      BY <2>2, <3>1 DEF RequestOK, BankRequestOK, BankLabels
    <3>3. h.left \in Nat /\ h.found \in Nat
      BY <3>2 DEF BankHeld
    <3>4. h.found - h.left \in Nat
      BY <3>2, <3>3
    <3> QED
      BY <1>1, <3>4 DEF Units
  <2>3. CASE service = "VERIFY"
    <3>1. l = "ver_mirror"
      BY <1>1, <2>3 DEF LabelsOf, VerifyLabels
    <3>2. h \in [found : 0..Gates, left : 0..Gates] /\ h.left <= h.found
      BY <2>3, <3>1 DEF RequestOK, VerifyRequestOK
    <3>3. h.left \in Nat /\ h.found \in Nat
      BY <3>2 DEF Gates
    <3>4. h.found - h.left \in Nat
      BY <3>2, <3>3
    <3> QED
      BY <1>1, <3>4 DEF Units
  <2> QED
    BY <2>1, <2>2, <2>3
<1>2. CASE ~ (k = "uncounted" /\ l \in {"bank_push", "ver_mirror"})
  BY <1>2 DEF Units, Kinds
<1> QED
  BY <1>1, <1>2

LEMMA IdleHasNothing ==
    ASSUME NEW k, NEW h
    PROVE  Units(k, "idle", h) = 0
BY DEF Units

\* One request's units, as a set.
LEMMA UnitsCount ==
    ASSUME NEW r, NEW n \in Nat
    PROVE  IsFiniteSet({r} \X (1 .. n)) /\ Cardinality({r} \X (1 .. n)) = n
<1> DEFINE f == [i \in 1 .. n |-> <<r, i>>]
<1>1. f \in [1 .. n -> {r} \X (1 .. n)]
  OBVIOUS
<1>2. f \in Bijection(1 .. n, {r} \X (1 .. n))
  <2>1. \A i, j \in 1 .. n : f[i] = f[j] => i = j
    OBVIOUS
  <2>2. \A p \in {r} \X (1 .. n) : \E i \in 1 .. n : f[i] = p
    OBVIOUS
  <2> QED
    BY <1>1, <2>1, <2>2 DEF Bijection, Injection, Surjection, IsInjective
<1>3. ExistsBijection(1 .. n, {r} \X (1 .. n))
  BY <1>2 DEF ExistsBijection
<1>4. IsFiniteSet(1 .. n) /\ Cardinality(1 .. n) = n
  BY FS_Interval
<1> QED
  BY <1>3, <1>4, FS_Bijection

HandOf(k, r) ==
    IF pc[r] = "idle" THEN {} ELSE {r} \X (1 .. Units(k, pc[r], held[r]))

LEMMA HandSplit ==
    ASSUME NEW k, NEW r \in Requests
    PROVE  InHand(k) = HandOf(k, r) \cup UNION {HandOf(k, q) : q \in Requests \ {r}}
BY DEF InHand, HandOf

\* A step changes the sum by what it changes of its own request's.
LEMMA InHandShift ==
    ASSUME NEW k \in Kinds, NEW r \in Requests, NEW label, NEW loaded,
           pc'[r] = label, label # "idle" => held'[r] = loaded,
           \A q \in Requests \ {r} : pc'[q] = pc[q] /\ held'[q] = held[q],
           Units(k, pc[r], held[r]) \in Nat, Units(k, label, loaded) \in Nat,
           IsFiniteSet(InHand(k))
    PROVE  /\ IsFiniteSet(InHand(k)')
           /\ Cardinality(InHand(k)) \in Nat /\ Cardinality(InHand(k)') \in Nat
           /\ Cardinality(InHand(k)') + Units(k, pc[r], held[r]) =
                  Cardinality(InHand(k)) + Units(k, label, loaded)
<1> DEFINE others == UNION {HandOf(k, q) : q \in Requests \ {r}}
           old == HandOf(k, r)
           new == IF label = "idle" THEN {} ELSE {r} \X (1 .. Units(k, label, loaded))
           a == Units(k, pc[r], held[r])
           b == Units(k, label, loaded)
<1>1. InHand(k) = old \cup others
  BY HandSplit
<1>2. HandOf(k, r)' = new
  BY DEF HandOf, Units
<1>3. \A q \in Requests \ {r} : HandOf(k, q)' = HandOf(k, q)
  BY DEF HandOf, Units
<1>4. InHand(k)' = HandOf(k, r)' \cup UNION {HandOf(k, q)' : q \in Requests \ {r}}
  BY DEF InHand, HandOf
<1>5. InHand(k)' = new \cup others
  BY <1>2, <1>3, <1>4
<1>6. IsFiniteSet(old) /\ Cardinality(old) = a
  <2>1. CASE pc[r] = "idle"
    <3>1. old = {} /\ a = 0
      BY <2>1, IdleHasNothing DEF HandOf
    <3> QED
      BY <3>1, FS_EmptySet
  <2>2. CASE pc[r] # "idle"
    <3>1. old = {r} \X (1 .. a) /\ a \in Nat
      BY <2>2 DEF HandOf
    <3> HIDE DEF old, a
    <3>2. IsFiniteSet({r} \X (1 .. a)) /\ Cardinality({r} \X (1 .. a)) = a
      BY <3>1, UnitsCount
    <3> QED
      BY <3>1, <3>2
  <2> QED
    BY <2>1, <2>2
<1>7. IsFiniteSet(new) /\ Cardinality(new) = b
  <2>1. CASE label = "idle"
    <3>1. new = {} /\ b = 0
      BY <2>1, IdleHasNothing
    <3> QED
      BY <3>1, FS_EmptySet
  <2>2. CASE label # "idle"
    <3>1. new = {r} \X (1 .. b) /\ b \in Nat
      BY <2>2
    <3> HIDE DEF new, b
    <3>2. IsFiniteSet({r} \X (1 .. b)) /\ Cardinality({r} \X (1 .. b)) = b
      BY <3>1, UnitsCount
    <3> QED
      BY <3>1, <3>2
  <2> QED
    BY <2>1, <2>2
<1>8. old \cap others = {} /\ new \cap others = {}
  BY DEF HandOf
<1>9. IsFiniteSet(others)
  BY <1>1, FS_Subset
<1> HIDE DEF others, old, new
<1>10. Cardinality(others) \in Nat
  BY <1>9, FS_CardinalityType
<1>11. /\ IsFiniteSet(old \cup others) /\ IsFiniteSet(new \cup others)
       /\ Cardinality(old \cup others) = a + Cardinality(others)
       /\ Cardinality(new \cup others) = b + Cardinality(others)
  <2>1. Cardinality({}) = 0
    BY FS_EmptySet
  <2> DEFINE c == Cardinality(others)
  <2>2. /\ Cardinality(old \cup others) = a + c - 0
        /\ Cardinality(new \cup others) = b + c - 0
    <3> HIDE DEF a, b
    <3>1. /\ Cardinality(old \cup others)
                = Cardinality(old) + c - Cardinality(old \cap others)
          /\ Cardinality(new \cup others)
                = Cardinality(new) + c - Cardinality(new \cap others)
      BY <1>6, <1>7, <1>9, FS_Union
    <3> QED
      BY <1>6, <1>7, <1>8, <2>1, <3>1, Zenon
  <2>3. a \in Nat /\ b \in Nat /\ c \in Nat
    BY <1>10
  <2> HIDE DEF a, b, c
  <2>4. a + c - 0 = a + c /\ b + c - 0 = b + c
    BY <2>3
  <2>5. IsFiniteSet(old \cup others) /\ IsFiniteSet(new \cup others)
    BY <1>6, <1>7, <1>9, FS_Union
  <2> QED
    BY <2>2, <2>4, <2>5 DEF c
<1> QED
  <2> DEFINE c == Cardinality(others)
  <2>1. a \in Nat /\ b \in Nat /\ c \in Nat
    BY <1>10
  <2>2. /\ Cardinality(InHand(k)) = a + c /\ Cardinality(InHand(k)') = b + c
        /\ IsFiniteSet(InHand(k)')
    BY <1>1, <1>5, <1>11
  <2> HIDE DEF a, b, c
  <2>3. a + c \in Nat /\ b + c \in Nat /\ (b + c) + a = (a + c) + b
    BY <2>1
  <2> QED
    BY <2>2, <2>3 DEF a, b
-----------------------------------------------------------------------------
(* A step that pays what it owes keeps the invariant.                      *)

\* Nothing is relied on by a request that is not under way.
LEMMA IdleRelies ==
    ASSUME NEW h, NEW rw, NEW w
    PROVE  RequestOK("idle", h, rw, w)
BY DEF RequestOK, TerminalRequestOK, TerminalLabels, VerifyRequestOK,
       BankRequestOK, BankLabels, LicenceRequestOK, VaultRequestOK, FlipLabels,
       SdkRequestOK, SdkLabels, GateLabels, ProofRequestOK, ProofLabels,
       AnchorRequestOK, AnchorLabels

\* Nor does it matter what it held.
LEMMA IdleHolds ==
    ASSUME NEW h, NEW k, NEW rw, NEW w, NEW f, SoloOK("idle", h, rw, w, f)
    PROVE  SoloOK("idle", k, rw, w, f)
BY DEF SoloOK, TerminalSoloOK, VerifySoloOK, BankSoloOK, LicenceSoloOK,
       FlagSoloOK, VaultSoloOK, FlipLabels

LEMMA ShiftTypes ==
    ASSUME Typed, NEW r \in Requests, NEW label, NEW loaded, NEW rw, NEW w, NEW f,
           NEW o, Shifted(r, label, loaded, rw, w, f, o),
           ShiftTyped(label, loaded, rw, w, f, o)
    PROVE  /\ Typed'
           /\ pc'[r] = label /\ (label # "idle" => held'[r] = loaded)
           /\ \A q \in Requests \ {r} : pc'[q] = pc[q] /\ held'[q] = held[q]
<1>1. /\ pc' = [pc EXCEPT ![r] = label]
      /\ \/ held' = [held EXCEPT ![r] = loaded]
         \/ label = "idle" /\ held' \in {held, [held EXCEPT ![r] = NoValue]}
      /\ service' = service /\ row' = rw /\ world' = w /\ faults' = f
      /\ overlapped' = o
  BY DEF Shifted
<1>2. /\ pc \in [Requests -> {"idle"} \cup LabelsOf(service)]
      /\ held \in [Requests -> OHeld(service) \cup {NoValue}]
      /\ service \in OServices
  BY DEF Typed
<1>3. /\ label \in {"idle"} \cup LabelsOf(service)
      /\ loaded \in OHeld(service) \cup {NoValue}
      /\ rw \in ORows(service) /\ OWorld(service, w) /\ f \in Nat /\ o \in BOOLEAN
  BY DEF ShiftTyped
<1>4. pc' \in [Requests -> {"idle"} \cup LabelsOf(service)]
  BY <1>1, <1>2, <1>3
<1>5. held' \in [Requests -> OHeld(service) \cup {NoValue}]
  BY <1>1, <1>2, <1>3
<1>6. pc'[r] = label /\ (label # "idle" => held'[r] = loaded)
  BY <1>1, <1>2
<1>7. \A q \in Requests \ {r} : pc'[q] = pc[q] /\ held'[q] = held[q]
  BY <1>1, <1>2
<1>8. Typed'
  BY <1>1, <1>2, <1>3, <1>4, <1>5 DEF Typed
<1> QED
  BY <1>6, <1>7, <1>8

\* The parts speak of the service followed, which no step changes.
LEMMA SameService ==
    ASSUME service' = service
    PROVE  /\ \A rw, w, o : RowOK(rw, w, o)
                  => (row' = rw /\ world' = w /\ overlapped' = o
                          => RowOK(row, world, overlapped)')
           /\ \A l, h, rw, w : RequestOK(l, h, rw, w)
                  => \A q : pc'[q] = l /\ held'[q] = h /\ row' = rw /\ world' = w
                          => RequestOK(pc[q], held[q], row, world)'
           /\ \A l, h, rw, w, f : SoloOK(l, h, rw, w, f)
                  => \A q : /\ pc'[q] = l /\ held'[q] = h
                            /\ row' = rw /\ world' = w /\ faults' = f
                          => SoloOK(pc[q], held[q], row, world, faults)'
           /\ \A h, rw, w, f : SoloOK("idle", h, rw, w, f)
                  => (row' = rw /\ world' = w /\ faults' = f
                          => SoloOK("idle", NoValue, row, world, faults)')
<1>1. \A rw, w, o : RowOK(rw, w, o)
          => (row' = rw /\ world' = w /\ overlapped' = o
                  => RowOK(row, world, overlapped)')
  BY DEF RowOK
<1>2. \A l, h, rw, w : RequestOK(l, h, rw, w)
          => \A q : pc'[q] = l /\ held'[q] = h /\ row' = rw /\ world' = w
                  => RequestOK(pc[q], held[q], row, world)'
  BY DEF RequestOK
<1>3. \A l, h, rw, w, f : SoloOK(l, h, rw, w, f)
          => \A q : /\ pc'[q] = l /\ held'[q] = h
                    /\ row' = rw /\ world' = w /\ faults' = f
                  => SoloOK(pc[q], held[q], row, world, faults)'
  BY DEF SoloOK
<1>4. \A h, rw, w, f : SoloOK("idle", h, rw, w, f)
          => (row' = rw /\ world' = w /\ faults' = f
                  => SoloOK("idle", NoValue, row, world, faults)')
  <2> SUFFICES ASSUME NEW h, NEW rw, NEW w, NEW f, SoloOK("idle", h, rw, w, f),
                      row' = rw, world' = w, faults' = f
               PROVE  SoloOK("idle", NoValue, row, world, faults)'
    OBVIOUS
  <2>1. SoloOK("idle", NoValue, rw, w, f)
    BY IdleHolds
  <2> QED
    BY <2>1 DEF SoloOK
<1> QED
  BY <1>1, <1>2, <1>3, <1>4

LEMMA ShiftInv ==
    ASSUME OperationsInv, NEW r \in Requests, NEW label, NEW loaded, NEW rw, NEW w,
           NEW f, NEW o,
           Shifted(r, label, loaded, rw, w, f, o),
           ShiftTyped(label, loaded, rw, w, f, o), Alone(r, o),
           ShiftOK(r, label, loaded, rw, w, f, o)
    PROVE  OperationsInv'
<1>1. /\ Typed'
      /\ pc'[r] = label /\ (label # "idle" => held'[r] = loaded)
      /\ \A q \in Requests \ {r} : pc'[q] = pc[q] /\ held'[q] = held[q]
  BY ShiftTypes DEF OperationsInv
<1>2. service' = service /\ row' = rw /\ world' = w /\ faults' = f
      /\ overlapped' = o
  BY DEF Shifted
<1>3. RowOK(row, world, overlapped)'
  BY <1>2, SameService DEF ShiftOK
<1>4. \A q \in Requests : RequestOK(pc[q], held[q], row, world)'
  <2> SUFFICES ASSUME NEW q \in Requests
               PROVE  RequestOK(pc[q], held[q], row, world)'
    OBVIOUS
  <2>1. CASE q # r
    <3>1. RequestOK(pc[q], held[q], rw, w)
      BY <2>1 DEF OperationsInv, ShiftOK, OthersKept
    <3> QED
      BY <1>1, <1>2, <2>1, <3>1, SameService
  <2>2. CASE q = r /\ label = "idle"
    <3>1. RequestOK("idle", held'[q], rw, w)
      BY IdleRelies
    <3> QED
      BY <1>1, <1>2, <2>2, <3>1, SameService
  <2>3. CASE q = r /\ label # "idle"
    <3>1. RequestOK(label, loaded, rw, w)
      BY <2>3 DEF ShiftOK
    <3> QED
      BY <1>1, <1>2, <2>3, <3>1, SameService
  <2> QED
    BY <2>1, <2>2, <2>3
<1>5. Solo'
  <2> SUFFICES ASSUME service # "SDK", ~ o PROVE Solo'
    BY <1>2 DEF Solo
  <2>1. ~ overlapped /\ (pc[r] # "idle" \/ ~ Busy)
    BY DEF Alone
  <2>2. /\ \A p, q \in Requests : pc[p] # "idle" /\ pc[q] # "idle" => p = q
        /\ \A q \in Requests :
               pc[q] # "idle" => SoloOK(pc[q], held[q], row, world, faults)
        /\ ~ Busy => SoloOK("idle", NoValue, row, world, faults)
    BY <2>1 DEF OperationsInv, Solo
  <2>3. SoloOK(pc[r], held[r], row, world, faults)
    <3>1. CASE pc[r] # "idle"
      BY <2>2, <3>1
    <3>2. CASE pc[r] = "idle"
      <4>1. SoloOK("idle", NoValue, row, world, faults)
        BY <2>1, <2>2, <3>2
      <4>2. SoloOK("idle", held[r], row, world, faults)
        BY <4>1, IdleHolds
      <4> QED
        BY <3>2, <4>2
    <3> QED
      BY <3>1, <3>2
  <2>4. SoloOK(label, loaded, rw, w, f)
    BY <2>3 DEF ShiftOK
  <2>5. \A q \in Requests : q # r => pc[q] = "idle"
    BY <2>1, <2>2 DEF Busy
  <2>6. \A q \in Requests : pc'[q] # "idle" => q = r
    BY <1>1, <2>5
  <2>7. \A q \in Requests :
            pc'[q] # "idle" => SoloOK(pc[q], held[q], row, world, faults)'
    BY <1>1, <1>2, <2>4, <2>6, SameService
  <2>8. ~ Busy' => SoloOK("idle", NoValue, row, world, faults)'
    <3> SUFFICES ASSUME ~ Busy'
                 PROVE  SoloOK("idle", NoValue, row, world, faults)'
      OBVIOUS
    <3>1. label = "idle"
      BY <1>1 DEF Busy
    <3> QED
      BY <1>2, <2>4, <3>1, SameService
  <2> QED
    BY <2>6, <2>7, <2>8 DEF Solo
<1>6. Owing'
  <2> SUFFICES ASSUME Owed(row, world, faults)'
               PROVE  \E q \in Requests : pc'[q] \in Debtors
    BY DEF Owing, Debtors
  <2>1. Owed(rw, w, f)
    BY <1>2 DEF Owed, AllFailed
  <2>2. CASE label \in Debtors
    BY <1>1, <2>2
  <2>3. CASE Owed(row, world, faults) /\ pc[r] \notin Debtors
    <3>1. PICK q \in Requests : pc[q] \in Debtors
      BY <2>3 DEF OperationsInv, Owing
    <3> QED
      BY <1>1, <2>3, <3>1
  <2> QED
    BY <2>1, <2>2, <2>3 DEF ShiftOK
<1>7. Counted'
  <2>1. \A k \in Kinds : IsFiniteSet(InHand(k))
    BY DEF OperationsInv, Counted
  <2>2. \A k \in Kinds : /\ Units(k, pc[r], held[r]) \in Nat
                         /\ Units(k, label, loaded) \in Nat
    <3> TAKE k \in Kinds
    <3>1. /\ pc[r] \in {"idle"} \cup LabelsOf(service) /\ service \in OServices
          /\ label \in {"idle"} \cup LabelsOf(service)
          /\ RequestOK(pc[r], held[r], row, world)
      BY DEF OperationsInv, Typed, ShiftTyped
    <3>2. Units(k, pc[r], held[r]) \in Nat
      BY <3>1, UnitsOf
    <3>3. CASE label = "idle"
      BY <3>2, <3>3, IdleHasNothing
    <3>4. CASE label # "idle"
      <4>1. RequestOK(label, loaded, rw, w)
        BY <3>4 DEF ShiftOK
      <4> QED
        BY <3>1, <3>2, <4>1, UnitsOf
    <3> QED
      BY <3>3, <3>4
  <2>3. \A k \in Kinds :
            /\ IsFiniteSet(InHand(k)')
            /\ Cardinality(InHand(k)) \in Nat /\ Cardinality(InHand(k)') \in Nat
            /\ Cardinality(InHand(k)') + Units(k, pc[r], held[r]) =
                   Cardinality(InHand(k)) + Units(k, label, loaded)
    BY <1>1, <2>1, <2>2, InHandShift
  <2> DEFINE n == [k \in Kinds |-> Cardinality(InHand(k))]
             m == [k \in Kinds |-> Cardinality(InHand(k)')]
  <2>4. n \in [Kinds -> Nat] /\ m \in [Kinds -> Nat]
    BY <2>3
  <2>5. \A k \in Kinds :
            m[k] + Units(k, pc[r], held[r]) = n[k] + Units(k, label, loaded)
    BY <2>3
  <2>6. Balanced(row, world, faults, n)
    BY DEF OperationsInv, Counted
  <2> HIDE DEF n, m
  <2>7. Balanced(rw, w, f, m)
    BY <2>4, <2>5, <2>6 DEF ShiftOK, BalanceKept
  <2>8. n' = m
    BY DEF n, m
  <2>9. Balanced(row, world, faults, n)'
    BY <1>2, <2>7, <2>8 DEF Balanced, ActiveOf
  <2> QED
    BY <2>3, <2>9 DEF Counted, n
<1> QED
  BY <1>1, <1>3, <1>4, <1>5, <1>6, <1>7 DEF OperationsInv

-----------------------------------------------------------------------------
(* The forms of a step.                                                    *)

LEMMA StepInv ==
    ASSUME OperationsInv, NEW r \in Requests, NEW label, NEW loaded, NEW rw, NEW w,
           pc[r] # "idle" \/ service = "SDK",
           Step(r, label, loaded, rw, w),
           ShiftTyped(label, loaded, rw, w, faults, overlapped),
           ShiftOK(r, label, loaded, rw, w, faults, overlapped)
    PROVE  OperationsInv'
<1>1. Shifted(r, label, loaded, rw, w, faults, overlapped)
  BY DEF Shifted, Step, Proceed
<1>2. Alone(r, overlapped)
  BY DEF Alone
<1> QED
  BY <1>1, <1>2, ShiftInv

LEMMA FaultInv ==
    ASSUME OperationsInv, NEW r \in Requests, NEW label, NEW w,
           pc[r] # "idle", Fault(r, label, w),
           ShiftTyped(label, held[r], row, w, faults + 1, overlapped),
           ShiftOK(r, label, held[r], row, w, faults + 1, overlapped)
    PROVE  OperationsInv'
<1>1. Shifted(r, label, held[r], row, w, faults + 1, overlapped)
  BY DEF Shifted, Fault, Proceed
<1>2. Alone(r, overlapped)
  BY DEF Alone
<1> QED
  BY <1>1, <1>2, ShiftInv

\* A step that has none of the counted things in hand, before or after.
LEMMA BalanceStays ==
    ASSUME NEW r, NEW label, NEW loaded, NEW rw, NEW w, NEW f,
           \A k \in Kinds : /\ Units(k, pc[r], held[r]) = 0
                            /\ Units(k, label, loaded) = 0,
           \A n : Balanced(row, world, faults, n) => Balanced(rw, w, f, n)
    PROVE  BalanceKept(r, label, loaded, rw, w, f)
<1> SUFFICES ASSUME NEW n \in [Kinds -> Nat], NEW m \in [Kinds -> Nat],
                    Balanced(row, world, faults, n),
                    \A k \in Kinds : m[k] + Units(k, pc[r], held[r])
                                         = n[k] + Units(k, label, loaded)
             PROVE  Balanced(rw, w, f, m)
  BY DEF BalanceKept
<1>1. \A k \in Kinds : m[k] = n[k]
  OBVIOUS
<1>2. m = n
  BY <1>1
<1> QED
  BY <1>2

LEMMA NoBooks ==
    ASSUME service \notin {"BANK", "VERIFY", "VAULT"},
           NEW r, NEW label, NEW loaded, NEW rw, NEW w, NEW f
    PROVE  BalanceKept(r, label, loaded, rw, w, f)
BY DEF BalanceKept, Balanced

LEMMA BeginInv ==
    ASSUME OperationsInv, NEW r \in Requests, NEW label \in LabelsOf(service),
           NEW loaded \in OHeld(service) \cup {NoValue}, Begin(r, label, loaded),
           RequestOK(label, loaded, row, world),
           SoloOK("idle", NoValue, row, world, faults) =>
               SoloOK(label, loaded, row, world, faults),
           \A k \in Kinds : Units(k, label, loaded) = 0
    PROVE  OperationsInv'
<1> DEFINE o == overlapped \/ Busy
<1>1. /\ pc[r] = "idle" /\ pc' = [pc EXCEPT ![r] = label]
      /\ held' = [held EXCEPT ![r] = loaded] /\ overlapped' = o
      /\ service' = service /\ row' = row /\ world' = world /\ faults' = faults
  BY DEF Begin
<1>2. Shifted(r, label, loaded, row, world, faults, o)
  BY <1>1 DEF Shifted
<1>3. ShiftTyped(label, loaded, row, world, faults, o)
  BY DEF ShiftTyped, OperationsInv, Typed
<1>4. Alone(r, o)
  BY DEF Alone
<1>5. RowOK(row, world, o)
  <2>1. RowOK(row, world, overlapped) /\ (overlapped => o)
    BY DEF OperationsInv
  <2> QED
    BY <2>1 DEF RowOK, TerminalRowOK, LicenceRowOK
<1>6. SoloOK(pc[r], held[r], row, world, faults) =>
          SoloOK(label, loaded, row, world, faults)
  BY <1>1, IdleHolds
<1>7. BalanceKept(r, label, loaded, row, world, faults)
  <2>1. \A k \in Kinds : Units(k, pc[r], held[r]) = 0
    BY <1>1, IdleHasNothing
  <2> QED
    BY <2>1, BalanceStays
<1>8. pc[r] \notin Debtors
  BY <1>1 DEF Debtors
<1> HIDE DEF o
<1>9. ShiftOK(r, label, loaded, row, world, faults, o)
  BY <1>5, <1>6, <1>7, <1>8 DEF ShiftOK, OthersKept
<1> QED
  BY <1>2, <1>3, <1>4, <1>9, ShiftInv

LEMMA OnceInv ==
    ASSUME OperationsInv, NEW r \in Requests, NEW rw, NEW w, Once(r, rw, w),
           rw \in ORows(service), OWorld(service, w),
           RowOK(rw, w, overlapped \/ Busy), OthersKept(r, rw, w),
           SoloOK("idle", NoValue, row, world, faults) =>
               SoloOK("idle", NoValue, rw, w, faults),
           Owed(rw, w, faults) => Owed(row, world, faults),
           \A n : Balanced(row, world, faults, n) => Balanced(rw, w, faults, n)
    PROVE  OperationsInv'
<1> DEFINE o == overlapped \/ Busy
<1>1. /\ pc[r] = "idle" /\ pc' = pc /\ held' = held /\ overlapped' = o
      /\ service' = service /\ row' = rw /\ world' = w /\ faults' = faults
  BY DEF Once
<1>2. /\ pc \in [Requests -> {"idle"} \cup LabelsOf(service)]
      /\ held \in [Requests -> OHeld(service) \cup {NoValue}]
      /\ overlapped \in BOOLEAN /\ faults \in Nat
  BY DEF OperationsInv, Typed
<1>3. pc' = [pc EXCEPT ![r] = "idle"]
  BY <1>1, <1>2
<1>4. Shifted(r, "idle", held[r], rw, w, faults, o)
  BY <1>1, <1>3 DEF Shifted
<1>5. ShiftTyped("idle", held[r], rw, w, faults, o)
  BY <1>2 DEF ShiftTyped
<1>6. Alone(r, o)
  BY DEF Alone
<1>7. SoloOK(pc[r], held[r], row, world, faults) =>
          SoloOK("idle", held[r], rw, w, faults)
  BY <1>1, IdleHolds
<1>8. BalanceKept(r, "idle", held[r], rw, w, faults)
  <2>1. \A k \in Kinds : /\ Units(k, pc[r], held[r]) = 0
                         /\ Units(k, "idle", held[r]) = 0
    BY <1>1, IdleHasNothing
  <2> QED
    BY <2>1, BalanceStays
<1>9. pc[r] \notin Debtors
  BY <1>1 DEF Debtors
<1>10. RowOK(rw, w, o)
  OBVIOUS
<1> HIDE DEF o
<1>11. ShiftOK(r, "idle", held[r], rw, w, faults, o)
  BY <1>7, <1>8, <1>9, <1>10 DEF ShiftOK
<1> QED
  BY <1>4, <1>5, <1>6, <1>11, ShiftInv

\* Something that no request does.
LEMMA OutsideInv ==
    ASSUME OperationsInv, NEW rw, NEW w, Outside(rw, w),
           rw \in ORows(service), OWorld(service, w), RowOK(rw, w, overlapped),
           \A q \in Requests : RequestOK(pc[q], held[q], row, world) =>
                                   RequestOK(pc[q], held[q], rw, w),
           \A q \in Requests : RequestOK(pc[q], held[q], row, world) =>
               (SoloOK(pc[q], held[q], row, world, faults) =>
                    SoloOK(pc[q], held[q], rw, w, faults)),
           SoloOK("idle", NoValue, row, world, faults) =>
               SoloOK("idle", NoValue, rw, w, faults),
           Owed(rw, w, faults) => Owed(row, world, faults),
           \A n : Balanced(row, world, faults, n) => Balanced(rw, w, faults, n)
    PROVE  OperationsInv'
<1>1. /\ row' = rw /\ world' = w /\ service' = service /\ pc' = pc /\ held' = held
      /\ overlapped' = overlapped /\ faults' = faults
  BY DEF Outside
<1>2. Typed'
  BY <1>1 DEF OperationsInv, Typed
<1>3. RowOK(row, world, overlapped)'
  BY <1>1, SameService
<1>4. \A q \in Requests : RequestOK(pc[q], held[q], row, world)'
  BY <1>1, SameService DEF OperationsInv
<1>5. Solo'
  <2> SUFFICES ASSUME service # "SDK", ~ overlapped PROVE Solo'
    BY <1>1 DEF Solo
  <2>1. /\ \A p, q \in Requests : pc[p] # "idle" /\ pc[q] # "idle" => p = q
        /\ \A q \in Requests :
               pc[q] # "idle" => SoloOK(pc[q], held[q], row, world, faults)
        /\ ~ Busy => SoloOK("idle", NoValue, row, world, faults)
    BY DEF OperationsInv, Solo
  <2>2. \A p, q \in Requests : pc'[p] # "idle" /\ pc'[q] # "idle" => p = q
    BY <1>1, <2>1
  <2>3. \A q \in Requests :
            pc'[q] # "idle" => SoloOK(pc[q], held[q], row, world, faults)'
    <3> SUFFICES ASSUME NEW q \in Requests, pc'[q] # "idle"
                 PROVE  SoloOK(pc[q], held[q], row, world, faults)'
      OBVIOUS
    <3>1. SoloOK(pc[q], held[q], rw, w, faults)
      BY <1>1, <2>1 DEF OperationsInv
    <3> QED
      BY <1>1, <3>1, SameService
  <2>4. ~ Busy' => SoloOK("idle", NoValue, row, world, faults)'
    <3>1. Busy' = Busy
      BY <1>1 DEF Busy
    <3> QED
      BY <1>1, <2>1, <3>1, SameService
  <2> QED
    BY <2>2, <2>3, <2>4 DEF Solo
<1>6. Owing'
  <2>1. Owed(row, world, faults)' => Owed(rw, w, faults)
    BY <1>1 DEF Owed, AllFailed
  <2> QED
    BY <1>1, <2>1 DEF OperationsInv, Owing
<1>7. Counted'
  <2>1. \A k \in Kinds : InHand(k)' = InHand(k)
    BY <1>1 DEF InHand, Units
  <2> DEFINE n == [k \in Kinds |-> Cardinality(InHand(k))]
  <2>2. n' = n
    BY <2>1
  <2>3. Balanced(row, world, faults, n) /\ (\A k \in Kinds : IsFiniteSet(InHand(k)))
    BY DEF OperationsInv, Counted
  <2> HIDE DEF n
  <2>4. Balanced(rw, w, faults, n)
    BY <2>3
  <2>5. Balanced(row, world, faults, n)'
    BY <1>1, <2>2, <2>4 DEF Balanced, ActiveOf
  <2> QED
    BY <2>1, <2>3, <2>5 DEF Counted, n
<1> QED
  BY <1>2, <1>3, <1>4, <1>5, <1>6, <1>7 DEF OperationsInv

\* A request that dies leaves what it had in hand uncounted: from then on the
\* bank's count may be behind, and nothing else is claimed.
LEMMA DieInv ==
    ASSUME OperationsInv, NEW r \in Requests, Die(r)
    PROVE  OperationsInv'
<1>1. pc[r] # "idle" /\ Fault(r, "idle", world)
  BY DEF Die
<1>2. /\ Typed /\ faults \in Nat /\ faults + 1 \in Nat /\ faults + 1 # 0
      /\ pc[r] \in {"idle"} \cup LabelsOf(service) /\ service \in OServices
      /\ held[r] \in OHeld(service) \cup {NoValue}
      /\ RowOK(row, world, overlapped)
      /\ RequestOK(pc[r], held[r], row, world)
  BY DEF OperationsInv, Typed
<1>3. ShiftTyped("idle", held[r], row, world, faults + 1, overlapped)
  BY <1>2 DEF ShiftTyped, Typed
<1>4. SoloOK(pc[r], held[r], row, world, faults) =>
          SoloOK("idle", held[r], row, world, faults + 1)
  BY <1>1, <1>2 DEF SoloOK, TerminalSoloOK, VerifySoloOK, BankSoloOK,
                    LicenceSoloOK, FlagSoloOK, VaultSoloOK
<1>5. ~ Owed(row, world, faults + 1)
  BY <1>2 DEF Owed
<1>6. BalanceKept(r, "idle", held[r], row, world, faults + 1)
  <2> SUFFICES ASSUME NEW n \in [Kinds -> Nat], NEW m \in [Kinds -> Nat],
                      Balanced(row, world, faults, n),
                      \A k \in Kinds : m[k] + Units(k, pc[r], held[r])
                                           = n[k] + Units(k, "idle", held[r])
               PROVE  Balanced(row, world, faults + 1, m)
    BY DEF BalanceKept
  <2>1. "uncounted" \in Kinds
    BY DEF Kinds
  <2>2. /\ Units("uncounted", pc[r], held[r]) \in Nat
        /\ Units("uncounted", "idle", held[r]) = 0
    BY <1>2, <2>1, UnitsOf, IdleHasNothing
  <2>3. m["uncounted"] \in Nat /\ n["uncounted"] \in Nat
    BY <2>1
  <2>4. m["uncounted"] <= n["uncounted"]
    BY <2>1, <2>2, <2>3
  <2>5. service = "BANK" => row.pushCount \in Nat /\ row.pushes \in Nat
    BY <1>2 DEF Typed, ORows, BankRows
  <2>6. service = "BANK" => row.pushCount + m["uncounted"] <= row.pushes
    BY <2>3, <2>4, <2>5 DEF Balanced
  <2> QED
    BY <1>2, <2>6 DEF Balanced
<1>7. ShiftOK(r, "idle", held[r], row, world, faults + 1, overlapped)
  BY <1>2, <1>4, <1>5, <1>6 DEF ShiftOK, OthersKept
<1> QED
  BY <1>1, <1>3, <1>7, FaultInv

-----------------------------------------------------------------------------
(* The terminal.                                                           *)

LEMMA TerminalFacts ==
    ASSUME OperationsInv, service = "TERMINAL", NEW r \in Requests
    PROVE  /\ row \in TerminalRows /\ world \in TerminalWorlds
           /\ pc[r] \in {"idle"} \cup TerminalLabels
           /\ held[r] \in TerminalHeld \cup {NoValue}
           /\ faults \in Nat /\ overlapped \in BOOLEAN
           /\ TerminalRowOK(row, world, overlapped)
           /\ TerminalRequestOK(pc[r], held[r], world)
           /\ row.consecutiveFailedUnlocks \in Nat /\ world.misses \in Nat
<1>1. /\ row \in TerminalRows /\ world \in TerminalWorlds
      /\ pc[r] \in {"idle"} \cup TerminalLabels
      /\ held[r] \in TerminalHeld \cup {NoValue}
      /\ faults \in Nat /\ overlapped \in BOOLEAN
  BY DEF OperationsInv, Typed, ORows, OWorld, OHeld, LabelsOf
<1>2. TerminalRowOK(row, world, overlapped)
  BY DEF OperationsInv, RowOK
<1>3. TerminalRequestOK(pc[r], held[r], world)
  BY DEF OperationsInv, RequestOK
<1> QED
  BY <1>1, <1>2, <1>3 DEF TerminalRows, TerminalWorlds

LEMMA TerminalStepInv ==
    ASSUME OperationsInv, service = "TERMINAL", NEW r \in Requests,
           NEW label \in {"idle"} \cup TerminalLabels,
           NEW loaded \in TerminalHeld \cup {NoValue},
           NEW rw \in TerminalRows, NEW w \in TerminalWorlds,
           pc[r] # "idle", Step(r, label, loaded, rw, w),
           TerminalRowOK(rw, w, overlapped),
           TerminalRequestOK(label, loaded, w),
           \A q \in Requests \ {r} :
               TerminalRequestOK(pc[q], held[q], world) => TerminalRequestOK(pc[q], held[q], w),
           ~ overlapped /\ TerminalSoloOK(pc[r], held[r], row, world, faults) =>
               TerminalSoloOK(label, loaded, rw, w, faults)
    PROVE  OperationsInv'
<1>1. ShiftTyped(label, loaded, rw, w, faults, overlapped)
  BY TerminalFacts DEF ShiftTyped, LabelsOf, OHeld, ORows, OWorld
<1>2. RowOK(rw, w, overlapped)
  BY DEF RowOK
<1>3. RequestOK(label, loaded, rw, w)
  BY DEF RequestOK
<1>4. OthersKept(r, rw, w)
  BY DEF OthersKept, RequestOK
<1>5. ~ overlapped /\ SoloOK(pc[r], held[r], row, world, faults) =>
          SoloOK(label, loaded, rw, w, faults)
  BY DEF SoloOK
<1>6. ~ Owed(rw, w, faults)
  BY DEF Owed
<1>7. BalanceKept(r, label, loaded, rw, w, faults)
  BY NoBooks
<1>8. ShiftOK(r, label, loaded, rw, w, faults, overlapped)
  BY <1>2, <1>3, <1>4, <1>5, <1>6, <1>7 DEF ShiftOK
<1> QED
  BY <1>1, <1>8, StepInv

LEMMA TerminalOnceInv ==
    ASSUME OperationsInv, service = "TERMINAL", NEW r \in Requests,
           NEW rw \in TerminalRows, Once(r, rw, world),
           rw.consecutiveFailedUnlocks = row.consecutiveFailedUnlocks,
           rw.lockState = "UNLOCKED" => row.lockState = "UNLOCKED"
    PROVE  OperationsInv'
<1>1. TerminalRowOK(row, world, overlapped) /\ world \in TerminalWorlds
  BY TerminalFacts
<1>2. RowOK(rw, world, overlapped \/ Busy)
  BY <1>1 DEF RowOK, TerminalRowOK
<1>3. OthersKept(r, rw, world)
  BY DEF OthersKept, RequestOK
<1>4. SoloOK("idle", NoValue, row, world, faults) =>
          SoloOK("idle", NoValue, rw, world, faults)
  BY DEF SoloOK, TerminalSoloOK
<1>5. rw \in ORows(service) /\ OWorld(service, world)
  BY <1>1 DEF ORows, OWorld
<1>6. Owed(rw, world, faults) => Owed(row, world, faults)
  BY DEF Owed
<1>7. \A n : Balanced(row, world, faults, n) => Balanced(rw, world, faults, n)
  BY DEF Balanced
<1> QED
  BY <1>2, <1>3, <1>4, <1>5, <1>6, <1>7, OnceInv

LEMMA TerminalBindInv ==
    ASSUME OperationsInv, NEW r \in Requests, TerminalBind(r)
    PROVE  OperationsInv'
<1> DEFINE rw == [row EXCEPT !.lockState = "HARD_LOCK"]
<1>1. service = "TERMINAL" /\ Once(r, rw, world)
  BY DEF TerminalBind
<1>2. row \in TerminalRows
  BY <1>1, TerminalFacts
<1>3. /\ rw \in TerminalRows /\ rw.lockState = "HARD_LOCK"
      /\ rw.consecutiveFailedUnlocks = row.consecutiveFailedUnlocks
  BY <1>2 DEF TerminalRows
<1> HIDE DEF rw
<1> QED
  BY <1>1, <1>3, TerminalOnceInv

LEMMA TerminalHeartbeatInv ==
    ASSUME OperationsInv, NEW r \in Requests, TerminalHeartbeat(r)
    PROVE  OperationsInv'
<1> DEFINE rw == [row EXCEPT !.idle = FALSE]
<1>1. service = "TERMINAL" /\ Once(r, rw, world)
  BY DEF TerminalHeartbeat
<1>2. row \in TerminalRows
  BY <1>1, TerminalFacts
<1>3. /\ rw \in TerminalRows /\ rw.lockState = row.lockState
      /\ rw.consecutiveFailedUnlocks = row.consecutiveFailedUnlocks
  BY <1>2 DEF TerminalRows
<1> HIDE DEF rw
<1> QED
  BY <1>1, <1>3, TerminalOnceInv

LEMMA TerminalBeginInv ==
    ASSUME OperationsInv, service = "TERMINAL", NEW r \in Requests,
           NEW label \in TerminalLabels, NEW loaded \in Nat,
           Begin(r, label, loaded), label # "term_unlock",
           TerminalSoloOK("idle", NoValue, row, world, faults) =>
               TerminalSoloOK(label, loaded, row, world, faults)
    PROVE  OperationsInv'
<1>1. /\ label \in LabelsOf(service) /\ loaded \in OHeld(service) \cup {NoValue}
  BY DEF LabelsOf, OHeld, TerminalHeld
<1>2. RequestOK(label, loaded, row, world)
  BY DEF RequestOK, TerminalRequestOK, TerminalHeld
<1>3. SoloOK("idle", NoValue, row, world, faults) =>
          SoloOK(label, loaded, row, world, faults)
  BY DEF SoloOK
<1>4. \A k \in Kinds : Units(k, label, loaded) = 0
  BY DEF Units, TerminalLabels
<1> QED
  BY <1>1, <1>2, <1>3, <1>4, BeginInv

LEMMA TerminalAttemptUnlockInv ==
    ASSUME OperationsInv, NEW r \in Requests, TerminalAttemptUnlock(r)
    PROVE  OperationsInv'
<1> DEFINE count == row.consecutiveFailedUnlocks
<1>1. service = "TERMINAL" /\ Begin(r, "term_gates", count)
  BY DEF TerminalAttemptUnlock
<1>2. count \in Nat
  BY <1>1, TerminalFacts
<1>3. TerminalSoloOK("idle", NoValue, row, world, faults) =>
          TerminalSoloOK("term_gates", count, row, world, faults)
  BY DEF TerminalSoloOK
<1>4. "term_gates" \in TerminalLabels
  BY DEF TerminalLabels
<1> HIDE DEF count
<1> QED
  BY <1>1, <1>2, <1>3, <1>4, TerminalBeginInv

LEMMA TerminalFindInactiveInv ==
    ASSUME OperationsInv, NEW r \in Requests, TerminalFindInactive(r)
    PROVE  OperationsInv'
<1>1. service = "TERMINAL" /\ Begin(r, "term_inactive", 0) /\ row.idle
  BY DEF TerminalFindInactive
<1>2. TerminalSoloOK("idle", NoValue, row, world, faults) =>
          TerminalSoloOK("term_inactive", 0, row, world, faults)
  BY <1>1 DEF TerminalSoloOK
<1>3. "term_inactive" \in TerminalLabels
  BY DEF TerminalLabels
<1> QED
  BY <1>1, <1>2, <1>3, TerminalBeginInv

LEMMA TerminalRunGatesInv ==
    ASSUME OperationsInv, service = "TERMINAL", NEW r \in Requests,
           TerminalRunGates(r)
    PROVE  OperationsInv'
<1> DEFINE yes == [world EXCEPT !.misses = 0, !.matched = TRUE]
           no == [world EXCEPT !.misses = @ + 1]
<1>1. /\ pc[r] = "term_gates"
      /\ \/ Step(r, "term_unlock", held[r], row, yes)
         \/ Step(r, "term_fail", held[r], row, no)
  BY DEF TerminalRunGates, Act
<1>2. /\ row \in TerminalRows /\ world \in TerminalWorlds
      /\ held[r] \in TerminalHeld \cup {NoValue}
      /\ TerminalRowOK(row, world, overlapped) /\ world.misses \in Nat
      /\ TerminalRequestOK(pc[r], held[r], world)
      /\ row.consecutiveFailedUnlocks \in Nat
  BY TerminalFacts
<1>3. "term_unlock" \in TerminalLabels /\ "term_fail" \in TerminalLabels
  BY DEF TerminalLabels
<1>4. /\ yes.misses = 0 /\ yes.matched = TRUE
      /\ yes.excused = world.excused /\ yes.harsh = world.harsh
  BY <1>2 DEF TerminalWorlds
<1>5. yes \in TerminalWorlds
  BY <1>2, Zenon DEF TerminalWorlds
<1>6. /\ no \in TerminalWorlds /\ no.misses = world.misses + 1
      /\ no.matched = world.matched
      /\ no.excused = world.excused /\ no.harsh = world.harsh
  BY <1>2 DEF TerminalWorlds
<1> HIDE DEF yes, no
<1>7. CASE Step(r, "term_unlock", held[r], row, yes)
  <2>1. TerminalRowOK(row, yes, overlapped)
    BY <1>2, <1>4 DEF TerminalRowOK
  <2>2. \A q \in Requests :
            TerminalRequestOK(pc[q], held[q], world) => TerminalRequestOK(pc[q], held[q], yes)
    BY <1>4 DEF TerminalRequestOK
  <2>3. TerminalRequestOK("term_unlock", held[r], yes)
    BY <1>1, <1>2, <1>4 DEF TerminalRequestOK, TerminalLabels
  <2>4. TerminalSoloOK("term_unlock", held[r], row, yes, faults)
    BY <1>4 DEF TerminalSoloOK
  <2> QED
    BY <1>1, <1>2, <1>3, <1>5, <1>7, <2>1, <2>2, <2>3, <2>4, TerminalStepInv
<1>8. CASE Step(r, "term_fail", held[r], row, no)
  <2>1. TerminalRowOK(row, no, overlapped)
    BY <1>2, <1>6 DEF TerminalRowOK
  <2>2. \A q \in Requests \ {r} :
            TerminalRequestOK(pc[q], held[q], world) => TerminalRequestOK(pc[q], held[q], no)
    BY <1>6 DEF TerminalRequestOK
  <2>3. TerminalRequestOK("term_fail", held[r], no)
    BY <1>1, <1>2 DEF TerminalRequestOK, TerminalLabels
  <2>4. TerminalSoloOK(pc[r], held[r], row, world, faults) =>
            TerminalSoloOK("term_fail", held[r], row, no, faults)
    BY <1>1, <1>2, <1>6 DEF TerminalSoloOK
  <2> QED
    BY <1>1, <1>2, <1>3, <1>6, <1>8, <2>1, <2>2, <2>3, <2>4, TerminalStepInv
<1> QED
  BY <1>1, <1>7, <1>8

LEMMA TerminalUnlockInv ==
    ASSUME OperationsInv, service = "TERMINAL", NEW r \in Requests,
           TerminalUnlock(r)
    PROVE  OperationsInv'
<1> DEFINE rw == [lockState |-> "UNLOCKED", consecutiveFailedUnlocks |-> 0,
                  idle |-> FALSE]
<1>1. pc[r] = "term_unlock" /\ Step(r, "idle", held[r], rw, world)
  BY DEF TerminalUnlock, Save
<1>2. /\ world \in TerminalWorlds /\ held[r] \in TerminalHeld \cup {NoValue}
      /\ TerminalRowOK(row, world, overlapped) /\ TerminalRequestOK(pc[r], held[r], world)
  BY TerminalFacts
<1>3. rw \in TerminalRows
  BY DEF TerminalRows
<1>4. TerminalRowOK(rw, world, overlapped)
  BY <1>1, <1>2 DEF TerminalRowOK, TerminalRequestOK
<1>5. TerminalSoloOK(pc[r], held[r], row, world, faults) =>
          TerminalSoloOK("idle", held[r], rw, world, faults)
  BY <1>1 DEF TerminalSoloOK
<1>6. TerminalRequestOK("idle", held[r], world)
  BY DEF TerminalRequestOK, TerminalLabels
<1> HIDE DEF rw
<1> QED
  BY <1>1, <1>2, <1>3, <1>4, <1>5, <1>6, TerminalStepInv

LEMMA TerminalCountFailureInv ==
    ASSUME OperationsInv, service = "TERMINAL", NEW r \in Requests,
           TerminalCountFailure(r)
    PROVE  OperationsInv'
<1> DEFINE rw == [row EXCEPT !.consecutiveFailedUnlocks = held[r] + 1]
           label == IF held[r] + 1 >= 3 THEN "term_report" ELSE "idle"
<1>1. pc[r] = "term_fail" /\ Step(r, label, held[r], rw, world)
  BY DEF TerminalCountFailure, Save
<1>2. /\ row \in TerminalRows /\ world \in TerminalWorlds
      /\ held[r] \in TerminalHeld \cup {NoValue} /\ world.misses \in Nat
      /\ TerminalRowOK(row, world, overlapped)
      /\ row.consecutiveFailedUnlocks \in Nat
      /\ TerminalRequestOK(pc[r], held[r], world)
  BY TerminalFacts
<1>3. held[r] \in Nat
  BY <1>1, <1>2 DEF TerminalRequestOK, TerminalHeld, TerminalLabels
<1>4. /\ rw \in TerminalRows /\ rw.lockState = row.lockState
      /\ rw.consecutiveFailedUnlocks = held[r] + 1
  BY <1>2, <1>3 DEF TerminalRows
<1>5. label \in {"idle"} \cup TerminalLabels
  BY DEF TerminalLabels
<1>6. TerminalRowOK(rw, world, overlapped)
  BY <1>2, <1>4 DEF TerminalRowOK
<1>7. TerminalRequestOK(label, held[r], world)
  BY <1>3 DEF TerminalRequestOK, TerminalHeld
<1>8. TerminalSoloOK(pc[r], held[r], row, world, faults) =>
          TerminalSoloOK(label, held[r], rw, world, faults)
  BY <1>1, <1>2, <1>3, <1>4 DEF TerminalSoloOK
<1> HIDE DEF rw, label
<1> QED
  BY <1>1, <1>2, <1>4, <1>5, <1>6, <1>7, <1>8, TerminalStepInv

LEMMA ReportStealthCaptureInv ==
    ASSUME OperationsInv, service = "TERMINAL", NEW r \in Requests,
           ReportStealthCapture(r)
    PROVE  OperationsInv'
<1> DEFINE w == [world EXCEPT !.misses = 0]
<1>1. pc[r] = "term_report" /\ Step(r, "term_reset", held[r], row, w)
  BY DEF ReportStealthCapture, Act
<1>2. /\ row \in TerminalRows /\ world \in TerminalWorlds
      /\ held[r] \in TerminalHeld \cup {NoValue} /\ world.misses \in Nat
      /\ TerminalRowOK(row, world, overlapped)
      /\ TerminalRequestOK(pc[r], held[r], world)
  BY TerminalFacts
<1>3. /\ w \in TerminalWorlds /\ w.misses = 0 /\ w.matched = world.matched
      /\ w.excused = world.excused /\ w.harsh = world.harsh
  BY <1>2 DEF TerminalWorlds
<1> HIDE DEF w
<1>4. "term_reset" \in {"idle"} \cup TerminalLabels
  BY DEF TerminalLabels
<1>5. TerminalRowOK(row, w, overlapped)
  BY <1>2, <1>3 DEF TerminalRowOK
<1>6. TerminalRequestOK("term_reset", held[r], w)
  BY <1>1, <1>2 DEF TerminalRequestOK, TerminalLabels
<1>7. \A q \in Requests :
          TerminalRequestOK(pc[q], held[q], world) => TerminalRequestOK(pc[q], held[q], w)
  BY <1>3 DEF TerminalRequestOK
<1>8. TerminalSoloOK("term_reset", held[r], row, w, faults)
  BY <1>3 DEF TerminalSoloOK
<1> QED
  BY <1>1, <1>2, <1>3, <1>4, <1>5, <1>6, <1>7, <1>8, TerminalStepInv

\* A lock excuses the attempts that are under way.
LEMMA LockedWorld ==
    ASSUME world \in TerminalWorlds
    PROVE  /\ Locked(world) \in TerminalWorlds
           /\ Locked(world).misses = world.misses /\ Locked(world).harsh = world.harsh
           /\ \A q \in Requests : pc[q] = "term_unlock" => Locked(world).excused
<1>1. Locked(world) = [world EXCEPT !.matched = FALSE, !.excused = Attempting]
  BY DEF Locked
<1>2. Attempting \in BOOLEAN
  BY DEF Attempting
<1>3. Locked(world) \in TerminalWorlds
  BY <1>1, <1>2, Zenon DEF TerminalWorlds
<1>4. /\ Locked(world).misses = world.misses /\ Locked(world).harsh = world.harsh
      /\ Locked(world).excused = Attempting
  BY <1>1 DEF TerminalWorlds
<1>5. \A q \in Requests : pc[q] = "term_unlock" => Attempting
  BY DEF Attempting
<1> QED
  BY <1>3, <1>4, <1>5

LEMMA TerminalResetCountInv ==
    ASSUME OperationsInv, service = "TERMINAL", NEW r \in Requests,
           TerminalResetCount(r)
    PROVE  OperationsInv'
<1> DEFINE rw == [row EXCEPT !.consecutiveFailedUnlocks = 0, !.lockState = "HARD_LOCK"]
           w == Locked(world)
<1>1. pc[r] = "term_reset" /\ Step(r, "idle", held[r], rw, w)
  BY DEF TerminalResetCount
<1>2. /\ row \in TerminalRows /\ world \in TerminalWorlds
      /\ held[r] \in TerminalHeld \cup {NoValue} /\ world.misses \in Nat
      /\ TerminalRowOK(row, world, overlapped)
      /\ TerminalRequestOK(pc[r], held[r], world)
  BY TerminalFacts
<1>3. rw \in TerminalRows
  BY <1>2, Zenon, 0 \in Nat DEF TerminalRows
<1>4. rw.consecutiveFailedUnlocks = 0 /\ rw.lockState = "HARD_LOCK"
  BY <1>2 DEF TerminalRows
<1>5. /\ w \in TerminalWorlds /\ w.misses = world.misses /\ w.harsh = world.harsh
      /\ \A q \in Requests : pc[q] = "term_unlock" => w.excused
  BY <1>2, LockedWorld
<1> HIDE DEF rw, w
<1>6. TerminalRowOK(rw, w, overlapped)
  BY <1>2, <1>4, <1>5 DEF TerminalRowOK
<1>7. \A q \in Requests :
          TerminalRequestOK(pc[q], held[q], world) => TerminalRequestOK(pc[q], held[q], w)
  BY <1>5 DEF TerminalRequestOK
<1>8. TerminalRequestOK("idle", held[r], w)
  BY DEF TerminalRequestOK, TerminalLabels
<1>9. TerminalSoloOK(pc[r], held[r], row, world, faults) =>
          TerminalSoloOK("idle", held[r], rw, w, faults)
  BY <1>1, <1>4, <1>5 DEF TerminalSoloOK
<1> QED
  BY <1>1, <1>2, <1>3, <1>5, <1>6, <1>7, <1>8, <1>9, TerminalStepInv

LEMMA TerminalInactivityLockInv ==
    ASSUME OperationsInv, service = "TERMINAL", NEW r \in Requests,
           TerminalInactivityLock(r)
    PROVE  OperationsInv'
<1> DEFINE rw == [row EXCEPT !.lockState = "HARD_LOCK"]
           l == Locked(world)
           b == row.lockState = "UNLOCKED" /\ ~ row.idle
           w == [l EXCEPT !.harsh = @ \/ b]
<1>1. pc[r] = "term_inactive" /\ Step(r, "idle", held[r], rw, w)
  BY DEF TerminalInactivityLock
<1>2. /\ row \in TerminalRows /\ world \in TerminalWorlds
      /\ held[r] \in TerminalHeld \cup {NoValue} /\ world.misses \in Nat
      /\ TerminalRowOK(row, world, overlapped)
      /\ TerminalRequestOK(pc[r], held[r], world)
      /\ overlapped \in BOOLEAN
  BY TerminalFacts
<1>3. /\ rw \in TerminalRows /\ rw.lockState = "HARD_LOCK"
      /\ rw.consecutiveFailedUnlocks = row.consecutiveFailedUnlocks
  BY <1>2 DEF TerminalRows
<1>4. /\ l \in TerminalWorlds /\ l.misses = world.misses /\ l.harsh = world.harsh
      /\ \A q \in Requests : pc[q] = "term_unlock" => l.excused
  BY <1>2, LockedWorld
<1> HIDE DEF l
<1>5. /\ w \in TerminalWorlds /\ w.misses = l.misses /\ w.excused = l.excused
      /\ w.harsh = (l.harsh \/ b)
  BY <1>4 DEF TerminalWorlds
<1>6. ~ overlapped => ~ b
  <2> SUFFICES ASSUME ~ overlapped PROVE ~ b
    OBVIOUS
  <2>1. SoloOK(pc[r], held[r], row, world, faults)
    BY <1>1 DEF OperationsInv, Solo
  <2> QED
    BY <1>1, <2>1 DEF SoloOK, TerminalSoloOK
<1>7. TerminalRowOK(rw, w, overlapped)
  BY <1>2, <1>3, <1>4, <1>5, <1>6 DEF TerminalRowOK
<1>8. \A q \in Requests :
          TerminalRequestOK(pc[q], held[q], world) => TerminalRequestOK(pc[q], held[q], w)
  BY <1>4, <1>5 DEF TerminalRequestOK
<1>9. TerminalRequestOK("idle", held[r], w)
  BY DEF TerminalRequestOK, TerminalLabels
<1>10. TerminalSoloOK(pc[r], held[r], row, world, faults) =>
           TerminalSoloOK("idle", held[r], rw, w, faults)
  BY <1>1, <1>3, <1>4, <1>5 DEF TerminalSoloOK
<1> HIDE DEF rw, w, b
<1> QED
  BY <1>1, <1>2, <1>3, <1>5, <1>7, <1>8, <1>9, <1>10, TerminalStepInv

LEMMA TerminalOutsideInv ==
    ASSUME OperationsInv, service = "TERMINAL",
           NEW rw \in TerminalRows, NEW w \in TerminalWorlds, Outside(rw, w),
           TerminalRowOK(rw, w, overlapped),
           \A q \in Requests :
               TerminalRequestOK(pc[q], held[q], world) => TerminalRequestOK(pc[q], held[q], w),
           \A l, h : TerminalSoloOK(l, h, row, world, faults) =>
                         TerminalSoloOK(l, h, rw, w, faults)
    PROVE  OperationsInv'
<1>1. rw \in ORows(service) /\ OWorld(service, w)
  BY DEF ORows, OWorld
<1>2. RowOK(rw, w, overlapped)
  BY DEF RowOK
<1>3. \A q \in Requests : RequestOK(pc[q], held[q], row, world) =>
                              RequestOK(pc[q], held[q], rw, w)
  BY DEF RequestOK
<1>4. \A l, h : SoloOK(l, h, row, world, faults) => SoloOK(l, h, rw, w, faults)
  BY DEF SoloOK
<1>5. Owed(rw, w, faults) => Owed(row, world, faults)
  BY DEF Owed
<1>6. \A n : Balanced(row, world, faults, n) => Balanced(rw, w, faults, n)
  BY DEF Balanced
<1> QED
  BY <1>1, <1>2, <1>3, <1>4, <1>5, <1>6, OutsideInv

LEMMA TerminalTimePassesInv ==
    ASSUME OperationsInv, TerminalTimePasses
    PROVE  OperationsInv'
<1> DEFINE rw == [row EXCEPT !.idle = TRUE]
<1>1. service = "TERMINAL" /\ Outside(rw, world)
  BY DEF TerminalTimePasses
<1>2. /\ row \in TerminalRows /\ world \in TerminalWorlds
      /\ TerminalRowOK(row, world, overlapped)
  BY <1>1 DEF OperationsInv, Typed, ORows, OWorld, RowOK
<1>3. /\ rw \in TerminalRows /\ rw.lockState = row.lockState /\ rw.idle
      /\ rw.consecutiveFailedUnlocks = row.consecutiveFailedUnlocks
  BY <1>2 DEF TerminalRows
<1> HIDE DEF rw
<1>4. TerminalRowOK(rw, world, overlapped)
  BY <1>2, <1>3 DEF TerminalRowOK
<1>5. \A l, h : TerminalSoloOK(l, h, row, world, faults) =>
                    TerminalSoloOK(l, h, rw, world, faults)
  BY <1>3 DEF TerminalSoloOK
<1> QED
  BY <1>1, <1>2, <1>3, <1>4, <1>5, TerminalOutsideInv

LEMMA TerminalDailyLockInv ==
    ASSUME OperationsInv, TerminalDailyLock
    PROVE  OperationsInv'
<1> DEFINE rw == [row EXCEPT !.lockState = "HARD_LOCK"]
           w == Locked(world)
<1>1. service = "TERMINAL" /\ Outside(rw, w)
  BY DEF TerminalDailyLock
<1>2. /\ row \in TerminalRows /\ world \in TerminalWorlds
      /\ TerminalRowOK(row, world, overlapped)
  BY <1>1 DEF OperationsInv, Typed, ORows, OWorld, RowOK
<1>3. /\ rw \in TerminalRows /\ rw.lockState = "HARD_LOCK"
      /\ rw.consecutiveFailedUnlocks = row.consecutiveFailedUnlocks
  BY <1>2 DEF TerminalRows
<1>4. /\ w \in TerminalWorlds /\ w.misses = world.misses /\ w.harsh = world.harsh
      /\ \A q \in Requests : pc[q] = "term_unlock" => w.excused
  BY <1>2, LockedWorld
<1> HIDE DEF rw, w
<1>5. TerminalRowOK(rw, w, overlapped)
  BY <1>2, <1>3, <1>4 DEF TerminalRowOK
<1>6. \A q \in Requests :
          TerminalRequestOK(pc[q], held[q], world) => TerminalRequestOK(pc[q], held[q], w)
  BY <1>4 DEF TerminalRequestOK
<1>7. \A l, h : TerminalSoloOK(l, h, row, world, faults) =>
                    TerminalSoloOK(l, h, rw, w, faults)
  BY <1>3, <1>4 DEF TerminalSoloOK
<1> QED
  BY <1>1, <1>3, <1>4, <1>5, <1>6, <1>7, TerminalOutsideInv

LEMMA TerminalNextInv ==
    ASSUME OperationsInv, NEW r \in Requests,
           \/ TerminalCall(r)
           \/ service = "TERMINAL" /\ TerminalGoOn(r)
           \/ TerminalTimePasses \/ TerminalDailyLock
    PROVE  OperationsInv'
<1>1. TerminalAlreadyOperational(r) => TerminalHeartbeat(r)
  BY DEF TerminalAlreadyOperational
<1>2. CASE TerminalCall(r)
  BY <1>1, <1>2, TerminalBindInv, TerminalHeartbeatInv, TerminalAttemptUnlockInv,
     TerminalFindInactiveInv DEF TerminalCall
<1>3. CASE service = "TERMINAL" /\ TerminalGoOn(r)
  BY <1>3, TerminalRunGatesInv, TerminalUnlockInv, TerminalCountFailureInv,
     ReportStealthCaptureInv, TerminalResetCountInv, TerminalInactivityLockInv
     DEF TerminalGoOn
<1> QED
  BY <1>2, <1>3, TerminalTimePassesInv, TerminalDailyLockInv

-----------------------------------------------------------------------------
(* Confirmations and their mirror.                                         *)

LEMMA VerifyFacts ==
    ASSUME OperationsInv, service = "VERIFY", NEW r \in Requests
    PROVE  /\ row \in VerifyRows /\ world \in VerifyWorlds
           /\ pc[r] \in {"idle"} \cup VerifyLabels
           /\ held[r] \in VerifyHeld \cup {NoValue}
           /\ faults \in Nat /\ overlapped \in BOOLEAN
           /\ world.unmarked => overlapped
           /\ VerifyRequestOK(pc[r], held[r])
           /\ row.mirrored \in Nat /\ world.answered \in Nat
<1>1. /\ row \in VerifyRows /\ world \in VerifyWorlds
      /\ pc[r] \in {"idle"} \cup VerifyLabels
      /\ held[r] \in VerifyHeld \cup {NoValue}
      /\ faults \in Nat /\ overlapped \in BOOLEAN
  BY DEF OperationsInv, Typed, ORows, OWorld, OHeld, LabelsOf
<1>2. world.unmarked => overlapped
  BY DEF OperationsInv, RowOK
<1>3. VerifyRequestOK(pc[r], held[r])
  BY DEF OperationsInv, RequestOK
<1> QED
  BY <1>1, <1>2, <1>3 DEF VerifyRows, VerifyWorlds

\* Of the three kinds a request has in hand only rows without an answer.
LEMMA VerifyUnits ==
    ASSUME NEW l \in {"idle"} \cup VerifyLabels, NEW h, VerifyRequestOK(l, h)
    PROVE  /\ Units("uncounted", l, h) \in Nat
           /\ l # "ver_mirror" => Units("uncounted", l, h) = 0
           /\ l = "ver_mirror" => Units("uncounted", l, h) = h.found - h.left
<1>1. CASE l # "ver_mirror"
  BY <1>1 DEF Units, VerifyLabels
<1>2. CASE l = "ver_mirror"
  <2>1. h \in [found : 0..Gates, left : 0..Gates] /\ h.left <= h.found
    BY <1>2 DEF VerifyRequestOK
  <2>2. h.found \in Nat /\ h.left \in Nat
    BY <2>1 DEF Gates
  <2>3. h.found - h.left \in Nat
    BY <2>1, <2>2
  <2> QED
    BY <1>2, <2>3 DEF Units
<1> QED
  BY <1>1, <1>2

LEMMA VerifyStepInv ==
    ASSUME OperationsInv, service = "VERIFY", NEW r \in Requests,
           NEW label \in {"idle"} \cup VerifyLabels,
           NEW loaded \in VerifyHeld \cup {NoValue},
           NEW rw \in VerifyRows, NEW w \in VerifyWorlds,
           pc[r] # "idle", Step(r, label, loaded, rw, w),
           w.unmarked => overlapped, VerifyRequestOK(label, loaded),
           ~ overlapped /\ VerifySoloOK(pc[r], held[r], row) =>
               VerifySoloOK(label, loaded, rw),
           AllFailed(rw) /\ ~ w.reported =>
               \/ label = "ver_rate"
               \/ AllFailed(row) /\ ~ world.reported /\ pc[r] # "ver_rate",
           rw.mirrored + world.answered + Units("uncounted", pc[r], held[r])
               = row.mirrored + w.answered + Units("uncounted", label, loaded)
    PROVE  OperationsInv'
<1>1. ShiftTyped(label, loaded, rw, w, faults, overlapped)
  BY VerifyFacts DEF ShiftTyped, LabelsOf, OHeld, ORows, OWorld
<1>2. RowOK(rw, w, overlapped)
  BY DEF RowOK
<1>3. RequestOK(label, loaded, rw, w)
  BY DEF RequestOK
<1>4. OthersKept(r, rw, w)
  BY DEF OthersKept, RequestOK
<1>5. ~ overlapped /\ SoloOK(pc[r], held[r], row, world, faults) =>
          SoloOK(label, loaded, rw, w, faults)
  BY DEF SoloOK
<1>6. Owed(rw, w, faults) =>
          \/ label \in Debtors
          \/ Owed(row, world, faults) /\ pc[r] \notin Debtors
  <2>1. pc[r] \in {"idle"} \cup VerifyLabels
    BY VerifyFacts
  <2>2. pc[r] \in Debtors => pc[r] = "ver_rate"
    BY <2>1 DEF Debtors, VerifyLabels
  <2> QED
    BY <2>2 DEF Owed, Debtors
<1>7. BalanceKept(r, label, loaded, rw, w, faults)
  <2> SUFFICES ASSUME NEW n \in [Kinds -> Nat], NEW m \in [Kinds -> Nat],
                      Balanced(row, world, faults, n),
                      \A k \in Kinds : m[k] + Units(k, pc[r], held[r])
                                           = n[k] + Units(k, label, loaded)
               PROVE  Balanced(rw, w, faults, m)
    BY DEF BalanceKept
  <2> DEFINE a == Units("uncounted", pc[r], held[r])
             b == Units("uncounted", label, loaded)
  <2>1. a \in Nat /\ b \in Nat
    BY VerifyFacts, VerifyUnits
  <2>2. m["uncounted"] + a = n["uncounted"] + b
    BY DEF Kinds
  <2>3. m["uncounted"] \in Nat /\ n["uncounted"] \in Nat
    BY DEF Kinds
  <2>4. /\ row.mirrored \in Nat /\ world.answered \in Nat
        /\ rw.mirrored \in Nat /\ w.answered \in Nat
    BY VerifyFacts DEF VerifyRows, VerifyWorlds
  <2>5. rw.mirrored + world.answered + a = row.mirrored + w.answered + b
    OBVIOUS
  <2> HIDE DEF a, b
  <2>6. row.mirrored = world.answered + n["uncounted"] =>
            rw.mirrored = w.answered + m["uncounted"]
    BY <2>1, <2>2, <2>3, <2>4, <2>5
  <2> QED
    BY <2>6 DEF Balanced
<1>8. ShiftOK(r, label, loaded, rw, w, faults, overlapped)
  BY <1>2, <1>3, <1>4, <1>5, <1>6, <1>7 DEF ShiftOK
<1> QED
  BY <1>1, <1>8, StepInv

\* Steps that mirror nothing.
LEMMA VerifyPlainInv ==
    ASSUME OperationsInv, service = "VERIFY", NEW r \in Requests,
           NEW label \in {"idle"} \cup VerifyLabels,
           NEW loaded \in VerifyHeld \cup {NoValue},
           NEW rw \in VerifyRows, NEW w \in VerifyWorlds,
           pc[r] \notin {"idle", "ver_mirror"}, label # "ver_mirror",
           Step(r, label, loaded, rw, w),
           w.unmarked => overlapped, VerifyRequestOK(label, loaded),
           ~ overlapped /\ VerifySoloOK(pc[r], held[r], row) =>
               VerifySoloOK(label, loaded, rw),
           AllFailed(rw) /\ ~ w.reported =>
               \/ label = "ver_rate"
               \/ AllFailed(row) /\ ~ world.reported /\ pc[r] # "ver_rate",
           rw.mirrored = row.mirrored, w.answered = world.answered
    PROVE  OperationsInv'
<1>1. /\ Units("uncounted", pc[r], held[r]) = 0
      /\ Units("uncounted", label, loaded) = 0
  BY VerifyFacts, VerifyUnits
<1>2. rw.mirrored + world.answered + Units("uncounted", pc[r], held[r])
          = row.mirrored + w.answered + Units("uncounted", label, loaded)
  BY <1>1
<1>3. pc[r] # "idle"
  OBVIOUS
<1> QED
  BY <1>2, <1>3, VerifyStepInv

LEMMA VerifyBeginInv ==
    ASSUME OperationsInv, service = "VERIFY", NEW r \in Requests,
           NEW label \in VerifyLabels, NEW loaded \in VerifyHeld \cup {NoValue},
           Begin(r, label, loaded), VerifyRequestOK(label, loaded),
           VerifySoloOK(label, loaded, row),
           label = "ver_mirror" => loaded.found = loaded.left
    PROVE  OperationsInv'
<1>1. /\ label \in LabelsOf(service) /\ loaded \in OHeld(service) \cup {NoValue}
  BY DEF LabelsOf, OHeld
<1>2. RequestOK(label, loaded, row, world)
  BY DEF RequestOK
<1>3. SoloOK(label, loaded, row, world, faults)
  BY DEF SoloOK
<1>4. Units("uncounted", label, loaded) = 0
  <2>1. CASE label # "ver_mirror"
    BY <2>1, VerifyUnits
  <2>2. CASE label = "ver_mirror"
    <3>1. loaded.left \in Nat
      BY <2>2 DEF VerifyRequestOK, Gates
    <3> QED
      BY <2>2, <3>1, VerifyUnits
  <2> QED
    BY <2>1, <2>2
<1>5. \A k \in Kinds : Units(k, label, loaded) = 0
  BY <1>4 DEF Units, VerifyLabels, Kinds
<1> QED
  BY <1>1, <1>2, <1>3, <1>5, BeginInv

LEMMA VerifyCallInv ==
    ASSUME OperationsInv, NEW r \in Requests, VerifyCall(r)
    PROVE  OperationsInv'
<1>1. CASE VerifyEnroll(r)
  <2> DEFINE h == [confirmed |-> TRUE, contrary |-> FALSE, alert |-> FALSE]
  <2>1. service = "VERIFY" /\ Begin(r, "ver_tfan", h)
    BY <1>1 DEF VerifyEnroll
  <2>2. h \in Outcomes /\ h \in VerifyHeld /\ h.contrary = FALSE
    BY DEF Outcomes, VerifyHeld
  <2> HIDE DEF h
  <2>3. "ver_tfan" \in VerifyLabels
    BY DEF VerifyLabels
  <2>4. VerifyRequestOK("ver_tfan", h) /\ VerifySoloOK("ver_tfan", h, row)
    BY <2>2 DEF VerifyRequestOK, VerifySoloOK
  <2> QED
    BY <2>1, <2>2, <2>3, <2>4, VerifyBeginInv
<1>2. CASE VerifyConfirm(r)
  <2>1. service = "VERIFY" /\ Begin(r, "ver_watch", NoValue)
    BY <1>2 DEF VerifyConfirm
  <2>2. "ver_watch" \in VerifyLabels
    BY DEF VerifyLabels
  <2>3. VerifyRequestOK("ver_watch", NoValue) /\ VerifySoloOK("ver_watch", NoValue, row)
    BY DEF VerifyRequestOK, VerifySoloOK
  <2> QED
    BY <2>1, <2>2, <2>3, VerifyBeginInv
<1>3. CASE MirrorNibssYes(r)
  <2>1. service = "VERIFY"
    BY <1>3 DEF MirrorNibssYes
  <2>2. PICK n \in 1..Gates : Begin(r, "ver_mirror", [found |-> n, left |-> n])
    BY <1>3 DEF MirrorNibssYes
  <2> DEFINE h == [found |-> n, left |-> n]
  <2>3. n \in 0..Gates /\ n <= n
    BY <2>2 DEF Gates
  <2>4. /\ h \in [found : 0..Gates, left : 0..Gates] /\ h \in VerifyHeld
        /\ h.found = n /\ h.left = n
    BY <2>3 DEF VerifyHeld
  <2>5. Begin(r, "ver_mirror", h)
    BY <2>2
  <2> HIDE DEF h
  <2>6. "ver_mirror" \in VerifyLabels
    BY DEF VerifyLabels
  <2>7. VerifyRequestOK("ver_mirror", h) /\ VerifySoloOK("ver_mirror", h, row)
    BY <2>3, <2>4 DEF VerifyRequestOK, VerifySoloOK
  <2> QED
    BY <2>1, <2>4, <2>5, <2>6, <2>7, VerifyBeginInv
<1> QED
  BY <1>1, <1>2, <1>3 DEF VerifyCall

LEMMA VerifyCreateTfanInv ==
    ASSUME OperationsInv, service = "VERIFY", NEW r \in Requests,
           VerifyCreateTfan(r)
    PROVE  OperationsInv'
<1> DEFINE rw == [row EXCEPT !.enrolled = TRUE]
<1>1. pc[r] = "ver_tfan" /\ Step(r, "ver_append", held[r], rw, world)
  BY DEF VerifyCreateTfan, Save
<1>2. /\ row \in VerifyRows /\ world \in VerifyWorlds
      /\ held[r] \in VerifyHeld \cup {NoValue}
      /\ world.unmarked => overlapped
      /\ VerifyRequestOK(pc[r], held[r])
  BY VerifyFacts
<1>3. /\ rw \in VerifyRows /\ rw.ledger = row.ledger /\ rw.mirrored = row.mirrored
  BY <1>2 DEF VerifyRows
<1> HIDE DEF rw
<1>4. "ver_append" \in VerifyLabels
  BY DEF VerifyLabels
<1>5. VerifyRequestOK("ver_append", held[r])
  BY <1>1, <1>2 DEF VerifyRequestOK
<1>6. VerifySoloOK(pc[r], held[r], row) => VerifySoloOK("ver_append", held[r], rw)
  BY <1>1 DEF VerifySoloOK
<1>7. AllFailed(rw) => AllFailed(row)
  BY <1>3 DEF AllFailed
<1> QED
  BY <1>1, <1>2, <1>3, <1>4, <1>5, <1>6, <1>7, VerifyPlainInv

LEMMA OutcomeFacts ==
    ASSUME row \in VerifyRows, NEW mode, NEW yes \in Nat, NEW no \in Nat,
           NEW agrees \in BOOLEAN
    PROVE  /\ Outcome(mode, yes, no, agrees) \in Outcomes
           /\ row.enrolled /\ Outcome(mode, yes, no, agrees).contrary
                  => Outcome(mode, yes, no, agrees).alert
<1> DEFINE down == row.enrolled /\ yes = 0 /\ no = 0
           effective == IF down /\ agrees THEN 1 ELSE yes
           contrary == yes > 0 /\ ~ agrees
           confirmed == AggregateConfirm(mode, effective)
           alert == DetectMismatch(yes, no) \/ (row.enrolled /\ contrary)
<1>1. Outcome(mode, yes, no, agrees) =
          [confirmed |-> confirmed, contrary |-> contrary, alert |-> alert]
  BY DEF Outcome
<1>2. confirmed \in BOOLEAN
  BY DEF AggregateConfirm
<1>3. contrary \in BOOLEAN /\ alert \in BOOLEAN
  BY DEF DetectMismatch
<1>4. row.enrolled /\ contrary => alert
  OBVIOUS
<1> HIDE DEF confirmed, contrary, alert
<1>5. [confirmed |-> confirmed, contrary |-> contrary, alert |-> alert] \in Outcomes
  BY <1>2, <1>3 DEF Outcomes
<1> QED
  BY <1>1, <1>4, <1>5

LEMMA SecondWatchInv ==
    ASSUME OperationsInv, service = "VERIFY", NEW r \in Requests, SecondWatch(r)
    PROVE  OperationsInv'
<1>1. pc[r] = "ver_watch"
  BY DEF SecondWatch
<1>2. PICK high \in BOOLEAN, agrees \in BOOLEAN, yes \in 0..Gates :
          \E no \in 0..(Gates - yes) :
              Step(r, "ver_append", Outcome(DecidePolicyMode(high), yes, no, agrees),
                   row, world)
  BY DEF SecondWatch
<1>3. PICK no \in 0..(Gates - yes) :
          Step(r, "ver_append", Outcome(DecidePolicyMode(high), yes, no, agrees),
               row, world)
  BY <1>2
<1>4. /\ row \in VerifyRows /\ world \in VerifyWorlds /\ (world.unmarked => overlapped)
  BY VerifyFacts
<1>5. yes \in Nat /\ no \in Nat
  BY DEF Gates
<1> DEFINE h == Outcome(DecidePolicyMode(high), yes, no, agrees)
<1>6. h \in Outcomes /\ (row.enrolled /\ h.contrary => h.alert)
  BY <1>4, <1>5, OutcomeFacts
<1>7. Step(r, "ver_append", h, row, world)
  BY <1>3
<1> HIDE DEF h
<1>8. h \in VerifyHeld /\ "ver_append" \in VerifyLabels
  BY <1>6 DEF Outcomes, VerifyHeld, VerifyLabels
<1>9. VerifyRequestOK("ver_append", h) /\ VerifySoloOK("ver_append", h, row)
  BY <1>6 DEF VerifyRequestOK, VerifySoloOK
<1> QED
  BY <1>1, <1>4, <1>7, <1>8, <1>9, VerifyPlainInv

\* Only a failed confirmation leaves a window of failures.
Window(rows) == IF Len(rows) > Threshold THEN Tail(rows) ELSE rows

LEMMA WindowAfter ==
    ASSUME NEW ledger \in Seq(BOOLEAN), Len(ledger) <= Threshold, NEW b \in BOOLEAN
    PROVE  LET kept == Window(Append(ledger, b)) IN
           /\ kept \in Seq(BOOLEAN) /\ Len(kept) <= Threshold
           /\ Len(kept) \in DOMAIN kept /\ kept[Len(kept)] = b
<1> DEFINE rows == Append(ledger, b)
           kept == IF Len(rows) > Threshold THEN Tail(rows) ELSE rows
<1>1. Threshold \in Nat /\ Threshold > 0
  BY VerifyAssumption DEF VerifyAssumption
<1>2. rows \in Seq(BOOLEAN) /\ Len(rows) = Len(ledger) + 1 /\ rows[Len(rows)] = b
  OBVIOUS
<1>k. Window(Append(ledger, b)) = kept
  BY DEF Window
<1> HIDE DEF rows
<1>3. ASSUME Len(rows) > Threshold
      PROVE  /\ kept \in Seq(BOOLEAN) /\ Len(kept) <= Threshold
             /\ Len(kept) \in DOMAIN kept /\ kept[Len(kept)] = b
  <2>1. kept = Tail(rows) /\ rows # <<>>
    BY <1>2, <1>3
  <2>2. /\ Tail(rows) \in Seq(BOOLEAN) /\ Len(Tail(rows)) = Len(rows) - 1
        /\ \A i \in 1 .. Len(Tail(rows)) : Tail(rows)[i] = rows[i + 1]
    BY <1>2, <2>1, HeadTailProperties, Zenon
  <2> QED
    BY <1>1, <1>2, <1>3, <2>1, <2>2
<1>4. ASSUME ~ (Len(rows) > Threshold)
      PROVE  /\ kept \in Seq(BOOLEAN) /\ Len(kept) <= Threshold
             /\ Len(kept) \in DOMAIN kept /\ kept[Len(kept)] = b
  BY <1>1, <1>2, <1>4
<1> HIDE DEF kept
<1>5. /\ kept \in Seq(BOOLEAN) /\ Len(kept) <= Threshold
      /\ Len(kept) \in DOMAIN kept /\ kept[Len(kept)] = b
  BY <1>3, <1>4
<1> QED
  BY <1>5, <1>k

LEMMA VerifyAppendLedgerInv ==
    ASSUME OperationsInv, service = "VERIFY", NEW r \in Requests,
           VerifyAppendLedger(r)
    PROVE  OperationsInv'
<1> DEFINE rows == Append(row.ledger, held[r].confirmed)
           kept == IF Len(rows) > Threshold THEN Tail(rows) ELSE rows
           label == IF held[r].confirmed THEN "idle" ELSE "ver_rate"
           rw == [row EXCEPT !.ledger = kept]
           b == row.enrolled /\ held[r].contrary /\ ~ held[r].alert
           w == [world EXCEPT !.reported = FALSE, !.unmarked = @ \/ b]
<1>1. pc[r] = "ver_append" /\ Step(r, label, held[r], rw, w)
  BY DEF VerifyAppendLedger
<1>2. /\ row \in VerifyRows /\ world \in VerifyWorlds
      /\ held[r] \in VerifyHeld \cup {NoValue}
      /\ world.unmarked => overlapped
      /\ VerifyRequestOK(pc[r], held[r])
  BY VerifyFacts
<1>3. held[r] \in Outcomes
  BY <1>1, <1>2 DEF VerifyRequestOK
<1>4. /\ held[r].confirmed \in BOOLEAN /\ row.ledger \in Seq(BOOLEAN)
      /\ Len(row.ledger) <= Threshold
  BY <1>2, <1>3 DEF Outcomes, VerifyRows
<1>a. kept = Window(Append(row.ledger, held[r].confirmed))
  BY DEF Window
<1> HIDE DEF rows, kept
<1>5. /\ kept \in Seq(BOOLEAN) /\ Len(kept) <= Threshold
      /\ Len(kept) \in DOMAIN kept /\ kept[Len(kept)] = held[r].confirmed
  BY <1>4, <1>a, WindowAfter
<1>6. /\ rw \in VerifyRows /\ rw.ledger = kept /\ rw.mirrored = row.mirrored
  BY <1>2, <1>5 DEF VerifyRows
<1>7. b \in BOOLEAN
  BY <1>2, <1>3 DEF VerifyRows, Outcomes
<1> HIDE DEF b
<1>8. /\ w.answered = world.answered /\ w.unmarked = (world.unmarked \/ b)
  BY <1>2 DEF VerifyWorlds
<1>9. w \in VerifyWorlds
  <2>1. (world.unmarked \/ b) \in BOOLEAN
    OBVIOUS
  <2>2. w = [world EXCEPT !.reported = FALSE, !.unmarked = world.unmarked \/ b]
    BY <1>2 DEF VerifyWorlds
  <2> QED
    BY <1>2, <2>1, <2>2, Zenon DEF VerifyWorlds
<1>10. ~ overlapped => ~ b
  <2> SUFFICES ASSUME ~ overlapped PROVE ~ b
    OBVIOUS
  <2>1. SoloOK(pc[r], held[r], row, world, faults)
    BY <1>1 DEF OperationsInv, Solo
  <2> QED
    BY <1>1, <2>1 DEF SoloOK, VerifySoloOK, b
<1>11. w.unmarked => overlapped
  BY <1>2, <1>8, <1>10
<1>12. AllFailed(rw) => label = "ver_rate"
  BY <1>5, <1>6 DEF AllFailed
<1>13. label \in {"idle", "ver_rate"}
  OBVIOUS
<1> HIDE DEF label, rw, w
<1>14. label \in {"idle"} \cup VerifyLabels /\ label # "ver_mirror"
  BY <1>13 DEF VerifyLabels
<1>15. VerifyRequestOK(label, held[r]) /\ VerifySoloOK(label, held[r], rw)
  BY <1>13 DEF VerifyRequestOK, VerifySoloOK
<1> QED
  BY <1>1, <1>2, <1>6, <1>8, <1>9, <1>11, <1>12, <1>14, <1>15, VerifyPlainInv

LEMMA VerifyCheckFailureRateInv ==
    ASSUME OperationsInv, service = "VERIFY", NEW r \in Requests,
           VerifyCheckFailureRate(r)
    PROVE  OperationsInv'
<1> DEFINE excessive == /\ Len(row.ledger) >= Threshold
                        /\ \A i \in DOMAIN row.ledger : ~ row.ledger[i]
           w == [world EXCEPT !.reported = @ \/ excessive]
<1>1. pc[r] = "ver_rate" /\ Step(r, "idle", held[r], row, w)
  BY DEF VerifyCheckFailureRate, Act
<1>2. /\ row \in VerifyRows /\ world \in VerifyWorlds
      /\ held[r] \in VerifyHeld \cup {NoValue}
      /\ world.unmarked => overlapped
  BY VerifyFacts
<1>3. AllFailed(row) => excessive
  BY VerifyAssumption DEF AllFailed, VerifyAssumption
<1>4. excessive \in BOOLEAN
  OBVIOUS
<1> HIDE DEF excessive
<1>5. /\ w \in VerifyWorlds /\ w.reported = (world.reported \/ excessive)
      /\ w.unmarked = world.unmarked /\ w.answered = world.answered
  BY <1>2, <1>4 DEF VerifyWorlds
<1> HIDE DEF w
<1>6. VerifyRequestOK("idle", held[r]) /\ VerifySoloOK("idle", held[r], row)
  BY DEF VerifyRequestOK, VerifySoloOK
<1>7. ~ (AllFailed(row) /\ ~ w.reported)
  BY <1>3, <1>5
<1> QED
  BY <1>1, <1>2, <1>5, <1>6, <1>7, VerifyPlainInv

LEMMA VerifyTimePassesInv ==
    ASSUME OperationsInv, VerifyTimePasses
    PROVE  OperationsInv'
<1> DEFINE rw == [row EXCEPT !.ledger = Tail(row.ledger)]
<1>1. service = "VERIFY" /\ row.ledger # <<>> /\ Outside(rw, world)
  BY DEF VerifyTimePasses
<1>2. row \in VerifyRows /\ world \in VerifyWorlds /\ RowOK(row, world, overlapped)
  BY <1>1 DEF OperationsInv, Typed, ORows, OWorld
<1>3. row.ledger \in Seq(BOOLEAN) /\ Len(row.ledger) <= Threshold
  BY <1>2 DEF VerifyRows
<1>4. Tail(row.ledger) \in Seq(BOOLEAN) /\ Len(Tail(row.ledger)) = Len(row.ledger) - 1
  BY <1>1, <1>3, HeadTailProperties, Zenon
<1>5. Len(Tail(row.ledger)) < Threshold
  BY <1>3, <1>4, VerifyAssumption DEF VerifyAssumption
<1>6. /\ rw \in VerifyRows /\ rw.ledger = Tail(row.ledger)
      /\ rw.enrolled = row.enrolled /\ rw.mirrored = row.mirrored
  BY <1>2, <1>4, <1>5, VerifyAssumption DEF VerifyRows, VerifyAssumption
<1> HIDE DEF rw
<1>7. ~ AllFailed(rw)
  BY <1>5, <1>6 DEF AllFailed
<1>8. rw \in ORows(service) /\ OWorld(service, world)
  BY <1>1, <1>2, <1>6 DEF ORows, OWorld
<1>9. RowOK(rw, world, overlapped)
  BY <1>1, <1>2 DEF RowOK
<1>10. \A q \in Requests : RequestOK(pc[q], held[q], row, world) =>
                               RequestOK(pc[q], held[q], rw, world)
  BY <1>1 DEF RequestOK
<1>11. \A l, h : SoloOK(l, h, row, world, faults) => SoloOK(l, h, rw, world, faults)
  BY <1>1, <1>6 DEF SoloOK, VerifySoloOK
<1>12. ~ Owed(rw, world, faults)
  BY <1>1, <1>7 DEF Owed
<1>13. \A n : Balanced(row, world, faults, n) => Balanced(rw, world, faults, n)
  BY <1>1, <1>6 DEF Balanced
<1> QED
  BY <1>1, <1>8, <1>9, <1>10, <1>11, <1>12, <1>13, OutsideInv

LEMMA MirrorGateInv ==
    ASSUME OperationsInv, service = "VERIFY", NEW r \in Requests, MirrorGate(r)
    PROVE  OperationsInv'
<1> DEFINE h == [held[r] EXCEPT !.left = @ - 1]
           rw == [row EXCEPT !.mirrored = @ + 1]
<1>1. pc[r] = "ver_mirror" /\ held[r].left > 0 /\ Step(r, "ver_mirror", h, rw, world)
  BY DEF MirrorGate
<1>2. /\ row \in VerifyRows /\ world \in VerifyWorlds
      /\ world.unmarked => overlapped
      /\ VerifyRequestOK(pc[r], held[r])
      /\ row.mirrored \in Nat /\ world.answered \in Nat
  BY VerifyFacts
<1>3. /\ held[r] \in [found : 0..Gates, left : 0..Gates]
      /\ held[r].left <= held[r].found
  BY <1>1, <1>2 DEF VerifyRequestOK
<1>4. held[r].found \in 0..Gates /\ held[r].left \in 0..Gates
  BY <1>3
<1>5. held[r].left - 1 \in 0..Gates /\ held[r].left - 1 <= held[r].found
  BY <1>1, <1>3, <1>4 DEF Gates
<1>6. /\ h \in [found : 0..Gates, left : 0..Gates]
      /\ h.found = held[r].found /\ h.left = held[r].left - 1
  BY <1>3, <1>5
<1>7. /\ rw \in VerifyRows /\ rw.ledger = row.ledger /\ rw.mirrored = row.mirrored + 1
  BY <1>2 DEF VerifyRows
<1> HIDE DEF h, rw
<1>8. h \in VerifyHeld /\ "ver_mirror" \in VerifyLabels
  BY <1>6 DEF VerifyHeld, VerifyLabels
<1>9. VerifyRequestOK("ver_mirror", h) /\ VerifySoloOK("ver_mirror", h, rw)
  BY <1>5, <1>6 DEF VerifyRequestOK, VerifySoloOK
<1>10. AllFailed(rw) => AllFailed(row)
  BY <1>7 DEF AllFailed
<1>11. /\ Units("uncounted", pc[r], held[r]) = held[r].found - held[r].left
       /\ Units("uncounted", "ver_mirror", h) = h.found - h.left
  BY <1>1, <1>2, <1>8, <1>9, VerifyUnits
<1>12. /\ held[r].found \in Nat /\ held[r].left \in Nat
  BY <1>4 DEF Gates
<1>13. rw.mirrored + world.answered + Units("uncounted", pc[r], held[r])
           = row.mirrored + world.answered + Units("uncounted", "ver_mirror", h)
  BY <1>2, <1>6, <1>7, <1>11, <1>12
<1> QED
  BY <1>1, <1>2, <1>7, <1>8, <1>9, <1>10, <1>13, VerifyStepInv

LEMMA MirrorAnswerInv ==
    ASSUME OperationsInv, service = "VERIFY", NEW r \in Requests, MirrorAnswer(r)
    PROVE  OperationsInv'
<1> DEFINE w == [world EXCEPT !.answered = @ + held[r].found]
<1>1. pc[r] = "ver_mirror" /\ held[r].left = 0 /\ Step(r, "idle", held[r], row, w)
  BY DEF MirrorAnswer, Act
<1>2. /\ row \in VerifyRows /\ world \in VerifyWorlds
      /\ held[r] \in VerifyHeld \cup {NoValue}
      /\ world.unmarked => overlapped
      /\ VerifyRequestOK(pc[r], held[r])
      /\ row.mirrored \in Nat /\ world.answered \in Nat
  BY VerifyFacts
<1>3. held[r] \in [found : 0..Gates, left : 0..Gates]
  BY <1>1, <1>2 DEF VerifyRequestOK
<1>4. held[r].found \in Nat
  BY <1>3 DEF Gates
<1>5. /\ w \in VerifyWorlds /\ w.reported = world.reported
      /\ w.unmarked = world.unmarked /\ w.answered = world.answered + held[r].found
  BY <1>2, <1>4 DEF VerifyWorlds
<1> HIDE DEF w
<1>6. VerifyRequestOK("idle", held[r]) /\ VerifySoloOK("idle", held[r], row)
  BY DEF VerifyRequestOK, VerifySoloOK
<1>7. /\ Units("uncounted", pc[r], held[r]) = held[r].found - held[r].left
      /\ Units("uncounted", "idle", held[r]) = 0
  BY <1>1, <1>2, <1>6, VerifyUnits DEF VerifyLabels
<1>8. row.mirrored + world.answered + Units("uncounted", pc[r], held[r])
          = row.mirrored + w.answered + Units("uncounted", "idle", held[r])
  BY <1>1, <1>2, <1>4, <1>5, <1>7
<1> QED
  BY <1>1, <1>2, <1>5, <1>6, <1>8, VerifyStepInv

LEMMA VerifyNextInv ==
    ASSUME OperationsInv, NEW r \in Requests,
           \/ VerifyCall(r)
           \/ service = "VERIFY" /\ VerifyGoOn(r)
           \/ VerifyTimePasses
    PROVE  OperationsInv'
<1>1. CASE service = "VERIFY" /\ VerifyGoOn(r)
  BY <1>1, VerifyCreateTfanInv, SecondWatchInv, VerifyAppendLedgerInv,
     VerifyCheckFailureRateInv, MirrorGateInv, MirrorAnswerInv DEF VerifyGoOn
<1> QED
  BY <1>1, VerifyCallInv, VerifyTimePassesInv

-----------------------------------------------------------------------------
(* A bank's application.                                                   *)

LEMMA BankFacts ==
    ASSUME OperationsInv, service = "BANK", NEW r \in Requests
    PROVE  /\ row \in BankRows /\ world \in BankWorlds
           /\ pc[r] \in {"idle"} \cup BankLabels
           /\ held[r] \in BankHeld \cup {NoValue}
           /\ faults \in Nat /\ overlapped \in BOOLEAN
           /\ BankRequestOK(pc[r], held[r])
<1>1. /\ row \in BankRows /\ world \in BankWorlds
      /\ pc[r] \in {"idle"} \cup BankLabels
      /\ held[r] \in BankHeld \cup {NoValue}
      /\ faults \in Nat /\ overlapped \in BOOLEAN
  BY DEF OperationsInv, Typed, ORows, OWorld, OHeld, LabelsOf
<1>2. BankRequestOK(pc[r], held[r])
  BY DEF OperationsInv, RequestOK
<1> QED
  BY <1>1, <1>2

LEMMA BankUnits ==
    ASSUME NEW l \in {"idle"} \cup BankLabels, NEW h, BankRequestOK(l, h)
    PROVE  /\ Units("uncounted", l, h) \in Nat
           /\ l # "bank_push" => Units("uncounted", l, h) = 0
           /\ l = "bank_push" => Units("uncounted", l, h) = h.found - h.left
<1>1. CASE l # "bank_push"
  BY <1>1 DEF Units, BankLabels
<1>2. CASE l = "bank_push"
  <2>1. h \in BankHeld /\ h.left <= h.found
    BY <1>2 DEF BankRequestOK, BankLabels
  <2>2. h.found \in Nat /\ h.left \in Nat
    BY <2>1 DEF BankHeld
  <2>3. h.found - h.left \in Nat
    BY <2>1, <2>2
  <2> QED
    BY <1>2, <2>3 DEF Units
<1> QED
  BY <1>1, <1>2

LEMMA BankStepInv ==
    ASSUME OperationsInv, service = "BANK", NEW r \in Requests,
           NEW label \in {"idle"} \cup BankLabels,
           NEW loaded \in BankHeld \cup {NoValue},
           NEW rw \in BankRows, NEW w \in BankWorlds,
           pc[r] # "idle", Step(r, label, loaded, rw, w),
           BankRequestOK(label, loaded),
           BankSoloOK(pc[r], held[r], row, world) => BankSoloOK(label, loaded, rw, w),
           rw.pushCount + Units("uncounted", label, loaded) + row.pushes
               = row.pushCount + Units("uncounted", pc[r], held[r]) + rw.pushes
    PROVE  OperationsInv'
<1>1. ShiftTyped(label, loaded, rw, w, faults, overlapped)
  BY BankFacts DEF ShiftTyped, LabelsOf, OHeld, ORows, OWorld
<1>2. RowOK(rw, w, overlapped)
  BY DEF RowOK
<1>3. RequestOK(label, loaded, rw, w)
  BY DEF RequestOK
<1>4. OthersKept(r, rw, w)
  BY DEF OthersKept, RequestOK
<1>5. SoloOK(pc[r], held[r], row, world, faults) => SoloOK(label, loaded, rw, w, faults)
  BY DEF SoloOK
<1>6. ~ Owed(rw, w, faults)
  BY DEF Owed
<1>7. BalanceKept(r, label, loaded, rw, w, faults)
  <2> SUFFICES ASSUME NEW n \in [Kinds -> Nat], NEW m \in [Kinds -> Nat],
                      Balanced(row, world, faults, n),
                      \A k \in Kinds : m[k] + Units(k, pc[r], held[r])
                                           = n[k] + Units(k, label, loaded)
               PROVE  Balanced(rw, w, faults, m)
    BY DEF BalanceKept
  <2> DEFINE a == Units("uncounted", pc[r], held[r])
             b == Units("uncounted", label, loaded)
  <2>1. a \in Nat /\ b \in Nat
    BY BankFacts, BankUnits
  <2>2. m["uncounted"] + a = n["uncounted"] + b
    BY DEF Kinds
  <2>3. m["uncounted"] \in Nat /\ n["uncounted"] \in Nat
    BY DEF Kinds
  <2>4. /\ row.pushCount \in Nat /\ row.pushes \in Nat
        /\ rw.pushCount \in Nat /\ rw.pushes \in Nat
    BY BankFacts DEF BankRows
  <2>5. rw.pushCount + b + row.pushes = row.pushCount + a + rw.pushes
    OBVIOUS
  <2> HIDE DEF a, b
  <2>6. /\ row.pushCount + n["uncounted"] <= row.pushes =>
               rw.pushCount + m["uncounted"] <= rw.pushes
        /\ row.pushCount + n["uncounted"] = row.pushes =>
               rw.pushCount + m["uncounted"] = rw.pushes
    BY <2>1, <2>2, <2>3, <2>4, <2>5
  <2> QED
    BY <2>6 DEF Balanced
<1>8. ShiftOK(r, label, loaded, rw, w, faults, overlapped)
  BY <1>2, <1>3, <1>4, <1>5, <1>6, <1>7 DEF ShiftOK
<1> QED
  BY <1>1, <1>8, StepInv

LEMMA BankBeginInv ==
    ASSUME OperationsInv, service = "BANK", NEW r \in Requests,
           NEW label \in BankLabels, NEW n \in Nat, Begin(r, label, BankLoad(n))
    PROVE  OperationsInv'
<1> DEFINE h == BankLoad(n)
<1>1. row \in BankRows
  BY BankFacts
<1>2. /\ h \in BankHeld /\ h.found = n /\ h.left = n
      /\ h.approvedAt = row.approvedAt /\ h.rejectedAt = row.rejectedAt
  BY <1>1 DEF BankLoad, BankHeld, BankRows
<1>3. Begin(r, label, h)
  OBVIOUS
<1> HIDE DEF h
<1>4. label \in LabelsOf(service) /\ h \in OHeld(service) \cup {NoValue}
  BY <1>2 DEF LabelsOf, OHeld
<1>5. BankRequestOK(label, h)
  BY <1>2 DEF BankRequestOK
<1>6. RequestOK(label, h, row, world)
  BY <1>5 DEF RequestOK
<1>7. SoloOK("idle", NoValue, row, world, faults) => SoloOK(label, h, row, world, faults)
  BY <1>2 DEF SoloOK, BankSoloOK
<1>8. Units("uncounted", label, h) = 0
  <2>1. Units("uncounted", label, h) \in {0, h.found - h.left}
    BY <1>5, BankUnits
  <2> QED
    BY <1>2, <2>1
<1>9. \A k \in Kinds : Units(k, label, h) = 0
  BY <1>8 DEF Units, BankLabels, Kinds
<1> QED
  BY <1>3, <1>4, <1>6, <1>7, <1>9, BeginInv

LEMMA BankCallInv ==
    ASSUME OperationsInv, NEW r \in Requests, BankCall(r)
    PROVE  OperationsInv'
<1>1. "bank_update" \in BankLabels /\ "bank_push" \in BankLabels
  BY DEF BankLabels
<1>2. CASE BankAdvance(r)
  <2>1. service = "BANK" /\ Begin(r, "bank_update", BankLoad(Docs)) /\ Docs \in Nat
    BY <1>2, BankAssumption DEF BankAdvance, BankAssumption
  <2> QED
    BY <1>1, <2>1, BankBeginInv
<1>3. CASE BankPushManually(r)
  <2>1. PICK n \in 0..Docs : Begin(r, "bank_push", BankLoad(n))
    BY <1>3 DEF BankPushManually
  <2>2. service = "BANK" /\ n \in Nat
    BY <1>3, BankAssumption DEF BankPushManually, BankAssumption
  <2> QED
    BY <1>1, <2>1, <2>2, BankBeginInv
<1> QED
  BY <1>2, <1>3 DEF BankCall

LEMMA BankSetStatusInv ==
    ASSUME OperationsInv, service = "BANK", NEW r \in Requests, BankSetStatus(r)
    PROVE  OperationsInv'
<1>1. pc[r] = "bank_update"
  BY DEF BankSetStatus
<1>2. PICK s \in BankStatuses :
          Step(r, IF s = "APPROVED" THEN "bank_push" ELSE "idle", held[r],
               [row EXCEPT !.status = s,
                           !.approvedAt = s = "APPROVED" \/ held[r].approvedAt,
                           !.rejectedAt = s = "REJECTED" \/ held[r].rejectedAt],
               [approved |-> world.approved \/ s = "APPROVED",
                rejected |-> world.rejected \/ s = "REJECTED"])
  BY DEF BankSetStatus
<1>3. /\ row \in BankRows /\ world \in BankWorlds
      /\ held[r] \in BankHeld /\ BankRequestOK(pc[r], held[r])
      /\ held[r].left = held[r].found /\ held[r].left <= held[r].found
      /\ pc[r] \in {"idle"} \cup BankLabels
  BY <1>1, BankFacts DEF BankRequestOK, BankLabels
<1> DEFINE label == IF s = "APPROVED" THEN "bank_push" ELSE "idle"
           a == s = "APPROVED" \/ held[r].approvedAt
           b == s = "REJECTED" \/ held[r].rejectedAt
           c == world.approved \/ s = "APPROVED"
           d == world.rejected \/ s = "REJECTED"
           rw == [row EXCEPT !.status = s, !.approvedAt = a, !.rejectedAt = b]
           w == [approved |-> c, rejected |-> d]
<1>4. Step(r, label, held[r], rw, w)
  BY <1>2
<1>5. a \in BOOLEAN /\ b \in BOOLEAN /\ c \in BOOLEAN /\ d \in BOOLEAN
  BY <1>3 DEF BankHeld, BankWorlds
<1>6. /\ held[r].approvedAt = world.approved => a = c
      /\ held[r].rejectedAt = world.rejected => b = d
  OBVIOUS
<1> HIDE DEF a, b, c, d
<1>7. w \in BankWorlds /\ w.approved = c /\ w.rejected = d
  BY <1>5 DEF BankWorlds
<1>8. rw \in BankRows
  BY <1>3, <1>5, Zenon DEF BankRows
<1>9. /\ rw.approvedAt = a /\ rw.rejectedAt = b
      /\ rw.pushCount = row.pushCount /\ rw.pushes = row.pushes
  BY <1>3 DEF BankRows
<1>10. label \in {"idle"} \cup BankLabels
  BY DEF BankLabels
<1>11. BankRequestOK(label, held[r])
  BY <1>3 DEF BankRequestOK
<1> HIDE DEF rw, w, label
<1>12. BankSoloOK(pc[r], held[r], row, world) => BankSoloOK(label, held[r], rw, w)
  <2> SUFFICES ASSUME BankSoloOK(pc[r], held[r], row, world)
               PROVE  BankSoloOK(label, held[r], rw, w)
    OBVIOUS
  <2>1. rw.approvedAt = w.approved /\ rw.rejectedAt = w.rejected
    BY <1>1, <1>6, <1>7, <1>9 DEF BankSoloOK
  <2> QED
    BY <2>1 DEF BankSoloOK, label
<1>13. /\ Units("uncounted", pc[r], held[r]) = 0
       /\ Units("uncounted", label, held[r]) = 0
  <2>1. Units("uncounted", pc[r], held[r]) = 0
    BY <1>1, <1>3, BankUnits
  <2>2. held[r].found \in Nat /\ held[r].left \in Nat
    BY <1>3 DEF BankHeld
  <2>3. held[r].found - held[r].left = 0
    BY <1>3, <2>2
  <2>4. Units("uncounted", label, held[r]) = 0
    BY <1>10, <1>11, <2>3, BankUnits
  <2> QED
    BY <2>1, <2>4
<1>14. row.pushCount \in Nat /\ row.pushes \in Nat
  BY <1>3 DEF BankRows
<1>15. rw.pushCount + Units("uncounted", label, held[r]) + row.pushes
           = row.pushCount + Units("uncounted", pc[r], held[r]) + rw.pushes
  BY <1>9, <1>13, <1>14
<1>16. pc[r] # "idle"
  BY <1>1
<1> QED
  BY <1>3, <1>4, <1>7, <1>8, <1>10, <1>11, <1>12, <1>15, <1>16, BankStepInv

LEMMA BankPushNextInv ==
    ASSUME OperationsInv, service = "BANK", NEW r \in Requests, BankPushNext(r)
    PROVE  OperationsInv'
<1> DEFINE h == [held[r] EXCEPT !.left = @ - 1]
           rw == [row EXCEPT !.pushes = @ + 1]
<1>1. pc[r] = "bank_push" /\ held[r].left > 0 /\ Step(r, "bank_push", h, rw, world)
  BY DEF BankPushNext
<1>2. /\ row \in BankRows /\ world \in BankWorlds /\ BankRequestOK(pc[r], held[r])
      /\ held[r] \in BankHeld /\ held[r].left <= held[r].found
  BY <1>1, BankFacts DEF BankRequestOK, BankLabels
<1>3. held[r].found \in Nat /\ held[r].left \in Nat
  BY <1>2 DEF BankHeld
<1>4. held[r].left - 1 \in Nat /\ held[r].left - 1 <= held[r].found
  BY <1>1, <1>2, <1>3
<1>5. h \in BankHeld /\ h.found = held[r].found /\ h.left = held[r].left - 1
  BY <1>2, <1>4 DEF BankHeld
<1>6. row.pushCount \in Nat /\ row.pushes \in Nat
  BY <1>2 DEF BankRows
<1>7. /\ rw \in BankRows /\ rw.pushes = row.pushes + 1 /\ rw.pushCount = row.pushCount
      /\ rw.approvedAt = row.approvedAt /\ rw.rejectedAt = row.rejectedAt
  BY <1>2, <1>6 DEF BankRows
<1> HIDE DEF h, rw
<1>8. "bank_push" \in BankLabels
  BY DEF BankLabels
<1>9. BankRequestOK("bank_push", h)
  BY <1>4, <1>5 DEF BankRequestOK
<1>10. BankSoloOK(pc[r], held[r], row, world) => BankSoloOK("bank_push", h, rw, world)
  BY <1>7 DEF BankSoloOK
<1>11. /\ Units("uncounted", pc[r], held[r]) = held[r].found - held[r].left
       /\ Units("uncounted", "bank_push", h) = h.found - h.left
  BY <1>1, <1>2, <1>8, <1>9, BankUnits
<1>12. rw.pushCount + Units("uncounted", "bank_push", h) + row.pushes
           = row.pushCount + Units("uncounted", pc[r], held[r]) + rw.pushes
  BY <1>3, <1>5, <1>6, <1>7, <1>11
<1>13. pc[r] # "idle"
  BY <1>1
<1> QED
  BY <1>1, <1>2, <1>5, <1>7, <1>8, <1>9, <1>10, <1>12, <1>13, BankStepInv

LEMMA BankCountPushesInv ==
    ASSUME OperationsInv, service = "BANK", NEW r \in Requests, BankCountPushes(r)
    PROVE  OperationsInv'
<1> DEFINE rw == [row EXCEPT !.pushCount = @ + held[r].found]
<1>1. pc[r] = "bank_push" /\ held[r].left = 0 /\ Step(r, "idle", held[r], rw, world)
  BY DEF BankCountPushes, Save
<1>2. /\ row \in BankRows /\ world \in BankWorlds /\ BankRequestOK(pc[r], held[r])
      /\ held[r] \in BankHeld /\ held[r].left <= held[r].found
      /\ pc[r] \in {"idle"} \cup BankLabels
  BY <1>1, BankFacts DEF BankRequestOK, BankLabels
<1>3. held[r].found \in Nat /\ held[r].left \in Nat
  BY <1>2 DEF BankHeld
<1>4. row.pushCount \in Nat /\ row.pushes \in Nat
  BY <1>2 DEF BankRows
<1>5. /\ rw \in BankRows /\ rw.pushes = row.pushes
      /\ rw.pushCount = row.pushCount + held[r].found
      /\ rw.approvedAt = row.approvedAt /\ rw.rejectedAt = row.rejectedAt
  BY <1>2, <1>3, <1>4 DEF BankRows
<1> HIDE DEF rw
<1>6. BankRequestOK("idle", held[r])
  BY DEF BankRequestOK, BankLabels
<1>7. BankSoloOK(pc[r], held[r], row, world) => BankSoloOK("idle", held[r], rw, world)
  BY <1>5 DEF BankSoloOK
<1>8. /\ Units("uncounted", pc[r], held[r]) = held[r].found - held[r].left
      /\ Units("uncounted", "idle", held[r]) = 0
  BY <1>1, <1>2, <1>6, BankUnits
<1>9. rw.pushCount + Units("uncounted", "idle", held[r]) + row.pushes
          = row.pushCount + Units("uncounted", pc[r], held[r]) + rw.pushes
  BY <1>1, <1>3, <1>4, <1>5, <1>8
<1>10. pc[r] # "idle"
  BY <1>1
<1> QED
  BY <1>1, <1>2, <1>5, <1>6, <1>7, <1>9, <1>10, BankStepInv

LEMMA BankNextInv ==
    ASSUME OperationsInv, NEW r \in Requests,
           BankCall(r) \/ (service = "BANK" /\ BankGoOn(r))
    PROVE  OperationsInv'
BY BankCallInv, BankSetStatusInv, BankPushNextInv, BankCountPushesInv DEF BankGoOn

-----------------------------------------------------------------------------
(* Licences.                                                               *)

LEMMA LicenceFacts ==
    ASSUME OperationsInv, service = "LICENCE"
    PROVE  /\ row \in LicenceRows /\ world = NoValue
           /\ overlapped \in BOOLEAN /\ faults \in Nat
           /\ LicenceRowOK(row, overlapped)
           /\ \A r \in Requests :
                 /\ pc[r] \in {"idle", "lic_update", "lic_renew", "lic_resolve"}
                 /\ held[r] \in LicenceStatuses \cup {NoValue}
                 /\ LicenceRequestOK(pc[r], held[r])
<1>1. /\ row \in LicenceRows /\ world = NoValue
      /\ overlapped \in BOOLEAN /\ faults \in Nat
      /\ \A r \in Requests :
             /\ pc[r] \in {"idle", "lic_update", "lic_renew", "lic_resolve"}
             /\ held[r] \in LicenceStatuses \cup {NoValue}
  BY DEF OperationsInv, Typed, ORows, OWorld, OHeld, LabelsOf
<1>2. LicenceRowOK(row, overlapped)
  BY DEF OperationsInv, RowOK
<1>3. \A r \in Requests : LicenceRequestOK(pc[r], held[r])
  BY DEF OperationsInv, RequestOK
<1> QED
  BY <1>1, <1>2, <1>3

LEMMA LicenceStepInv ==
    ASSUME OperationsInv, service = "LICENCE", NEW r \in Requests,
           NEW label \in {"idle", "lic_resolve"}, NEW rw \in LicenceRows,
           pc[r] \in {"lic_update", "lic_renew", "lic_resolve"},
           Step(r, label, held[r], rw, world),
           LicenceRowOK(rw, overlapped),
           rw.licenseEndDate = "far" /\ rw.expiring =>
               \/ label = "lic_resolve"
               \/ /\ pc[r] # "lic_resolve"
                  /\ row.licenseEndDate = "far" /\ row.expiring
    PROVE  OperationsInv'
<1>1. ShiftTyped(label, held[r], rw, world, faults, overlapped)
  BY LicenceFacts DEF ShiftTyped, LabelsOf, OHeld, ORows, OWorld
<1>2. RowOK(rw, world, overlapped)
  BY DEF RowOK
<1>3. RequestOK(label, held[r], rw, world)
  BY DEF RequestOK, LicenceRequestOK
<1>4. OthersKept(r, rw, world)
  BY DEF OthersKept, RequestOK
<1>5. SoloOK(label, held[r], rw, world, faults)
  BY DEF SoloOK, LicenceSoloOK
<1>6. Owed(rw, world, faults) =>
          label \in Debtors \/ (Owed(row, world, faults) /\ pc[r] \notin Debtors)
  BY DEF Owed, Debtors
<1>7. BalanceKept(r, label, held[r], rw, world, faults)
  BY NoBooks
<1>8. ShiftOK(r, label, held[r], rw, world, faults, overlapped)
  BY <1>2, <1>3, <1>4, <1>5, <1>6, <1>7 DEF ShiftOK
<1>9. pc[r] # "idle"
  OBVIOUS
<1> QED
  BY <1>1, <1>8, <1>9, StepInv

LEMMA LicenceBeginInv ==
    ASSUME OperationsInv, service = "LICENCE", NEW r \in Requests,
           NEW label \in {"lic_update", "lic_renew"},
           NEW loaded \in LicenceStatuses \cup {NoValue}, Begin(r, label, loaded),
           LicenceRequestOK(label, loaded), LicenceSoloOK(label, loaded, row)
    PROVE  OperationsInv'
<1>1. label \in LabelsOf(service) /\ loaded \in OHeld(service) \cup {NoValue}
  BY DEF LabelsOf, OHeld
<1>2. RequestOK(label, loaded, row, world)
  BY DEF RequestOK
<1>3. SoloOK(label, loaded, row, world, faults)
  BY DEF SoloOK
<1>4. \A k \in Kinds : Units(k, label, loaded) = 0
  BY DEF Units
<1> QED
  BY <1>1, <1>2, <1>3, <1>4, BeginInv

LEMMA ListLicensesInv ==
    ASSUME OperationsInv, NEW r \in Requests, ListLicenses(r)
    PROVE  OperationsInv'
<1> DEFINE status == ComputeStatus(row.licenseEndDate)
<1>1. service = "LICENCE" /\ Begin(r, "lic_update", status)
  BY DEF ListLicenses
<1>2. row.licenseEndDate \in Ends
  BY <1>1, LicenceFacts DEF LicenceRows
<1>3. status \in LicenceStatuses /\ (status = "SUSPENDED" => row.licenseEndDate = "past")
  BY <1>2 DEF ComputeStatus, Ends, LicenceStatuses
<1> HIDE DEF status
<1>4. LicenceRequestOK("lic_update", status) /\ LicenceSoloOK("lic_update", status, row)
  BY <1>3 DEF LicenceRequestOK, LicenceSoloOK
<1> QED
  BY <1>1, <1>3, <1>4, LicenceBeginInv

LEMMA ConfirmRenewalInv ==
    ASSUME OperationsInv, NEW r \in Requests, ConfirmRenewal(r)
    PROVE  OperationsInv'
<1>1. service = "LICENCE" /\ Begin(r, "lic_renew", NoValue)
  BY DEF ConfirmRenewal
<1>2. LicenceRequestOK("lic_renew", NoValue) /\ LicenceSoloOK("lic_renew", NoValue, row)
  BY DEF LicenceRequestOK, LicenceSoloOK
<1> QED
  BY <1>1, <1>2, LicenceBeginInv

LEMMA LicenceUpdateInv ==
    ASSUME OperationsInv, service = "LICENCE", NEW r \in Requests, LicenceUpdate(r)
    PROVE  OperationsInv'
<1> DEFINE restricted == held[r] = "SUSPENDED"
           rw == [row EXCEPT !.status = held[r], !.apiAccessRestricted = restricted]
<1>1. pc[r] = "lic_update" /\ Step(r, "idle", held[r], rw, world)
  BY DEF LicenceUpdate, Save
<1>2. /\ row \in LicenceRows /\ LicenceRowOK(row, overlapped)
      /\ LicenceRequestOK(pc[r], held[r])
  BY LicenceFacts
<1>3. held[r] \in LicenceStatuses
  BY <1>1, <1>2 DEF LicenceRequestOK
<1>4. restricted \in BOOLEAN /\ (restricted <=> held[r] = "SUSPENDED")
  OBVIOUS
<1> HIDE DEF restricted
<1>5. rw \in LicenceRows
  BY <1>2, <1>3, <1>4, Zenon DEF LicenceRows
<1>6. /\ rw.status = held[r] /\ rw.apiAccessRestricted = restricted
      /\ rw.licenseEndDate = row.licenseEndDate /\ rw.expiring = row.expiring
  BY <1>2 DEF LicenceRows
<1> HIDE DEF rw
<1>7. held[r] = "SUSPENDED" => row.licenseEndDate = "past" \/ overlapped
  <2> SUFFICES ASSUME ~ overlapped, held[r] = "SUSPENDED"
               PROVE  row.licenseEndDate = "past"
    OBVIOUS
  <2>1. SoloOK(pc[r], held[r], row, world, faults)
    BY <1>1 DEF OperationsInv, Solo
  <2> QED
    BY <1>1, <2>1 DEF SoloOK, LicenceSoloOK
<1>8. LicenceRowOK(rw, overlapped)
  BY <1>4, <1>6, <1>7 DEF LicenceRowOK
<1> QED
  BY <1>1, <1>5, <1>6, <1>8, LicenceStepInv

LEMMA LicenceRenewInv ==
    ASSUME OperationsInv, service = "LICENCE", NEW r \in Requests, LicenceRenew(r)
    PROVE  OperationsInv'
<1> DEFINE rw == [row EXCEPT !.status = "ACTIVE", !.licenseEndDate = "far",
                             !.apiAccessRestricted = FALSE]
<1>1. pc[r] = "lic_renew" /\ Step(r, "lic_resolve", held[r], rw, world)
  BY DEF LicenceRenew, Save
<1>2. row \in LicenceRows
  BY LicenceFacts
<1>3. "ACTIVE" \in LicenceStatuses /\ "far" \in Ends
  BY DEF LicenceStatuses, Ends
<1>4. rw \in LicenceRows
  BY <1>2, <1>3, Zenon DEF LicenceRows
<1>5. rw.status = "ACTIVE" /\ rw.apiAccessRestricted = FALSE
  BY <1>2 DEF LicenceRows
<1> HIDE DEF rw
<1>6. LicenceRowOK(rw, overlapped)
  BY <1>5 DEF LicenceRowOK
<1> QED
  BY <1>1, <1>4, <1>6, LicenceStepInv

LEMMA LicenceResolveFlagsInv ==
    ASSUME OperationsInv, service = "LICENCE", NEW r \in Requests,
           LicenceResolveFlags(r)
    PROVE  OperationsInv'
<1> DEFINE rw == [row EXCEPT !.expiring = FALSE]
<1>1. pc[r] = "lic_resolve" /\ Step(r, "idle", held[r], rw, world)
  BY DEF LicenceResolveFlags, Save
<1>2. row \in LicenceRows /\ LicenceRowOK(row, overlapped)
  BY LicenceFacts
<1>3. /\ rw \in LicenceRows /\ rw.status = row.status /\ rw.expiring = FALSE
      /\ rw.licenseEndDate = row.licenseEndDate
      /\ rw.apiAccessRestricted = row.apiAccessRestricted
  BY <1>2 DEF LicenceRows
<1> HIDE DEF rw
<1>4. LicenceRowOK(rw, overlapped)
  BY <1>2, <1>3 DEF LicenceRowOK
<1> QED
  BY <1>1, <1>3, <1>4, LicenceStepInv

LEMMA LicenceTimePassesInv ==
    ASSUME OperationsInv, LicenceTimePasses
    PROVE  OperationsInv'
<1> DEFINE end == IF row.licenseEndDate = "far" THEN "soon" ELSE "past"
           rw == [row EXCEPT !.licenseEndDate = end]
<1>1. service = "LICENCE" /\ row.licenseEndDate # "past" /\ Outside(rw, world)
  BY DEF LicenceTimePasses
<1>2. row \in LicenceRows /\ world = NoValue /\ LicenceRowOK(row, overlapped)
  BY <1>1, LicenceFacts
<1>3. end \in Ends /\ end # "far"
  BY DEF Ends
<1> HIDE DEF end
<1>4. /\ rw \in LicenceRows /\ rw.licenseEndDate = end /\ rw.status = row.status
      /\ rw.apiAccessRestricted = row.apiAccessRestricted
  BY <1>2, <1>3 DEF LicenceRows
<1> HIDE DEF rw
<1>5. rw \in ORows(service) /\ OWorld(service, world)
  BY <1>1, <1>2, <1>4 DEF ORows, OWorld
<1>6. RowOK(rw, world, overlapped)
  BY <1>1, <1>2, <1>4 DEF RowOK, LicenceRowOK
<1>7. \A q \in Requests : RequestOK(pc[q], held[q], row, world) =>
                              RequestOK(pc[q], held[q], rw, world)
  BY <1>1 DEF RequestOK
<1>8. \A l, h : SoloOK(l, h, row, world, faults) => SoloOK(l, h, rw, world, faults)
  BY <1>1 DEF SoloOK, LicenceSoloOK
<1>9. ~ Owed(rw, world, faults)
  BY <1>1, <1>3, <1>4 DEF Owed
<1>10. \A n : Balanced(row, world, faults, n) => Balanced(rw, world, faults, n)
  BY <1>1 DEF Balanced
<1> QED
  BY <1>1, <1>5, <1>6, <1>7, <1>8, <1>9, <1>10, OutsideInv

-----------------------------------------------------------------------------
(* The flags of a dedicated account.                                       *)

LEMMA FlagFacts ==
    ASSUME OperationsInv, service = "FLAGS"
    PROVE  /\ row \in FlagRows /\ world = NoValue
           /\ overlapped \in BOOLEAN /\ faults \in Nat
           /\ row.open \in Nat /\ row.resolved \in Nat
           /\ \A r \in Requests :
                 /\ pc[r] \in {"idle", "flag_trigger", "flag_raise"}
                 /\ held[r] = NoValue
<1>1. /\ row \in FlagRows /\ world = NoValue
      /\ overlapped \in BOOLEAN /\ faults \in Nat
      /\ \A r \in Requests :
             /\ pc[r] \in {"idle", "flag_trigger", "flag_raise"}
             /\ held[r] = NoValue
  BY DEF OperationsInv, Typed, ORows, OWorld, OHeld, LabelsOf
<1> QED
  BY <1>1 DEF FlagRows

LEMMA FlagStepInv ==
    ASSUME OperationsInv, service = "FLAGS", NEW r \in Requests,
           NEW label \in {"idle", "flag_raise"}, NEW rw \in FlagRows,
           pc[r] \in {"flag_trigger", "flag_raise"},
           Step(r, label, held[r], rw, world),
           FlagSoloOK(pc[r], row) => FlagSoloOK(label, rw),
           label = "flag_raise" \/ rw.open + rw.resolved # 0
    PROVE  OperationsInv'
<1>1. ShiftTyped(label, held[r], rw, world, faults, overlapped)
  BY FlagFacts DEF ShiftTyped, LabelsOf, OHeld, ORows, OWorld
<1>2. RowOK(rw, world, overlapped)
  BY DEF RowOK
<1>3. RequestOK(label, held[r], rw, world)
  BY DEF RequestOK
<1>4. OthersKept(r, rw, world)
  BY DEF OthersKept, RequestOK
<1>5. SoloOK(pc[r], held[r], row, world, faults) =>
          SoloOK(label, held[r], rw, world, faults)
  BY DEF SoloOK
<1>6. Owed(rw, world, faults) => label \in Debtors
  BY DEF Owed, Debtors
<1>7. BalanceKept(r, label, held[r], rw, world, faults)
  BY NoBooks
<1>8. ShiftOK(r, label, held[r], rw, world, faults, overlapped)
  BY <1>2, <1>3, <1>4, <1>5, <1>6, <1>7 DEF ShiftOK
<1>9. pc[r] # "idle"
  OBVIOUS
<1> QED
  BY <1>1, <1>8, <1>9, StepInv

LEMMA ScanRedFlagsInv ==
    ASSUME OperationsInv, NEW r \in Requests, ScanRedFlags(r)
    PROVE  OperationsInv'
<1>1. /\ service = "FLAGS" /\ ~ row.redFlagTriggered
      /\ Begin(r, "flag_trigger", NoValue)
  BY DEF ScanRedFlags
<1>2. "flag_trigger" \in LabelsOf(service)
  BY <1>1 DEF LabelsOf
<1>3. RequestOK("flag_trigger", NoValue, row, world)
  BY <1>1 DEF RequestOK
<1>4. SoloOK("idle", NoValue, row, world, faults) =>
          SoloOK("flag_trigger", NoValue, row, world, faults)
  BY <1>1 DEF SoloOK, FlagSoloOK
<1>5. \A k \in Kinds : Units(k, "flag_trigger", NoValue) = 0
  BY DEF Units
<1> QED
  BY <1>1, <1>2, <1>3, <1>4, <1>5, BeginInv

LEMMA FlagTriggerInv ==
    ASSUME OperationsInv, service = "FLAGS", NEW r \in Requests, FlagTrigger(r)
    PROVE  OperationsInv'
<1> DEFINE rw == [row EXCEPT !.redFlagTriggered = TRUE]
<1>1. pc[r] = "flag_trigger" /\ Step(r, "flag_raise", held[r], rw, world)
  BY DEF FlagTrigger, Save
<1>2. row \in FlagRows
  BY FlagFacts
<1>3. /\ rw \in FlagRows /\ rw.redFlagTriggered
      /\ rw.open = row.open /\ rw.resolved = row.resolved
  BY <1>2 DEF FlagRows
<1> HIDE DEF rw
<1>4. FlagSoloOK(pc[r], row) => FlagSoloOK("flag_raise", rw)
  BY <1>1, <1>3 DEF FlagSoloOK
<1> QED
  BY <1>1, <1>3, <1>4, FlagStepInv

LEMMA FlagRaiseInv ==
    ASSUME OperationsInv, service = "FLAGS", NEW r \in Requests, FlagRaise(r)
    PROVE  OperationsInv'
<1> DEFINE rw == [row EXCEPT !.open = @ + 1]
<1>1. pc[r] = "flag_raise" /\ Step(r, "idle", held[r], rw, world)
  BY DEF FlagRaise, Save
<1>2. row \in FlagRows /\ row.open \in Nat /\ row.resolved \in Nat
  BY FlagFacts
<1>3. /\ rw \in FlagRows /\ rw.redFlagTriggered = row.redFlagTriggered
      /\ rw.open = row.open + 1 /\ rw.resolved = row.resolved
  BY <1>2 DEF FlagRows
<1> HIDE DEF rw
<1>4. FlagSoloOK(pc[r], row) => FlagSoloOK("idle", rw)
  BY <1>1, <1>2, <1>3 DEF FlagSoloOK
<1>5. rw.open + rw.resolved # 0
  BY <1>2, <1>3
<1> QED
  BY <1>1, <1>3, <1>4, <1>5, FlagStepInv

LEMMA ResolveRedFlagInv ==
    ASSUME OperationsInv, NEW r \in Requests, ResolveRedFlag(r)
    PROVE  OperationsInv'
<1>1. service = "FLAGS"
  BY DEF ResolveRedFlag
<1>2. /\ row \in FlagRows /\ world = NoValue
      /\ row.open \in Nat /\ row.resolved \in Nat
  BY <1>1, FlagFacts
<1>3. ASSUME NEW rw \in FlagRows, Once(r, rw, world),
             rw.redFlagTriggered = row.redFlagTriggered,
             rw.open + rw.resolved = row.open + row.resolved
      PROVE  OperationsInv'
  <2>1. rw \in ORows(service) /\ OWorld(service, world)
    BY <1>1, <1>2 DEF ORows, OWorld
  <2>2. RowOK(rw, world, overlapped \/ Busy)
    BY <1>1 DEF RowOK
  <2>3. OthersKept(r, rw, world)
    BY <1>1 DEF OthersKept, RequestOK
  <2>4. SoloOK("idle", NoValue, row, world, faults) =>
            SoloOK("idle", NoValue, rw, world, faults)
    BY <1>1, <1>3 DEF SoloOK, FlagSoloOK
  <2>5. Owed(rw, world, faults) => Owed(row, world, faults)
    BY <1>1, <1>3 DEF Owed
  <2>6. \A n : Balanced(row, world, faults, n) => Balanced(rw, world, faults, n)
    BY <1>1 DEF Balanced
  <2> QED
    BY <1>3, <2>1, <2>2, <2>3, <2>4, <2>5, <2>6, OnceInv
<1> DEFINE rw == [row EXCEPT !.open = @ - 1, !.resolved = @ + 1]
<1>4. CASE row.open > 0 /\ Once(r, rw, world)
  <2>1. row.open - 1 \in Nat /\ row.resolved + 1 \in Nat
    BY <1>2, <1>4
  <2>2. rw = [row EXCEPT !.open = row.open - 1, !.resolved = row.resolved + 1]
    BY <1>2 DEF FlagRows
  <2>3. rw \in FlagRows
    BY <1>2, <2>1, <2>2, Zenon DEF FlagRows
  <2>4. /\ rw.redFlagTriggered = row.redFlagTriggered
        /\ rw.open = row.open - 1 /\ rw.resolved = row.resolved + 1
    BY <1>2, <2>2 DEF FlagRows
  <2> HIDE DEF rw
  <2>5. rw.open + rw.resolved = row.open + row.resolved
    BY <1>2, <2>4
  <2> QED
    BY <1>3, <1>4, <2>3, <2>4, <2>5
<1>5. CASE row.resolved > 0 /\ Once(r, row, world)
  BY <1>2, <1>3, <1>5
<1> QED
  BY <1>4, <1>5 DEF ResolveRedFlag

LEMMA BalanceChangesInv ==
    ASSUME OperationsInv, BalanceChanges
    PROVE  OperationsInv'
<1> DEFINE rw == [row EXCEPT !.low = ~ @]
<1>1. service = "FLAGS" /\ Outside(rw, world)
  BY DEF BalanceChanges
<1>2. row \in FlagRows /\ world = NoValue
  BY <1>1, FlagFacts
<1>3. /\ rw \in FlagRows /\ rw.redFlagTriggered = row.redFlagTriggered
      /\ rw.open = row.open /\ rw.resolved = row.resolved
  BY <1>2 DEF FlagRows
<1> HIDE DEF rw
<1>4. rw \in ORows(service) /\ OWorld(service, world)
  BY <1>1, <1>2, <1>3 DEF ORows, OWorld
<1>5. RowOK(rw, world, overlapped)
  BY <1>1 DEF RowOK
<1>6. \A q \in Requests : RequestOK(pc[q], held[q], row, world) =>
                              RequestOK(pc[q], held[q], rw, world)
  BY <1>1 DEF RequestOK
<1>7. \A l, h : SoloOK(l, h, row, world, faults) => SoloOK(l, h, rw, world, faults)
  BY <1>1, <1>3 DEF SoloOK, FlagSoloOK
<1>8. Owed(rw, world, faults) => Owed(row, world, faults)
  BY <1>1, <1>3 DEF Owed
<1>9. \A n : Balanced(row, world, faults, n) => Balanced(rw, world, faults, n)
  BY <1>1 DEF Balanced
<1> QED
  BY <1>1, <1>4, <1>5, <1>6, <1>7, <1>8, <1>9, OutsideInv

\* Each step is of the service that has its label.
LEMMA RegulatoryNextInv ==
    ASSUME OperationsInv, NEW r \in Requests,
           \/ RegulatoryCall(r)
           \/ service \in {"LICENCE", "FLAGS"} /\ RegulatoryGoOn(r)
           \/ LicenceTimePasses \/ BalanceChanges
    PROVE  OperationsInv'
<1>1. CASE service = "LICENCE" /\ RegulatoryGoOn(r)
  <2>1. ~ FlagTrigger(r) /\ ~ FlagRaise(r)
    BY <1>1, LicenceFacts DEF FlagTrigger, FlagRaise
  <2> QED
    BY <1>1, <2>1, LicenceUpdateInv, LicenceRenewInv, LicenceResolveFlagsInv
       DEF RegulatoryGoOn
<1>2. CASE service = "FLAGS" /\ RegulatoryGoOn(r)
  <2>1. ~ LicenceUpdate(r) /\ ~ LicenceRenew(r) /\ ~ LicenceResolveFlags(r)
    BY <1>2, FlagFacts DEF LicenceUpdate, LicenceRenew, LicenceResolveFlags
  <2> QED
    BY <1>2, <2>1, FlagTriggerInv, FlagRaiseInv DEF RegulatoryGoOn
<1>3. CASE RegulatoryCall(r)
  BY <1>3, ListLicensesInv, ConfirmRenewalInv, ScanRedFlagsInv, ResolveRedFlagInv
     DEF RegulatoryCall
<1> QED
  BY <1>1, <1>2, <1>3, LicenceTimePassesInv, BalanceChangesInv

-----------------------------------------------------------------------------
(* The vaults.                                                             *)

\* The vault a run turns to is one of those it holds.
LEMMA FirstIsOne ==
    ASSUME NEW S \in SUBSET Nat, S # {}
    PROVE  FirstOf(S) \in S
<1>1. PICK m \in S : \A n \in S : ~ (<<n, m>> \in OpToRel(<, Nat))
  BY WFMin, NatLessThanWellFounded, Zenon
<1>2. \A n \in S : ~ (n < m)
  BY <1>1, Zenon DEF OpToRel
<1>3. \A n \in S : m <= n
  BY <1>2
<1> QED
  BY <1>3 DEF FirstOf

LEMMA ActiveFinite ==
    ASSUME NEW rw \in VaultRows
    PROVE  IsFiniteSet(ActiveOf(rw)) /\ Cardinality(ActiveOf(rw)) \in Nat
<1>1. rw.vaults \in Seq(VaultRecords)
  BY DEF VaultRows
<1>2. DOMAIN rw.vaults = 1 .. Len(rw.vaults) /\ Len(rw.vaults) \in Nat
  BY <1>1
<1>3. IsFiniteSet(DOMAIN rw.vaults)
  BY <1>2, FS_Interval
<1>4. IsFiniteSet(ActiveOf(rw))
  BY <1>3, FS_Subset DEF ActiveOf
<1> QED
  BY <1>4, FS_CardinalityType

One(b) == IF b THEN 1 ELSE 0

LEMMA VaultUnits ==
    ASSUME NEW l \in {"idle"} \cup VaultLabels, NEW h
    PROVE  /\ Units("unrecorded", l, h) = One(l = "vault_row")
           /\ Units("uncounted", l, h) = One(l = "vault_count")
           /\ Units("flips", l, h) = One(l = "flip_count")
BY DEF Units, One, VaultLabels

LEMMA VaultFacts ==
    ASSUME OperationsInv, service = "VAULT", NEW r \in Requests
    PROVE  /\ row \in VaultRows /\ world \in VaultWorlds
           /\ pc[r] \in {"idle"} \cup VaultLabels
           /\ held[r] \in VaultHeld \cup {NoValue}
           /\ faults \in Nat /\ overlapped \in BOOLEAN
           /\ VaultRowOK(row, world)
           /\ VaultRequestOK(pc[r], held[r], row, world)
<1>1. /\ row \in VaultRows /\ world \in VaultWorlds
      /\ pc[r] \in {"idle"} \cup VaultLabels
      /\ held[r] \in VaultHeld \cup {NoValue}
      /\ faults \in Nat /\ overlapped \in BOOLEAN
  BY DEF OperationsInv, Typed, ORows, OWorld, OHeld, LabelsOf
<1>2. VaultRowOK(row, world)
  BY DEF OperationsInv, RowOK
<1>3. VaultRequestOK(pc[r], held[r], row, world)
  BY DEF OperationsInv, RequestOK
<1> QED
  BY <1>1, <1>2, <1>3

\* The books of the vaults, moved from one step to another.
VaultBooks(l, rw, w, label, rx, x) ==
    LET old == Cardinality(ActiveOf(rw))
        new == Cardinality(ActiveOf(rx))
    IN  /\ x.nubans + Len(rw.vaults) + One(l = "vault_row")
               = w.nubans + Len(rx.vaults) + One(label = "vault_row")
        /\ Len(rx.vaults) + rw.totalVaultsCreated + One(l = "vault_count")
               = Len(rw.vaults) + rx.totalVaultsCreated + One(label = "vault_count")
        /\ rx.totalVaultsFlipped + One(label = "flip_count") + old
               >= rw.totalVaultsFlipped + One(l = "flip_count") + new

LEMMA VaultBalance ==
    ASSUME NEW r \in Requests, service = "VAULT",
           pc[r] \in {"idle"} \cup VaultLabels,
           row \in VaultRows, world \in VaultWorlds,
           NEW label \in {"idle"} \cup VaultLabels, NEW loaded,
           NEW rw \in VaultRows, NEW w \in VaultWorlds,
           VaultBooks(pc[r], row, world, label, rw, w)
    PROVE  BalanceKept(r, label, loaded, rw, w, faults)
<1> SUFFICES ASSUME NEW n \in [Kinds -> Nat], NEW m \in [Kinds -> Nat],
                    Balanced(row, world, faults, n), faults = 0,
                    \A k \in Kinds : m[k] + Units(k, pc[r], held[r])
                                         = n[k] + Units(k, label, loaded)
             PROVE  /\ w.nubans = Len(rw.vaults) + m["unrecorded"]
                    /\ Len(rw.vaults) = rw.totalVaultsCreated + m["uncounted"]
                    /\ rw.totalVaultsFlipped + m["flips"] >= Cardinality(ActiveOf(rw))
  BY DEF BalanceKept, Balanced
<1> DEFINE a1 == One(pc[r] = "vault_row")  b1 == One(label = "vault_row")
           a2 == One(pc[r] = "vault_count")  b2 == One(label = "vault_count")
           a3 == One(pc[r] = "flip_count")  b3 == One(label = "flip_count")
           len == Len(row.vaults)  len2 == Len(rw.vaults)
           card == Cardinality(ActiveOf(row))  card2 == Cardinality(ActiveOf(rw))
<1>1. /\ a1 \in Nat /\ b1 \in Nat /\ a2 \in Nat /\ b2 \in Nat /\ a3 \in Nat /\ b3 \in Nat
  BY DEF One
<1>2. /\ m["unrecorded"] + a1 = n["unrecorded"] + b1
      /\ m["uncounted"] + a2 = n["uncounted"] + b2
      /\ m["flips"] + a3 = n["flips"] + b3
  <2>1. /\ m["unrecorded"] + Units("unrecorded", pc[r], held[r])
               = n["unrecorded"] + Units("unrecorded", label, loaded)
        /\ m["uncounted"] + Units("uncounted", pc[r], held[r])
               = n["uncounted"] + Units("uncounted", label, loaded)
        /\ m["flips"] + Units("flips", pc[r], held[r])
               = n["flips"] + Units("flips", label, loaded)
    BY DEF Kinds
  <2>2. /\ Units("unrecorded", pc[r], held[r]) = a1
        /\ Units("uncounted", pc[r], held[r]) = a2
        /\ Units("flips", pc[r], held[r]) = a3
    BY VaultUnits
  <2>3. /\ Units("unrecorded", label, loaded) = b1
        /\ Units("uncounted", label, loaded) = b2
        /\ Units("flips", label, loaded) = b3
    BY VaultUnits
  <2> HIDE DEF a1, b1, a2, b2, a3, b3
  <2> QED
    BY <2>1, <2>2, <2>3
<1>3. /\ m["unrecorded"] \in Nat /\ n["unrecorded"] \in Nat
      /\ m["uncounted"] \in Nat /\ n["uncounted"] \in Nat
      /\ m["flips"] \in Nat /\ n["flips"] \in Nat
  BY DEF Kinds
<1>4. len \in Nat /\ len2 \in Nat /\ card \in Nat /\ card2 \in Nat
  BY ActiveFinite DEF VaultRows
<1>5. /\ row.totalVaultsCreated \in Nat /\ row.totalVaultsFlipped \in Nat
      /\ rw.totalVaultsCreated \in Nat /\ rw.totalVaultsFlipped \in Nat
      /\ world.nubans \in Nat /\ w.nubans \in Nat
  BY DEF VaultRows, VaultWorlds
<1>6. /\ w.nubans + len + a1 = world.nubans + len2 + b1
      /\ len2 + row.totalVaultsCreated + a2 = len + rw.totalVaultsCreated + b2
      /\ rw.totalVaultsFlipped + b3 + card >= row.totalVaultsFlipped + a3 + card2
  BY DEF VaultBooks
<1>7. /\ world.nubans = len + n["unrecorded"]
      /\ len = row.totalVaultsCreated + n["uncounted"]
      /\ row.totalVaultsFlipped + n["flips"] >= card
  BY DEF Balanced
<1> HIDE DEF a1, b1, a2, b2, a3, b3, len, len2, card, card2
<1> DEFINE x1 == row.totalVaultsCreated  x2 == rw.totalVaultsCreated
           y1 == row.totalVaultsFlipped  y2 == rw.totalVaultsFlipped
           z1 == world.nubans  z2 == w.nubans
           m1 == m["unrecorded"]  m2 == m["uncounted"]  m3 == m["flips"]
           n1 == n["unrecorded"]  n2 == n["uncounted"]  n3 == n["flips"]
<1> HIDE DEF x1, x2, y1, y2, z1, z2, m1, m2, m3, n1, n2, n3
<1>8. /\ z2 = len2 + m1 /\ len2 = x2 + m2 /\ y2 + m3 >= card2
  <2>1. /\ x1 \in Nat /\ x2 \in Nat /\ y1 \in Nat /\ y2 \in Nat
        /\ z1 \in Nat /\ z2 \in Nat /\ m1 \in Nat /\ m2 \in Nat /\ m3 \in Nat
        /\ n1 \in Nat /\ n2 \in Nat /\ n3 \in Nat
    BY <1>3, <1>5 DEF x1, x2, y1, y2, z1, z2, m1, m2, m3, n1, n2, n3
  <2>2. /\ m1 + a1 = n1 + b1 /\ z2 + len + a1 = z1 + len2 + b1 /\ z1 = len + n1
    BY <1>2, <1>6, <1>7 DEF z1, z2, m1, n1
  <2>3. /\ m2 + a2 = n2 + b2 /\ len2 + x1 + a2 = len + x2 + b2 /\ len = x1 + n2
    BY <1>2, <1>6, <1>7 DEF x1, x2, m2, n2
  <2>4. /\ m3 + a3 = n3 + b3 /\ y2 + b3 + card >= y1 + a3 + card2 /\ y1 + n3 >= card
    BY <1>2, <1>6, <1>7 DEF y1, y2, m3, n3
  <2>5. z2 = len2 + m1
    BY <1>1, <1>4, <2>1, <2>2
  <2>6. len2 = x2 + m2
    BY <1>1, <1>4, <2>1, <2>3
  <2>7. y2 + m3 >= card2
    BY <1>1, <1>4, <2>1, <2>4
  <2> QED
    BY <2>5, <2>6, <2>7
<1> QED
  BY <1>8 DEF len2, card2, x2, y2, z2, m1, m2, m3

LEMMA VaultStepInv ==
    ASSUME OperationsInv, service = "VAULT", NEW r \in Requests,
           NEW label \in {"idle"} \cup VaultLabels,
           NEW loaded \in VaultHeld \cup {NoValue},
           NEW rw \in VaultRows, NEW w \in VaultWorlds,
           pc[r] # "idle", Step(r, label, loaded, rw, w),
           VaultRowOK(rw, w), VaultRequestOK(label, loaded, rw, w),
           DOMAIN row.vaults \subseteq DOMAIN rw.vaults,
           world.flipped \subseteq w.flipped,
           VaultSoloOK(pc[r], held[r], row, faults) =>
               VaultSoloOK(label, loaded, rw, faults),
           VaultBooks(pc[r], row, world, label, rw, w)
    PROVE  OperationsInv'
<1>1. ShiftTyped(label, loaded, rw, w, faults, overlapped)
  BY VaultFacts DEF ShiftTyped, LabelsOf, OHeld, ORows, OWorld
<1>2. RowOK(rw, w, overlapped)
  BY DEF RowOK
<1>3. RequestOK(label, loaded, rw, w)
  BY DEF RequestOK
<1>4. OthersKept(r, rw, w)
  BY DEF OthersKept, RequestOK, VaultRequestOK
<1>5. SoloOK(pc[r], held[r], row, world, faults) => SoloOK(label, loaded, rw, w, faults)
  BY DEF SoloOK
<1>6. ~ Owed(rw, w, faults)
  BY DEF Owed
<1>7. BalanceKept(r, label, loaded, rw, w, faults)
  BY VaultFacts, VaultBalance
<1>8. ShiftOK(r, label, loaded, rw, w, faults, overlapped)
  BY <1>2, <1>3, <1>4, <1>5, <1>6, <1>7 DEF ShiftOK
<1> QED
  BY <1>1, <1>8, StepInv

\* Steps that count nothing and write no row.
LEMMA VaultPlainInv ==
    ASSUME OperationsInv, service = "VAULT", NEW r \in Requests,
           NEW label \in {"idle"} \cup VaultLabels,
           NEW loaded \in VaultHeld \cup {NoValue}, NEW w \in VaultWorlds,
           pc[r] \notin {"idle", "vault_row", "vault_count", "flip_count"},
           label \notin {"vault_row", "vault_count", "flip_count"},
           Step(r, label, loaded, row, w),
           VaultRequestOK(label, loaded, row, w),
           world.flipped \subseteq w.flipped, w.nubans = world.nubans,
           VaultSoloOK(pc[r], held[r], row, faults) =>
               VaultSoloOK(label, loaded, row, faults)
    PROVE  OperationsInv'
<1>1. row \in VaultRows /\ world \in VaultWorlds /\ VaultRowOK(row, world)
  BY VaultFacts
<1>2. VaultRowOK(row, w)
  BY <1>1 DEF VaultRowOK
<1>3. VaultBooks(pc[r], row, world, label, row, w)
  <2>1. /\ world.nubans \in Nat /\ Len(row.vaults) \in Nat
        /\ row.totalVaultsCreated \in Nat /\ row.totalVaultsFlipped \in Nat
        /\ Cardinality(ActiveOf(row)) \in Nat
    BY <1>1, ActiveFinite DEF VaultRows, VaultWorlds
  <2> QED
    BY <2>1 DEF VaultBooks, One
<1>4. pc[r] # "idle"
  OBVIOUS
<1> QED
  BY <1>1, <1>2, <1>3, <1>4, VaultStepInv

\* A call whose answer is lost.
LEMMA VaultFaultInv ==
    ASSUME OperationsInv, service = "VAULT", NEW r \in Requests,
           NEW label \in {"idle", "flip_failed"}, NEW w \in VaultWorlds,
           pc[r] # "idle", Fault(r, label, w),
           VaultRequestOK(label, held[r], row, w),
           world.flipped \subseteq w.flipped
    PROVE  OperationsInv'
<1>1. /\ row \in VaultRows /\ VaultRowOK(row, world) /\ overlapped \in BOOLEAN
      /\ held[r] \in VaultHeld \cup {NoValue}
      /\ faults \in Nat /\ faults + 1 \in Nat /\ faults + 1 # 0
  BY VaultFacts
<1>2. ShiftTyped(label, held[r], row, w, faults + 1, overlapped)
  BY <1>1 DEF ShiftTyped, LabelsOf, OHeld, ORows, OWorld, VaultLabels
<1>3. RowOK(row, w, overlapped)
  BY <1>1 DEF RowOK, VaultRowOK
<1>4. RequestOK(label, held[r], row, w)
  BY DEF RequestOK
<1>5. OthersKept(r, row, w)
  BY DEF OthersKept, RequestOK, VaultRequestOK
<1>6. SoloOK(label, held[r], row, w, faults + 1)
  BY <1>1 DEF SoloOK, VaultSoloOK
<1>7. ~ Owed(row, w, faults + 1)
  BY <1>1 DEF Owed
<1>8. BalanceKept(r, label, held[r], row, w, faults + 1)
  BY <1>1 DEF BalanceKept, Balanced
<1>9. ShiftOK(r, label, held[r], row, w, faults + 1, overlapped)
  BY <1>3, <1>4, <1>5, <1>6, <1>7, <1>8 DEF ShiftOK
<1> QED
  BY <1>2, <1>9, FaultInv

LEMMA PartnerSetInv ==
    ASSUME OperationsInv, service = "VAULT", NEW r \in Requests,
           NEW status \in PartnerStatuses, Once(r, PartnerSet(status), world)
    PROVE  OperationsInv'
<1> DEFINE rw == PartnerSet(status)
<1>1. /\ row \in VaultRows /\ world \in VaultWorlds /\ VaultRowOK(row, world)
  BY VaultFacts
<1>2. /\ rw \in VaultRows /\ rw.vaults = row.vaults
      /\ rw.totalVaultsCreated = row.totalVaultsCreated
      /\ rw.totalVaultsFlipped = row.totalVaultsFlipped
  BY <1>1 DEF VaultRows, PartnerSet
<1> HIDE DEF rw
<1>3. ActiveOf(rw) = ActiveOf(row)
  BY <1>2 DEF ActiveOf
<1>4. rw \in ORows(service) /\ OWorld(service, world)
  BY <1>1, <1>2 DEF ORows, OWorld
<1>5. RowOK(rw, world, overlapped \/ Busy)
  BY <1>1, <1>3 DEF RowOK, VaultRowOK
<1>6. OthersKept(r, rw, world)
  BY <1>2 DEF OthersKept, RequestOK, VaultRequestOK
<1>7. SoloOK("idle", NoValue, row, world, faults) =>
          SoloOK("idle", NoValue, rw, world, faults)
  BY <1>2, <1>3 DEF SoloOK, VaultSoloOK, FlipLabels
<1>8. ~ Owed(rw, world, faults)
  BY DEF Owed
<1>9. \A n : Balanced(row, world, faults, n) => Balanced(rw, world, faults, n)
  BY <1>2, <1>3 DEF Balanced
<1>10. Once(r, rw, world)
  BY DEF rw
<1> QED
  BY <1>4, <1>5, <1>6, <1>7, <1>8, <1>9, <1>10, OnceInv

LEMMA VaultBeginInv ==
    ASSUME OperationsInv, service = "VAULT", NEW r \in Requests,
           NEW label \in {"vault_open", "flip_partner"}, NEW loaded \in SUBSET Nat,
           Begin(r, label, loaded),
           label = "flip_partner" => loaded = DueVaults /\ loaded # {}
    PROVE  OperationsInv'
<1>1. label \in LabelsOf(service) /\ loaded \in OHeld(service) \cup {NoValue}
  BY DEF LabelsOf, VaultLabels, OHeld, VaultHeld
<1>2. RequestOK(label, loaded, row, world)
  BY DEF RequestOK, VaultRequestOK, FlipLabels, DueVaults
<1>3. SoloOK("idle", NoValue, row, world, faults) =>
          SoloOK(label, loaded, row, world, faults)
  BY DEF SoloOK, VaultSoloOK, FlipLabels, DueVaults
<1>4. \A k \in Kinds : Units(k, label, loaded) = 0
  BY DEF Units
<1> QED
  BY <1>1, <1>2, <1>3, <1>4, BeginInv

LEMMA VaultCallInv ==
    ASSUME OperationsInv, NEW r \in Requests, VaultCall(r)
    PROVE  OperationsInv'
<1>1. service = "VAULT"
  BY DEF VaultCall, ApplyAsPartner, ApprovePartner, SuspendPartner, CreateVault, RunFlip
<1>2. {"PENDING", "APPROVED", "SUSPENDED"} \subseteq PartnerStatuses
  BY DEF PartnerStatuses
<1>3. CASE CreateVault(r)
  BY <1>1, <1>3, VaultBeginInv DEF CreateVault
<1>4. CASE RunFlip(r)
  <2>1. row.vaults \in Seq(VaultRecords)
    BY <1>1, VaultFacts DEF VaultRows
  <2>2. DueVaults \in SUBSET Nat
    BY <2>1 DEF DueVaults
  <2> QED
    BY <1>1, <1>4, <2>2, VaultBeginInv DEF RunFlip
<1> QED
  BY <1>1, <1>2, <1>3, <1>4, PartnerSetInv
     DEF VaultCall, ApplyAsPartner, ApprovePartner, SuspendPartner

\* A run holds vaults of the table, and turns to one of them.
LEMMA FlippingFacts ==
    ASSUME OperationsInv, service = "VAULT", NEW r \in Requests,
           pc[r] \in FlipLabels
    PROVE  /\ held[r] \in VaultHeld /\ held[r] # {}
           /\ held[r] \subseteq DOMAIN row.vaults
           /\ Flipping(r) = FirstOf(held[r])
           /\ Flipping(r) \in held[r] /\ Flipping(r) \in Nat
<1>1. /\ held[r] # {} /\ held[r] \subseteq DOMAIN row.vaults
      /\ row.vaults \in Seq(VaultRecords)
  BY VaultFacts DEF VaultRequestOK, VaultRows
<1>2. held[r] \in SUBSET Nat
  BY <1>1
<1>3. Flipping(r) = FirstOf(held[r])
  BY DEF Flipping, FirstOf
<1>4. FirstOf(held[r]) \in held[r]
  BY <1>1, <1>2, FirstIsOne
<1> QED
  BY <1>1, <1>2, <1>3, <1>4 DEF VaultHeld

\* The run goes on with the vaults that are left.
LEMMA FlipNextFacts ==
    ASSUME OperationsInv, service = "VAULT", NEW r \in Requests,
           pc[r] \in FlipLabels, NEW rw, DOMAIN rw.vaults = DOMAIN row.vaults, NEW w
    PROVE  /\ FlipNext(r).label \in {"idle", "flip_partner"}
           /\ FlipNext(r).left \in VaultHeld
           /\ FlipNext(r).left = held[r] \ {FirstOf(held[r])}
           /\ VaultRequestOK(FlipNext(r).label, FlipNext(r).left, rw, w)
<1> DEFINE left == held[r] \ {Flipping(r)}
           label == IF left = {} THEN "idle" ELSE "flip_partner"
<1>1. FlipNext(r) = [label |-> label, left |-> left]
  BY DEF FlipNext
<1>2. FlipNext(r).label = label /\ FlipNext(r).left = left
  BY <1>1
<1>3. /\ left \in VaultHeld /\ left \subseteq DOMAIN row.vaults
      /\ left = held[r] \ {FirstOf(held[r])}
  BY FlippingFacts DEF VaultHeld
<1>4. VaultRequestOK(label, left, rw, w)
  BY <1>3 DEF VaultRequestOK, FlipLabels
<1>5. label \in {"idle", "flip_partner"}
  OBVIOUS
<1> HIDE DEF left, label
<1> QED
  BY <1>2, <1>3, <1>4, <1>5

LEMMA BankCreateVaultInv ==
    ASSUME OperationsInv, service = "VAULT", NEW r \in Requests,
           BankCreateVault(r)
    PROVE  OperationsInv'
<1> DEFINE w == [world EXCEPT !.nubans = @ + 1]
<1>1. /\ pc[r] = "vault_open"
      /\ \/ Step(r, "vault_row", held[r], row, w)
         \/ Step(r, "idle", held[r], row, world)
         \/ Fault(r, "idle", w)
  BY DEF BankCreateVault, Act, Pass, Save
<1>2. /\ row \in VaultRows /\ world \in VaultWorlds /\ VaultRowOK(row, world)
      /\ held[r] \in VaultHeld \cup {NoValue}
  BY VaultFacts
<1>3. world.nubans \in Nat
  BY <1>2 DEF VaultWorlds
<1>4. w \in VaultWorlds /\ w.nubans = world.nubans + 1 /\ w.flipped = world.flipped
  BY <1>2 DEF VaultWorlds
<1> HIDE DEF w
<1>5. "vault_row" \in VaultLabels
  BY DEF VaultLabels
<1>6. \A x : VaultRequestOK("vault_row", held[r], row, x)
              /\ VaultRequestOK("idle", held[r], row, x)
  BY DEF VaultRequestOK, FlipLabels
<1>7. /\ VaultSoloOK(pc[r], held[r], row, faults) => VaultSoloOK("vault_row", held[r], row, faults)
      /\ VaultSoloOK(pc[r], held[r], row, faults) => VaultSoloOK("idle", held[r], row, faults)
  BY <1>1 DEF VaultSoloOK, FlipLabels
<1>8. CASE Step(r, "vault_row", held[r], row, w)
  <2>1. VaultRowOK(row, w)
    BY <1>2, <1>4 DEF VaultRowOK
  <2>2. VaultBooks(pc[r], row, world, "vault_row", row, w)
    <3>1. /\ Len(row.vaults) \in Nat
          /\ row.totalVaultsCreated \in Nat /\ row.totalVaultsFlipped \in Nat
          /\ Cardinality(ActiveOf(row)) \in Nat
      BY <1>2, ActiveFinite DEF VaultRows
    <3> QED
      BY <1>1, <1>3, <1>4, <3>1 DEF VaultBooks, One
  <2>3. pc[r] # "idle"
    BY <1>1
  <2> QED
    BY <1>2, <1>4, <1>5, <1>6, <1>7, <1>8, <2>1, <2>2, <2>3, VaultStepInv
<1>9. CASE Step(r, "idle", held[r], row, world)
  <2>1. pc[r] \notin {"idle", "vault_row", "vault_count", "flip_count"}
    BY <1>1
  <2> QED
    BY <1>2, <1>6, <1>7, <1>9, <2>1, VaultPlainInv
<1>10. CASE Fault(r, "idle", w)
  <2>1. pc[r] # "idle" /\ world.flipped \subseteq w.flipped
    BY <1>1, <1>4
  <2> QED
    BY <1>4, <1>6, <1>10, <2>1, VaultFaultInv
<1> QED
  BY <1>1, <1>8, <1>9, <1>10

\* A new vault is restricted.
LEMMA AppendVault ==
    ASSUME NEW vaults \in Seq(VaultRecords), NEW v \in VaultRecords,
           v.status = "RESTRICTED"
    PROVE  LET more == Append(vaults, v) IN
           /\ more \in Seq(VaultRecords) /\ Len(more) = Len(vaults) + 1
           /\ DOMAIN vaults \subseteq DOMAIN more
           /\ \A i \in DOMAIN vaults : more[i] = vaults[i]
           /\ {i \in DOMAIN more : more[i].status = "ACTIVE"}
                  = {i \in DOMAIN vaults : vaults[i].status = "ACTIVE"}
<1> DEFINE more == Append(vaults, v)
<1>1. /\ more \in Seq(VaultRecords) /\ Len(more) = Len(vaults) + 1
      /\ DOMAIN more = 1 .. (Len(vaults) + 1) /\ DOMAIN vaults = 1 .. Len(vaults)
      /\ Len(vaults) \in Nat
  OBVIOUS
<1>2. \A i \in 1 .. Len(vaults) : more[i] = vaults[i]
  OBVIOUS
<1>3. more[Len(vaults) + 1] = v
  OBVIOUS
<1> HIDE DEF more
<1>4. DOMAIN vaults \subseteq DOMAIN more
  BY <1>1
<1>5. {i \in DOMAIN more : more[i].status = "ACTIVE"}
          = {i \in DOMAIN vaults : vaults[i].status = "ACTIVE"}
  <2>1. \A i \in DOMAIN more : i \in DOMAIN vaults \/ i = Len(vaults) + 1
    BY <1>1
  <2> QED
    BY <1>1, <1>2, <1>3, <1>4, <2>1
<1> QED
  BY <1>1, <1>2, <1>4, <1>5 DEF more

LEMMA VaultCreatedInv ==
    ASSUME OperationsInv, service = "VAULT", NEW r \in Requests, VaultCreated(r)
    PROVE  OperationsInv'
<1> DEFINE v == [status |-> "RESTRICTED", due |-> FALSE]
           more == Append(row.vaults, v)
           rw == [row EXCEPT !.vaults = more]
<1>1. pc[r] = "vault_row" /\ Step(r, "vault_count", held[r], rw, world)
  BY DEF VaultCreated, Save
<1>2. /\ row \in VaultRows /\ world \in VaultWorlds /\ VaultRowOK(row, world)
      /\ held[r] \in VaultHeld \cup {NoValue}
  BY VaultFacts
<1>3. v \in VaultRecords /\ v.status = "RESTRICTED" /\ row.vaults \in Seq(VaultRecords)
  BY <1>2 DEF VaultRecords, VaultRows
<1> HIDE DEF v
<1>4. /\ more \in Seq(VaultRecords) /\ Len(more) = Len(row.vaults) + 1
      /\ DOMAIN row.vaults \subseteq DOMAIN more
      /\ {i \in DOMAIN more : more[i].status = "ACTIVE"} = ActiveOf(row)
  BY <1>3, AppendVault DEF ActiveOf
<1> HIDE DEF more
<1>5. /\ rw \in VaultRows /\ rw.vaults = more
      /\ rw.totalVaultsCreated = row.totalVaultsCreated
      /\ rw.totalVaultsFlipped = row.totalVaultsFlipped
  BY <1>2, <1>4 DEF VaultRows
<1> HIDE DEF rw
<1>6. ActiveOf(rw) = ActiveOf(row)
  BY <1>4, <1>5 DEF ActiveOf
<1>7. VaultRowOK(rw, world)
  BY <1>2, <1>6 DEF VaultRowOK
<1>8. VaultRequestOK("vault_count", held[r], rw, world)
  BY DEF VaultRequestOK, FlipLabels
<1>9. VaultSoloOK(pc[r], held[r], row, faults) =>
          VaultSoloOK("vault_count", held[r], rw, faults)
  BY <1>1, <1>5, <1>6 DEF VaultSoloOK, FlipLabels
<1>10. VaultBooks(pc[r], row, world, "vault_count", rw, world)
  <2>1. /\ world.nubans \in Nat /\ Len(row.vaults) \in Nat
        /\ row.totalVaultsCreated \in Nat /\ row.totalVaultsFlipped \in Nat
        /\ Cardinality(ActiveOf(row)) \in Nat
    BY <1>2, ActiveFinite DEF VaultRows, VaultWorlds
  <2>2. Len(rw.vaults) = Len(row.vaults) + 1
    BY <1>4, <1>5
  <2>3. /\ One(pc[r] = "vault_row") = 1 /\ One("vault_count" = "vault_row") = 0
        /\ One(pc[r] = "vault_count") = 0 /\ One("vault_count" = "vault_count") = 1
        /\ One(pc[r] = "flip_count") = 0 /\ One("vault_count" = "flip_count") = 0
    BY <1>1 DEF One
  <2> DEFINE len == Len(row.vaults)  len2 == Len(rw.vaults)
             card == Cardinality(ActiveOf(row))
  <2>4. /\ len2 = len + 1 /\ len \in Nat /\ card \in Nat
        /\ Cardinality(ActiveOf(rw)) = card
    BY <1>6, <2>1, <2>2
  <2> HIDE DEF len, len2, card
  <2>5. /\ world.nubans + len + 1 = world.nubans + len2 + 0
        /\ len2 + row.totalVaultsCreated + 0 = len + rw.totalVaultsCreated + 1
        /\ rw.totalVaultsFlipped + 0 + card >= row.totalVaultsFlipped + 0 + card
    BY <1>5, <2>1, <2>4
  <2> QED
    BY <2>3, <2>4, <2>5 DEF VaultBooks, len, len2, card
<1>11. "vault_count" \in VaultLabels /\ pc[r] # "idle"
  BY <1>1 DEF VaultLabels
<1> QED
  BY <1>1, <1>2, <1>4, <1>5, <1>7, <1>8, <1>9, <1>10, <1>11, VaultStepInv

LEMMA VaultCountCreatedInv ==
    ASSUME OperationsInv, service = "VAULT", NEW r \in Requests,
           VaultCountCreated(r)
    PROVE  OperationsInv'
<1> DEFINE rw == [row EXCEPT !.totalVaultsCreated = @ + 1]
<1>1. pc[r] = "vault_count" /\ Step(r, "idle", held[r], rw, world)
  BY DEF VaultCountCreated, Save
<1>2. /\ row \in VaultRows /\ world \in VaultWorlds /\ VaultRowOK(row, world)
      /\ held[r] \in VaultHeld \cup {NoValue}
  BY VaultFacts
<1>3. /\ world.nubans \in Nat /\ Len(row.vaults) \in Nat
      /\ row.totalVaultsCreated \in Nat /\ row.totalVaultsFlipped \in Nat
      /\ Cardinality(ActiveOf(row)) \in Nat
  BY <1>2, ActiveFinite DEF VaultRows, VaultWorlds
<1>4. /\ rw \in VaultRows /\ rw.vaults = row.vaults
      /\ rw.totalVaultsCreated = row.totalVaultsCreated + 1
      /\ rw.totalVaultsFlipped = row.totalVaultsFlipped
  BY <1>2, <1>3 DEF VaultRows
<1> HIDE DEF rw
<1>5. ActiveOf(rw) = ActiveOf(row)
  BY <1>4 DEF ActiveOf
<1>6. VaultRowOK(rw, world)
  BY <1>2, <1>5 DEF VaultRowOK
<1>7. VaultRequestOK("idle", held[r], rw, world)
  BY DEF VaultRequestOK, FlipLabels
<1>8. VaultSoloOK(pc[r], held[r], row, faults) => VaultSoloOK("idle", held[r], rw, faults)
  BY <1>1, <1>4, <1>5 DEF VaultSoloOK, FlipLabels
<1>9. VaultBooks(pc[r], row, world, "idle", rw, world)
  BY <1>1, <1>3, <1>4, <1>5 DEF VaultBooks, One
<1>10. pc[r] # "idle" /\ DOMAIN row.vaults \subseteq DOMAIN rw.vaults
  BY <1>1, <1>4
<1> QED
  BY <1>1, <1>2, <1>4, <1>6, <1>7, <1>8, <1>9, <1>10, VaultStepInv

LEMMA FlipSkipInv ==
    ASSUME OperationsInv, service = "VAULT", NEW r \in Requests,
           pc[r] \in {"flip_partner", "flip_failed"},
           Step(r, FlipNext(r).label, FlipNext(r).left, row, world)
    PROVE  OperationsInv'
<1> DEFINE label == FlipNext(r).label
           left == FlipNext(r).left
<1>1. pc[r] \in FlipLabels
  BY DEF FlipLabels
<1>2. /\ label \in {"idle", "flip_partner"} /\ left \in VaultHeld
      /\ left = held[r] \ {FirstOf(held[r])}
      /\ VaultRequestOK(label, left, row, world)
  BY <1>1, FlipNextFacts
<1>3. world \in VaultWorlds
  BY VaultFacts
<1>4. Step(r, label, left, row, world)
  OBVIOUS
<1> HIDE DEF label, left
<1>5. VaultSoloOK(pc[r], held[r], row, faults) => VaultSoloOK(label, left, row, faults)
  BY <1>1, <1>2 DEF VaultSoloOK, FlipLabels
<1>6. /\ pc[r] \notin {"idle", "vault_row", "vault_count", "flip_count"}
      /\ label \notin {"vault_row", "vault_count", "flip_count"}
      /\ label \in {"idle"} \cup VaultLabels
  BY <1>2 DEF VaultLabels
<1> QED
  BY <1>2, <1>3, <1>4, <1>5, <1>6, VaultPlainInv

LEMMA FlipFindPartnerInv ==
    ASSUME OperationsInv, service = "VAULT", NEW r \in Requests,
           FlipFindPartner(r)
    PROVE  OperationsInv'
<1>1. /\ pc[r] = "flip_partner"
      /\ \/ Step(r, "flip_call", held[r], row, world)
         \/ Step(r, FlipNext(r).label, FlipNext(r).left, row, world)
  BY DEF FlipFindPartner, Pass, Save
<1>2. CASE Step(r, "flip_call", held[r], row, world)
  <2>1. /\ world \in VaultWorlds /\ held[r] \in VaultHeld \cup {NoValue}
        /\ VaultRequestOK(pc[r], held[r], row, world)
    BY VaultFacts
  <2>2. VaultRequestOK("flip_call", held[r], row, world)
    BY <1>1, <2>1 DEF VaultRequestOK, FlipLabels
  <2>3. VaultSoloOK(pc[r], held[r], row, faults) =>
            VaultSoloOK("flip_call", held[r], row, faults)
    BY <1>1 DEF VaultSoloOK, FlipLabels
  <2>4. /\ pc[r] \notin {"idle", "vault_row", "vault_count", "flip_count"}
        /\ "flip_call" \in VaultLabels
    BY <1>1 DEF VaultLabels
  <2> QED
    BY <1>2, <2>1, <2>2, <2>3, <2>4, VaultPlainInv
<1> QED
  BY <1>1, <1>2, FlipSkipInv

LEMMA FlipCountFailureInv ==
    ASSUME OperationsInv, service = "VAULT", NEW r \in Requests,
           FlipCountFailure(r)
    PROVE  OperationsInv'
BY FlipSkipInv DEF FlipCountFailure

LEMMA BankFlipsInv ==
    ASSUME OperationsInv, service = "VAULT", NEW r \in Requests,
           BankFlips(r) \/ BankFlipFails(r)
    PROVE  OperationsInv'
<1> DEFINE w == [world EXCEPT !.flipped = @ \cup {Flipping(r)}]
<1>1. /\ pc[r] = "flip_call"
      /\ \/ Step(r, "flip_row", held[r], row, w)
         \/ Step(r, "flip_failed", held[r], row, world)
         \/ Fault(r, "flip_failed", w)
  BY DEF BankFlips, BankFlipFails, Act, Pass, Save
<1>2. pc[r] \in FlipLabels /\ pc[r] \notin {"idle", "vault_row", "vault_count", "flip_count"}
  BY <1>1 DEF FlipLabels
<1>3. /\ world \in VaultWorlds /\ held[r] \in VaultHeld /\ held[r] # {}
      /\ held[r] \subseteq DOMAIN row.vaults
      /\ Flipping(r) = FirstOf(held[r]) /\ Flipping(r) \in Nat
  BY <1>2, VaultFacts, FlippingFacts
<1>4. /\ w \in VaultWorlds /\ w.nubans = world.nubans
      /\ w.flipped = world.flipped \cup {Flipping(r)}
  BY <1>3 DEF VaultWorlds
<1> HIDE DEF w
<1>5. "flip_row" \in VaultLabels /\ "flip_failed" \in VaultLabels
  BY DEF VaultLabels
<1>6. /\ VaultRequestOK("flip_row", held[r], row, w)
      /\ VaultRequestOK("flip_failed", held[r], row, w)
      /\ VaultRequestOK("flip_failed", held[r], row, world)
  BY <1>3, <1>4 DEF VaultRequestOK
<1>7. /\ VaultSoloOK(pc[r], held[r], row, faults) => VaultSoloOK("flip_row", held[r], row, faults)
      /\ VaultSoloOK(pc[r], held[r], row, faults) => VaultSoloOK("flip_failed", held[r], row, faults)
  BY <1>1 DEF VaultSoloOK, FlipLabels
<1>8. CASE Step(r, "flip_row", held[r], row, w)
  BY <1>2, <1>3, <1>4, <1>5, <1>6, <1>7, <1>8, VaultPlainInv
<1>9. CASE Step(r, "flip_failed", held[r], row, world)
  BY <1>2, <1>3, <1>5, <1>6, <1>7, <1>9, VaultPlainInv
<1>10. CASE Fault(r, "flip_failed", w)
  BY <1>2, <1>4, <1>6, <1>10, VaultFaultInv
<1> QED
  BY <1>1, <1>8, <1>9, <1>10

\* A vault's status is set.
LEMMA ActivateVault ==
    ASSUME NEW rw \in VaultRows, NEW i \in DOMAIN rw.vaults, NEW rx,
           rx = [rw EXCEPT !.vaults[i].status = "ACTIVE"]
    PROVE  /\ rx \in VaultRows /\ DOMAIN rx.vaults = DOMAIN rw.vaults
           /\ Len(rx.vaults) = Len(rw.vaults)
           /\ ActiveOf(rx) = ActiveOf(rw) \cup {i}
           /\ \A j \in DOMAIN rw.vaults : j # i => rx.vaults[j] = rw.vaults[j]
           /\ rx.totalVaultsCreated = rw.totalVaultsCreated
           /\ rx.totalVaultsFlipped = rw.totalVaultsFlipped
<1> DEFINE v == [rw.vaults[i] EXCEPT !.status = "ACTIVE"]
           vaults == [rw.vaults EXCEPT ![i] = v]
<1>1. /\ rw.vaults \in Seq(VaultRecords) /\ rw.vaults[i] \in VaultRecords
      /\ DOMAIN rw.vaults = 1 .. Len(rw.vaults)
  BY DEF VaultRows
<1>2. v \in VaultRecords /\ v.status = "ACTIVE"
  BY <1>1 DEF VaultRecords
<1>3. rx = [rw EXCEPT !.vaults = vaults]
  BY DEF VaultRows
<1> HIDE DEF v
<1>4. /\ vaults \in Seq(VaultRecords) /\ DOMAIN vaults = DOMAIN rw.vaults
      /\ Len(vaults) = Len(rw.vaults) /\ vaults[i] = v
      /\ \A j \in DOMAIN rw.vaults : j # i => vaults[j] = rw.vaults[j]
  BY <1>1, <1>2
<1> HIDE DEF vaults
<1>5. /\ rx \in VaultRows /\ rx.vaults = vaults
      /\ rx.totalVaultsCreated = rw.totalVaultsCreated
      /\ rx.totalVaultsFlipped = rw.totalVaultsFlipped
  BY <1>3, <1>4 DEF VaultRows
<1>6. ActiveOf(rx) = ActiveOf(rw) \cup {i}
  BY <1>2, <1>4, <1>5 DEF ActiveOf
<1> QED
  BY <1>4, <1>5, <1>6

LEMMA VaultFlippedInv ==
    ASSUME OperationsInv, service = "VAULT", NEW r \in Requests, VaultFlipped(r)
    PROVE  OperationsInv'
<1> DEFINE i == Flipping(r)
           rw == [row EXCEPT !.vaults[i].status = "ACTIVE"]
<1>1. pc[r] = "flip_row" /\ Step(r, "flip_count", held[r], rw, world)
  BY DEF VaultFlipped, Save
<1>2. pc[r] \in FlipLabels
  BY <1>1 DEF FlipLabels
<1>3. /\ row \in VaultRows /\ world \in VaultWorlds /\ VaultRowOK(row, world)
      /\ VaultRequestOK(pc[r], held[r], row, world)
  BY VaultFacts
<1>4. /\ held[r] \in VaultHeld /\ held[r] # {} /\ held[r] \subseteq DOMAIN row.vaults
      /\ i = FirstOf(held[r]) /\ i \in held[r] /\ i \in DOMAIN row.vaults
  BY <1>2, FlippingFacts
<1> HIDE DEF i
<1>5. /\ rw \in VaultRows /\ DOMAIN rw.vaults = DOMAIN row.vaults
      /\ Len(rw.vaults) = Len(row.vaults)
      /\ ActiveOf(rw) = ActiveOf(row) \cup {i}
      /\ \A j \in DOMAIN row.vaults : j # i => rw.vaults[j] = row.vaults[j]
      /\ rw.totalVaultsCreated = row.totalVaultsCreated
      /\ rw.totalVaultsFlipped = row.totalVaultsFlipped
  BY <1>3, <1>4, ActivateVault
<1> HIDE DEF rw
<1>6. i \in world.flipped
  BY <1>1, <1>3, <1>4 DEF VaultRequestOK
<1>7. VaultRowOK(rw, world)
  BY <1>3, <1>5, <1>6 DEF VaultRowOK
<1>8. VaultRequestOK("flip_count", held[r], rw, world)
  BY <1>4, <1>5 DEF VaultRequestOK
<1>9. /\ IsFiniteSet(ActiveOf(row)) /\ Cardinality(ActiveOf(row)) \in Nat
      /\ Cardinality(ActiveOf(row) \cup {i}) =
             IF i \in ActiveOf(row) THEN Cardinality(ActiveOf(row))
             ELSE Cardinality(ActiveOf(row)) + 1
  BY <1>3, ActiveFinite, FS_AddElement
<1>10. VaultSoloOK(pc[r], held[r], row, faults) =>
           VaultSoloOK("flip_count", held[r], rw, faults)
  <2> SUFFICES ASSUME VaultSoloOK(pc[r], held[r], row, faults), faults = 0
               PROVE  /\ rw.totalVaultsFlipped + 1 = Cardinality(ActiveOf(rw))
                      /\ \A v \in held[r] : \/ rw.vaults[v].status = "RESTRICTED"
                                            \/ v = FirstOf(held[r])
    BY DEF VaultSoloOK
  <2>1. /\ row.totalVaultsFlipped + 0 = Cardinality(ActiveOf(row))
        /\ \A v \in held[r] : row.vaults[v].status = "RESTRICTED"
    BY <1>1, <1>2 DEF VaultSoloOK
  <2>2. i \notin ActiveOf(row)
    BY <1>4, <2>1 DEF ActiveOf
  <2>3. row.totalVaultsFlipped \in Nat
    BY <1>3 DEF VaultRows
  <2>4. rw.totalVaultsFlipped + 1 = Cardinality(ActiveOf(rw))
    BY <1>5, <1>9, <2>1, <2>2, <2>3
  <2>5. \A v \in held[r] : rw.vaults[v].status = "RESTRICTED" \/ v = FirstOf(held[r])
    BY <1>4, <1>5, <2>1
  <2> QED
    BY <2>4, <2>5
<1>11. VaultBooks(pc[r], row, world, "flip_count", rw, world)
  <2>1. /\ world.nubans \in Nat /\ Len(row.vaults) \in Nat
        /\ row.totalVaultsCreated \in Nat /\ row.totalVaultsFlipped \in Nat
    BY <1>3 DEF VaultRows, VaultWorlds
  <2>2. /\ Cardinality(ActiveOf(rw)) \in Nat
        /\ Cardinality(ActiveOf(rw)) <= Cardinality(ActiveOf(row)) + 1
    BY <1>5, <1>9
  <2> QED
    BY <1>1, <1>5, <1>9, <2>1, <2>2 DEF VaultBooks, One
<1>12. "flip_count" \in VaultLabels /\ pc[r] # "idle"
  BY <1>1 DEF VaultLabels
<1> QED
  BY <1>1, <1>3, <1>4, <1>5, <1>7, <1>8, <1>10, <1>11, <1>12, VaultStepInv

LEMMA VaultCountFlippedInv ==
    ASSUME OperationsInv, service = "VAULT", NEW r \in Requests,
           VaultCountFlipped(r)
    PROVE  OperationsInv'
<1> DEFINE label == FlipNext(r).label
           left == FlipNext(r).left
           rw == [row EXCEPT !.totalVaultsFlipped = @ + 1]
<1>1. pc[r] = "flip_count" /\ Step(r, label, left, rw, world)
  BY DEF VaultCountFlipped
<1>2. pc[r] \in FlipLabels
  BY <1>1 DEF FlipLabels
<1>3. /\ row \in VaultRows /\ world \in VaultWorlds /\ VaultRowOK(row, world)
  BY VaultFacts
<1>4. /\ world.nubans \in Nat /\ Len(row.vaults) \in Nat
      /\ row.totalVaultsCreated \in Nat /\ row.totalVaultsFlipped \in Nat
      /\ Cardinality(ActiveOf(row)) \in Nat
  BY <1>3, ActiveFinite DEF VaultRows, VaultWorlds
<1>5. /\ rw \in VaultRows /\ rw.vaults = row.vaults
      /\ rw.totalVaultsCreated = row.totalVaultsCreated
      /\ rw.totalVaultsFlipped = row.totalVaultsFlipped + 1
  BY <1>3, <1>4 DEF VaultRows
<1> HIDE DEF rw
<1>6. /\ label \in {"idle", "flip_partner"} /\ left \in VaultHeld
      /\ left = held[r] \ {FirstOf(held[r])}
      /\ VaultRequestOK(label, left, rw, world)
  BY <1>2, <1>5, FlipNextFacts
<1> HIDE DEF label, left
<1>7. ActiveOf(rw) = ActiveOf(row)
  BY <1>5 DEF ActiveOf
<1>8. VaultRowOK(rw, world)
  BY <1>3, <1>7 DEF VaultRowOK
<1>9. VaultSoloOK(pc[r], held[r], row, faults) => VaultSoloOK(label, left, rw, faults)
  BY <1>1, <1>2, <1>4, <1>5, <1>6, <1>7 DEF VaultSoloOK
<1>10. VaultBooks(pc[r], row, world, label, rw, world)
  BY <1>1, <1>4, <1>5, <1>6, <1>7 DEF VaultBooks, One
<1>11. /\ pc[r] # "idle" /\ DOMAIN row.vaults \subseteq DOMAIN rw.vaults
       /\ label \in {"idle"} \cup VaultLabels
  BY <1>1, <1>5, <1>6 DEF VaultLabels
<1> QED
  BY <1>1, <1>3, <1>5, <1>6, <1>8, <1>9, <1>10, <1>11, VaultStepInv

LEMMA VaultTimePassesInv ==
    ASSUME OperationsInv, VaultTimePasses
    PROVE  OperationsInv'
<1>1. service = "VAULT"
  BY DEF VaultTimePasses
<1>2. PICK i \in DOMAIN row.vaults : Outside([row EXCEPT !.vaults[i].due = TRUE], world)
  BY DEF VaultTimePasses
<1> DEFINE v == [row.vaults[i] EXCEPT !.due = TRUE]
           vaults == [row.vaults EXCEPT ![i] = v]
           rw == [row EXCEPT !.vaults = vaults]
<1>3. /\ row \in VaultRows /\ world \in VaultWorlds /\ RowOK(row, world, overlapped)
  BY <1>1 DEF OperationsInv, Typed, ORows, OWorld
<1>4. /\ row.vaults \in Seq(VaultRecords) /\ row.vaults[i] \in VaultRecords
      /\ DOMAIN row.vaults = 1 .. Len(row.vaults)
  BY <1>3 DEF VaultRows
<1>5. v \in VaultRecords /\ v.status = row.vaults[i].status
  BY <1>4 DEF VaultRecords
<1>6. Outside(rw, world)
  BY <1>2, <1>3 DEF VaultRows
<1> HIDE DEF v
<1>7. /\ vaults \in Seq(VaultRecords) /\ DOMAIN vaults = DOMAIN row.vaults
      /\ Len(vaults) = Len(row.vaults)
      /\ \A j \in DOMAIN row.vaults : vaults[j].status = row.vaults[j].status
  BY <1>4, <1>5
<1> HIDE DEF vaults
<1>8. /\ rw \in VaultRows /\ rw.vaults = vaults
      /\ rw.totalVaultsCreated = row.totalVaultsCreated
      /\ rw.totalVaultsFlipped = row.totalVaultsFlipped
  BY <1>3, <1>7 DEF VaultRows
<1> HIDE DEF rw
<1>9. ActiveOf(rw) = ActiveOf(row)
  BY <1>7, <1>8 DEF ActiveOf
<1>10. rw \in ORows(service) /\ OWorld(service, world)
  BY <1>1, <1>3, <1>8 DEF ORows, OWorld
<1>11. RowOK(rw, world, overlapped)
  BY <1>1, <1>3, <1>9 DEF RowOK, VaultRowOK
<1>12. \A q \in Requests : RequestOK(pc[q], held[q], row, world) =>
                               RequestOK(pc[q], held[q], rw, world)
  BY <1>1, <1>7, <1>8 DEF RequestOK, VaultRequestOK
<1>13. /\ \A q \in Requests : RequestOK(pc[q], held[q], row, world) =>
              (SoloOK(pc[q], held[q], row, world, faults) =>
                  SoloOK(pc[q], held[q], rw, world, faults))
       /\ SoloOK("idle", NoValue, row, world, faults) =>
              SoloOK("idle", NoValue, rw, world, faults)
  BY <1>1, <1>7, <1>8, <1>9
     DEF SoloOK, VaultSoloOK, RequestOK, VaultRequestOK, FlipLabels
<1>14. ~ Owed(rw, world, faults)
  BY <1>1 DEF Owed
<1>15. \A n : Balanced(row, world, faults, n) => Balanced(rw, world, faults, n)
  BY <1>1, <1>7, <1>8, <1>9 DEF Balanced
<1> QED
  BY <1>6, <1>10, <1>11, <1>12, <1>13, <1>14, <1>15, OutsideInv

LEMMA VaultNextInv ==
    ASSUME OperationsInv, NEW r \in Requests,
           \/ VaultCall(r)
           \/ service = "VAULT" /\ VaultGoOn(r)
           \/ VaultTimePasses
    PROVE  OperationsInv'
<1>1. CASE service = "VAULT" /\ VaultGoOn(r)
  BY <1>1, BankCreateVaultInv, VaultCreatedInv, VaultCountCreatedInv,
     FlipFindPartnerInv, BankFlipsInv, FlipCountFailureInv, VaultFlippedInv,
     VaultCountFlippedInv DEF VaultGoOn
<1> QED
  BY <1>1, VaultCallInv, VaultTimePassesInv

-----------------------------------------------------------------------------
(* The gate and the proofs of executions.                                  *)

LEMMA ProofFacts ==
    ASSUME OperationsInv, service = "PROOF"
    PROVE  /\ row \in ProofRows /\ world \in ProofWorlds /\ world.now \in Nat
           /\ overlapped \in BOOLEAN /\ faults \in Nat
           /\ ProofRowOK(row, world)
           /\ \A r \in Requests :
                 /\ pc[r] \in {"idle"} \cup ProofLabels
                 /\ held[r] \in ProofHeld \cup {NoValue}
                 /\ ProofRequestOK(pc[r], held[r], row)
<1>1. /\ row \in ProofRows /\ world \in ProofWorlds
      /\ overlapped \in BOOLEAN /\ faults \in Nat
      /\ \A r \in Requests :
             /\ pc[r] \in {"idle"} \cup ProofLabels
             /\ held[r] \in ProofHeld \cup {NoValue}
  BY DEF OperationsInv, Typed, ORows, OWorld, OHeld, LabelsOf
<1>2. ProofRowOK(row, world)
  BY DEF OperationsInv, RowOK
<1>3. \A r \in Requests : ProofRequestOK(pc[r], held[r], row)
  BY DEF OperationsInv, RequestOK
<1> QED
  BY <1>1, <1>2, <1>3 DEF ProofWorlds

LEMMA ProofStepInv ==
    ASSUME OperationsInv, service = "PROOF", NEW r \in Requests,
           NEW label \in {"idle", "proof_match"}, NEW w \in ProofWorlds,
           pc[r] \in ProofLabels, Step(r, label, held[r], row, w),
           ProofRowOK(row, w)
    PROVE  OperationsInv'
<1>1. ShiftTyped(label, held[r], row, w, faults, overlapped)
  BY ProofFacts DEF ShiftTyped, LabelsOf, OHeld, ORows, OWorld, ProofLabels
<1>2. RowOK(row, w, overlapped)
  BY DEF RowOK
<1>3. RequestOK(label, held[r], row, w)
  BY ProofFacts DEF RequestOK, ProofRequestOK
<1>4. OthersKept(r, row, w)
  BY DEF OthersKept, RequestOK
<1>5. SoloOK(label, held[r], row, w, faults)
  BY DEF SoloOK
<1>6. ~ Owed(row, w, faults)
  BY DEF Owed
<1>7. BalanceKept(r, label, held[r], row, w, faults)
  BY NoBooks
<1>8. ShiftOK(r, label, held[r], row, w, faults, overlapped)
  BY <1>2, <1>3, <1>4, <1>5, <1>6, <1>7 DEF ShiftOK
<1>9. pc[r] # "idle"
  BY DEF ProofLabels
<1> QED
  BY <1>1, <1>8, <1>9, StepInv

LEMMA PerformLiveYesGateInv ==
    ASSUME OperationsInv, NEW r \in Requests, PerformLiveYesGate(r)
    PROVE  OperationsInv'
<1>1. service = "PROOF"
  BY DEF PerformLiveYesGate
<1>2. PICK a \in Accounts, p \in Purposes, label \in {"proof_face", "proof_match"} :
          /\ p = "operate" => ~ row.hashOnly
          /\ Begin(r, label, [account |-> a, purpose |-> p])
  BY DEF PerformLiveYesGate
<1> DEFINE h == [account |-> a, purpose |-> p]
<1>3. h \in ProofHeld /\ h.purpose = p /\ Begin(r, label, h)
  BY <1>2 DEF ProofHeld
<1> HIDE DEF h
<1>4. label \in LabelsOf(service) /\ h \in OHeld(service) \cup {NoValue}
  BY <1>1, <1>3 DEF LabelsOf, OHeld, ProofLabels
<1>5. RequestOK(label, h, row, world)
  BY <1>1, <1>2, <1>3 DEF RequestOK, ProofRequestOK
<1>6. SoloOK(label, h, row, world, faults)
  BY <1>1 DEF SoloOK
<1>7. \A k \in Kinds : Units(k, label, h) = 0
  BY DEF Units
<1> QED
  BY <1>3, <1>4, <1>5, <1>6, <1>7, BeginInv

\* A YES renews the owner's evidence: what rested on older evidence still does.
LEMMA ShownFacts ==
    ASSUME world \in ProofWorlds, ProofRowOK(row, world), NEW a \in Accounts
    PROVE  /\ Shown(a) \in ProofWorlds /\ ProofRowOK(row, Shown(a))
           /\ <<a, world.now>> \in Shown(a).shown /\ Shown(a).now = world.now
<1> DEFINE shown == {s \in world.shown : s[1] # a} \cup {<<a, world.now>>}
           w == [world EXCEPT !.shown = shown]
<1>1. Shown(a) = w
  BY DEF Shown, ProofWorlds
<1>2. world.now \in Nat /\ world.shown \subseteq Accounts \X Nat
  BY DEF ProofWorlds
<1>3. shown \subseteq Accounts \X Nat /\ <<a, world.now>> \in shown
  BY <1>2
<1>4. \A s \in world.shown : \E t \in shown : t[1] = s[1] /\ t[2] >= s[2]
  <2> SUFFICES ASSUME NEW s \in world.shown
               PROVE  \E t \in shown : t[1] = s[1] /\ t[2] >= s[2]
    OBVIOUS
  <2>1. s[1] \in Accounts /\ s[2] \in Nat /\ s[2] <= world.now
    BY <1>2 DEF ProofRowOK
  <2>2. CASE s[1] = a
    <3> WITNESS <<a, world.now>> \in shown
    <3> QED
      BY <1>2, <2>1, <2>2
  <2>3. CASE s[1] # a
    BY <2>1, <2>3
  <2> QED
    BY <2>2, <2>3
<1>5. \A s \in shown : s[2] <= world.now
  BY <1>2 DEF ProofRowOK
<1> HIDE DEF shown
<1>6. /\ w \in ProofWorlds /\ w.shown = shown /\ w.now = world.now
      /\ w.proofs = world.proofs /\ w.accepted = world.accepted
  BY <1>3 DEF ProofWorlds
<1> HIDE DEF w
<1>7. HashTtl \in Nat
  BY ProofAssumption DEF ProofAssumption
<1>8. \A p \in w.proofs : \E s \in w.shown : s[1] = p.ap /\ s[2] + HashTtl >= p.exp
  <2> SUFFICES ASSUME NEW p \in world.proofs
               PROVE  \E s \in shown : s[1] = p.ap /\ s[2] + HashTtl >= p.exp
    BY <1>6
  <2>1. PICK s \in world.shown : s[1] = p.ap /\ s[2] + HashTtl >= p.exp
    BY DEF ProofRowOK
  <2>2. PICK t \in shown : t[1] = s[1] /\ t[2] >= s[2]
    BY <1>4
  <2>3. p.exp \in Nat /\ s[2] \in Nat /\ t[2] \in Nat
    BY <1>2, <1>3 DEF ProofWorlds
  <2>4. t[1] = p.ap /\ t[2] + HashTtl >= p.exp
    BY <1>7, <2>1, <2>2, <2>3
  <2> QED
    BY <2>4
<1>9. w.accepted # NoValue =>
          /\ \E s \in w.shown :
                /\ s[1] = w.accepted.account
                /\ s[2] + (IF w.accepted.way = "proof" THEN HashTtl ELSE 0) >= w.now
          /\ row.hashOnly => w.accepted.way = "proof"
  <2> SUFFICES ASSUME world.accepted # NoValue
               PROVE  /\ \E s \in shown :
                            /\ s[1] = world.accepted.account
                            /\ s[2] + (IF world.accepted.way = "proof" THEN HashTtl ELSE 0)
                                   >= world.now
                      /\ row.hashOnly => world.accepted.way = "proof"
    BY <1>6
  <2> DEFINE ttl == IF world.accepted.way = "proof" THEN HashTtl ELSE 0
  <2>1. PICK s \in world.shown : /\ s[1] = world.accepted.account
                                 /\ s[2] + ttl >= world.now
    BY DEF ProofRowOK
  <2>2. PICK t \in shown : t[1] = s[1] /\ t[2] >= s[2]
    BY <1>4
  <2>3. s[2] \in Nat /\ t[2] \in Nat /\ ttl \in Nat
    BY <1>2, <1>3, <1>7
  <2> HIDE DEF ttl
  <2>4. t[1] = world.accepted.account /\ t[2] + ttl >= world.now
    BY <1>2, <2>1, <2>2, <2>3
  <2>5. row.hashOnly => world.accepted.way = "proof"
    BY DEF ProofRowOK
  <2> QED
    BY <2>4, <2>5 DEF ttl
<1>10. \A s \in w.shown : s[2] <= w.now
  BY <1>5, <1>6
<1>11. ProofRowOK(row, w)
  BY <1>8, <1>9, <1>10 DEF ProofRowOK
<1> QED
  BY <1>1, <1>3, <1>6, <1>11

\* An acceptance needs evidence that is recent enough.
LEMMA AcceptFacts ==
    ASSUME NEW w \in ProofWorlds, ProofRowOK(row, w), NEW a \in Accounts,
           NEW way \in {"proof", "gate"}, row.hashOnly => way = "proof",
           \E s \in w.shown :
               s[1] = a /\ s[2] + (IF way = "proof" THEN HashTtl ELSE 0) >= w.now
    PROVE  Accept(w, a, way) \in ProofWorlds /\ ProofRowOK(row, Accept(w, a, way))
<1> DEFINE acc == [account |-> a, way |-> way]
           v == [w EXCEPT !.accepted = acc]
<1>1. Accept(w, a, way) = v
  BY DEF Accept
<1>2. acc \in [account : Accounts, way : {"proof", "gate"}] /\ acc.account = a /\ acc.way = way
  OBVIOUS
<1> HIDE DEF acc
<1>3. /\ v \in ProofWorlds /\ v.accepted = acc /\ v.now = w.now /\ v.shown = w.shown
      /\ v.proofs = w.proofs
  BY <1>2 DEF ProofWorlds
<1> HIDE DEF v
<1>4. ProofRowOK(row, v)
  BY <1>2, <1>3 DEF ProofRowOK
<1> QED
  BY <1>1, <1>3, <1>4

\* A proof is minted after a YES.
LEMMA MintFacts ==
    ASSUME NEW w \in ProofWorlds, ProofRowOK(row, w), NEW a \in Accounts,
           <<a, w.now>> \in w.shown
    PROVE  Mint(w, a) \in ProofWorlds /\ ProofRowOK(row, Mint(w, a))
<1> DEFINE p == [ap |-> a, exp |-> w.now + HashTtl]
           proofs == w.proofs \cup {p}
           v == [w EXCEPT !.proofs = proofs]
<1>1. Mint(w, a) = v
  BY DEF Mint, ProofWorlds
<1>2. w.now \in Nat /\ w.now + HashTtl \in Nat
  BY ProofAssumption DEF ProofWorlds, ProofAssumption
<1>3. p \in [ap : Accounts, exp : Nat] /\ p.ap = a /\ p.exp = w.now + HashTtl
  BY <1>2
<1>4. \E s \in w.shown : s[1] = p.ap /\ s[2] + HashTtl >= p.exp
  <2> WITNESS <<a, w.now>> \in w.shown
  <2> QED
    BY <1>2, <1>3
<1> HIDE DEF p
<1>5. /\ v \in ProofWorlds /\ v.proofs = w.proofs \cup {p} /\ v.now = w.now
      /\ v.shown = w.shown /\ v.accepted = w.accepted
  BY <1>3 DEF ProofWorlds
<1> HIDE DEF v, proofs
<1>6. ProofRowOK(row, v)
  BY <1>4, <1>5 DEF ProofRowOK
<1> QED
  BY <1>1, <1>5, <1>6 DEF v, proofs

LEMMA ProofGoOnInv ==
    ASSUME OperationsInv, service = "PROOF", NEW r \in Requests, ProofGoOn(r)
    PROVE  OperationsInv'
<1>1. /\ world \in ProofWorlds /\ ProofRowOK(row, world) /\ world.now \in Nat
      /\ held[r] \in ProofHeld \cup {NoValue}
      /\ ProofRequestOK(pc[r], held[r], row)
  BY ProofFacts
<1>2. CASE VerifyPassive(r)
  <2>1. /\ pc[r] \in ProofLabels
        /\ \/ Step(r, "proof_match", held[r], row, world)
           \/ Step(r, "idle", held[r], row, world)
    BY <1>2 DEF VerifyPassive, Pass, Save, ProofLabels
  <2> QED
    BY <1>1, <2>1, ProofStepInv
<1>3. CASE GateAnswers(r)
  <2> DEFINE a == held[r].account
  <2>1. pc[r] = "proof_match" /\ pc[r] \in ProofLabels
    BY <1>3 DEF GateAnswers, ProofLabels
  <2>2. held[r] \in ProofHeld /\ (held[r].purpose = "operate" => ~ row.hashOnly)
    BY <1>1, <2>1 DEF ProofRequestOK
  <2>3. a \in Accounts
    BY <2>2 DEF ProofHeld
  <2>4. /\ Shown(a) \in ProofWorlds /\ ProofRowOK(row, Shown(a))
        /\ <<a, world.now>> \in Shown(a).shown /\ Shown(a).now = world.now
    BY <1>1, <2>3, ShownFacts
  <2>5. \/ Step(r, "idle", held[r], row, world)
        \/ Step(r, "idle", held[r], row, Mint(Shown(a), a))
        \/ /\ held[r].purpose = "operate"
           /\ Step(r, "idle", held[r], row, Accept(Shown(a), a, "gate"))
    BY <1>3 DEF GateAnswers, Pass, Save, Act
  <2> HIDE DEF a
  <2>6. CASE Step(r, "idle", held[r], row, world)
    BY <1>1, <2>1, <2>6, ProofStepInv
  <2>7. CASE Step(r, "idle", held[r], row, Mint(Shown(a), a))
    <3>1. Mint(Shown(a), a) \in ProofWorlds /\ ProofRowOK(row, Mint(Shown(a), a))
      BY <2>3, <2>4, MintFacts
    <3> QED
      BY <2>1, <2>7, <3>1, ProofStepInv
  <2>8. CASE /\ held[r].purpose = "operate"
             /\ Step(r, "idle", held[r], row, Accept(Shown(a), a, "gate"))
    <3> DEFINE w == Shown(a)
    <3>1. \E s \in w.shown :
              s[1] = a /\ s[2] + (IF "gate" = "proof" THEN HashTtl ELSE 0) >= w.now
      <4>1. /\ <<a, world.now>> \in w.shown /\ w.now = world.now /\ world.now \in Nat
            /\ (IF "gate" = "proof" THEN HashTtl ELSE 0) = 0
        BY <1>1, <2>4
      <4>2. world.now + 0 >= world.now
        BY <4>1
      <4> HIDE DEF w
      <4> QED
        BY <4>1, <4>2
    <3>2. w \in ProofWorlds /\ ProofRowOK(row, w)
      BY <2>4
    <3> HIDE DEF w
    <3>3. Accept(w, a, "gate") \in ProofWorlds /\ ProofRowOK(row, Accept(w, a, "gate"))
      BY <2>2, <2>3, <2>8, <3>1, <3>2, AcceptFacts
    <3>4. Step(r, "idle", held[r], row, Accept(w, a, "gate"))
      BY <2>8 DEF w
    <3> QED
      BY <2>1, <3>3, <3>4, ProofStepInv
  <2> QED
    BY <2>5, <2>6, <2>7, <2>8
<1> QED
  BY <1>2, <1>3 DEF ProofGoOn

LEMMA AuthorizeExecutionOperationInv ==
    ASSUME OperationsInv, NEW r \in Requests, AuthorizeExecutionOperation(r)
    PROVE  OperationsInv'
<1>1. service = "PROOF"
  BY DEF AuthorizeExecutionOperation
<1>2. PICK proof \in world.proofs, a \in Accounts :
          Verify(proof, a) /\ Once(r, row, Accept(world, a, "proof"))
  BY DEF AuthorizeExecutionOperation
<1>3. /\ world \in ProofWorlds /\ ProofRowOK(row, world) /\ world.now \in Nat
      /\ row \in ProofRows
  BY <1>1, ProofFacts
<1>4. world.now <= proof.exp /\ proof.ap = a /\ proof.exp \in Nat /\ HashTtl \in Nat
  BY <1>2, <1>3, ProofAssumption DEF Verify, ProofWorlds, ProofAssumption
<1>5. PICK s \in world.shown : s[1] = proof.ap /\ s[2] + HashTtl >= proof.exp
  BY <1>3 DEF ProofRowOK
<1>6. s[2] \in Nat
  BY <1>3 DEF ProofWorlds
<1>7. s[1] = a /\ s[2] + HashTtl >= world.now
  BY <1>3, <1>4, <1>5, <1>6
<1>8. \E t \in world.shown :
          t[1] = a /\ t[2] + (IF "proof" = "proof" THEN HashTtl ELSE 0) >= world.now
  BY <1>7
<1> DEFINE w == Accept(world, a, "proof")
<1>9. w \in ProofWorlds /\ ProofRowOK(row, w)
  BY <1>3, <1>8, AcceptFacts
<1>10. Once(r, row, w)
  BY <1>2
<1> HIDE DEF w
<1>11. row \in ORows(service) /\ OWorld(service, w)
  BY <1>1, <1>3, <1>9 DEF ORows, OWorld
<1>12. RowOK(row, w, overlapped \/ Busy)
  BY <1>1, <1>9 DEF RowOK
<1>13. OthersKept(r, row, w)
  BY <1>1 DEF OthersKept, RequestOK
<1>14. SoloOK("idle", NoValue, row, w, faults) /\ ~ Owed(row, w, faults)
  BY <1>1 DEF SoloOK, Owed
<1>15. \A n : Balanced(row, world, faults, n) => Balanced(row, w, faults, n)
  BY <1>1 DEF Balanced
<1> QED
  BY <1>10, <1>11, <1>12, <1>13, <1>14, <1>15, OnceInv

LEMMA ProofTimePassesInv ==
    ASSUME OperationsInv, ProofTimePasses
    PROVE  OperationsInv'
<1> DEFINE w == [world EXCEPT !.now = world.now + 1, !.accepted = NoValue]
<1>1. service = "PROOF"
  BY DEF ProofTimePasses
<1>2. /\ world \in ProofWorlds /\ ProofRowOK(row, world) /\ world.now \in Nat
      /\ row \in ProofRows
  BY <1>1, ProofFacts
<1>3. Outside(row, w)
  BY <1>2 DEF ProofTimePasses, ProofWorlds
<1>4. world.now + 1 \in Nat
  BY <1>2
<1>5. w \in ProofWorlds
  BY <1>2, <1>4, Zenon DEF ProofWorlds
<1>6. /\ w.now = world.now + 1 /\ w.accepted = NoValue
      /\ w.shown = world.shown /\ w.proofs = world.proofs
  BY <1>2 DEF ProofWorlds
<1> HIDE DEF w
<1>7. \A s \in w.shown : s[2] <= w.now
  <2> SUFFICES ASSUME NEW s \in world.shown PROVE s[2] <= world.now + 1
    BY <1>6
  <2>1. s[2] \in Nat /\ s[2] <= world.now
    BY <1>2 DEF ProofWorlds, ProofRowOK
  <2> QED
    BY <1>2, <2>1
<1>8. ProofRowOK(row, w)
  BY <1>2, <1>6, <1>7 DEF ProofRowOK
<1>9. row \in ORows(service) /\ OWorld(service, w)
  BY <1>1, <1>2, <1>5 DEF ORows, OWorld
<1>10. RowOK(row, w, overlapped)
  BY <1>1, <1>8 DEF RowOK
<1>11. \A q \in Requests : RequestOK(pc[q], held[q], row, world) =>
                               RequestOK(pc[q], held[q], row, w)
  BY <1>1 DEF RequestOK
<1>12. \A l, h : SoloOK(l, h, row, w, faults)
  BY <1>1 DEF SoloOK
<1>13. ~ Owed(row, w, faults)
  BY <1>1 DEF Owed
<1>14. \A n : Balanced(row, world, faults, n) => Balanced(row, w, faults, n)
  BY <1>1 DEF Balanced
<1> QED
  BY <1>3, <1>9, <1>10, <1>11, <1>12, <1>13, <1>14, OutsideInv

LEMMA ProofNextInv ==
    ASSUME OperationsInv, NEW r \in Requests,
           \/ ProofCall(r)
           \/ service = "PROOF" /\ ProofGoOn(r)
           \/ ProofTimePasses
    PROVE  OperationsInv'
BY PerformLiveYesGateInv, AuthorizeExecutionOperationInv, ProofGoOnInv,
   ProofTimePassesInv DEF ProofCall

-----------------------------------------------------------------------------
(* Location anchors.                                                       *)

LEMMA AnchorFacts ==
    ASSUME OperationsInv, service = "ANCHOR"
    PROVE  /\ row \in AnchorRows /\ world \in AnchorWorlds /\ world.now \in Nat
           /\ world.was \in [Places -> Nat \cup {-1}]
           /\ overlapped \in BOOLEAN /\ faults \in Nat /\ CacheTtl \in Nat
           /\ AnchorRowOK(row, world)
           /\ \A r \in Requests :
                 /\ pc[r] \in {"idle"} \cup AnchorLabels
                 /\ held[r] \in Tokens \cup {NoValue}
                 /\ AnchorRequestOK(pc[r], held[r], world)
<1>1. /\ row \in AnchorRows /\ world \in AnchorWorlds
      /\ overlapped \in BOOLEAN /\ faults \in Nat
      /\ \A r \in Requests :
             /\ pc[r] \in {"idle"} \cup AnchorLabels
             /\ held[r] \in Tokens \cup {NoValue}
  BY DEF OperationsInv, Typed, ORows, OWorld, OHeld, LabelsOf
<1>2. AnchorRowOK(row, world)
  BY DEF OperationsInv, RowOK
<1>3. \A r \in Requests : AnchorRequestOK(pc[r], held[r], world)
  BY DEF OperationsInv, RequestOK
<1> QED
  BY <1>1, <1>2, <1>3, AnchorAssumption DEF AnchorWorlds, AnchorAssumption

LEMMA AnchorStepInv ==
    ASSUME OperationsInv, service = "ANCHOR", NEW r \in Requests, NEW loaded \in {NoValue, held[r]},
           NEW rw \in AnchorRows, NEW w \in AnchorWorlds,
           pc[r] \in AnchorLabels, Step(r, "idle", loaded, rw, w),
           AnchorRowOK(rw, w),
           \A q \in Requests :
               AnchorRequestOK(pc[q], held[q], world) => AnchorRequestOK(pc[q], held[q], w)
    PROVE  OperationsInv'
<1>1. ShiftTyped("idle", loaded, rw, w, faults, overlapped)
  BY AnchorFacts DEF ShiftTyped, LabelsOf, OHeld, ORows, OWorld
<1>2. RowOK(rw, w, overlapped)
  BY DEF RowOK
<1>3. OthersKept(r, rw, w)
  BY DEF OthersKept, RequestOK
<1>4. SoloOK("idle", loaded, rw, w, faults)
  BY DEF SoloOK
<1>5. ~ Owed(rw, w, faults)
  BY DEF Owed
<1>6. BalanceKept(r, "idle", loaded, rw, w, faults)
  BY NoBooks
<1>7. ShiftOK(r, "idle", loaded, rw, w, faults, overlapped)
  BY <1>2, <1>3, <1>4, <1>5, <1>6 DEF ShiftOK
<1>8. pc[r] # "idle"
  BY DEF AnchorLabels
<1> QED
  BY <1>1, <1>7, <1>8, StepInv

LEMMA AnchorBeginInv ==
    ASSUME OperationsInv, service = "ANCHOR", NEW r \in Requests, NEW label \in AnchorLabels,
           NEW h \in Tokens, Begin(r, label, h), AnchorRequestOK(label, h, world)
    PROVE  OperationsInv'
<1>1. label \in LabelsOf(service) /\ h \in OHeld(service) \cup {NoValue}
  BY DEF LabelsOf, OHeld
<1>2. RequestOK(label, h, row, world)
  BY DEF RequestOK
<1>3. SoloOK(label, h, row, world, faults)
  BY DEF SoloOK
<1>4. \A k \in Kinds : Units(k, label, h) = 0
  BY DEF Units, AnchorLabels
<1> QED
  BY <1>1, <1>2, <1>3, <1>4, BeginInv

LEMMA RegisterAnchorInv ==
    ASSUME OperationsInv, NEW r \in Requests, RegisterAnchor(r)
    PROVE  OperationsInv'
<1>1. service = "ANCHOR"
  BY DEF RegisterAnchor
<1>2. PICK p \in Places : Begin(r, "anchor_upsert", Signed(p))
  BY DEF RegisterAnchor
<1>3. world.now \in Nat /\ CacheTtl \in Nat
  BY <1>1, AnchorFacts
<1>4. world.now + CacheTtl \in Nat
  BY <1>3
<1>5. Signed(p) \in Tokens /\ Signed(p).until = world.now + CacheTtl
  BY <1>4 DEF Signed, Tokens
<1>6. AnchorRequestOK("anchor_upsert", Signed(p), world)
  BY <1>4, <1>5 DEF AnchorRequestOK
<1>7. "anchor_upsert" \in AnchorLabels
  BY DEF AnchorLabels
<1> QED
  BY <1>1, <1>2, <1>5, <1>6, <1>7, AnchorBeginInv

LEMMA GetAnchorInv ==
    ASSUME OperationsInv, NEW r \in Requests, GetAnchor(r)
    PROVE  OperationsInv'
<1> DEFINE h == [place |-> row.place, until |-> world.now]
<1>1. service = "ANCHOR" /\ row.place # NoPlace /\ Begin(r, "anchor_mint", h)
  BY DEF GetAnchor
<1>2. row \in AnchorRows /\ world.now \in Nat /\ AnchorRowOK(row, world)
  BY <1>1, AnchorFacts
<1>3. row.place \in Places
  BY <1>1, <1>2 DEF AnchorRows
<1>4. h \in Tokens /\ h.place = row.place
  BY <1>2, <1>3 DEF Tokens
<1> HIDE DEF h
<1>5. WasRead(h.place, world)
  BY <1>1, <1>2, <1>4 DEF WasRead, AnchorRowOK
<1>6. AnchorRequestOK("anchor_mint", h, world)
  BY <1>4, <1>5 DEF AnchorRequestOK
<1>7. "anchor_mint" \in AnchorLabels
  BY DEF AnchorLabels
<1> QED
  BY <1>1, <1>4, <1>6, <1>7, AnchorBeginInv

\* A token that is handed out names a place that was the anchor late enough.
LEMMA HandedFacts ==
    ASSUME NEW w \in AnchorWorlds, NEW token \in Tokens, NEW rw,
           AnchorRowOK(rw, w), w.was[token.place] >= 0,
           w.was[token.place] + CacheTtl >= token.until \/ w.slow
    PROVE  /\ Handed(w, token) \in AnchorWorlds /\ AnchorRowOK(rw, Handed(w, token))
           /\ Handed(w, token).now = w.now /\ Handed(w, token).was = w.was
           /\ Handed(w, token).slow = w.slow
<1> DEFINE tokens == w.tokens \cup {token}
           v == [w EXCEPT !.tokens = tokens]
<1>1. Handed(w, token) = v
  BY DEF Handed, AnchorWorlds
<1>2. tokens \subseteq Tokens
  BY DEF AnchorWorlds
<1>3. \A t \in tokens : w.was[t.place] >= 0 /\ (w.was[t.place] + CacheTtl >= t.until \/ w.slow)
  BY DEF AnchorRowOK
<1> HIDE DEF tokens
<1>4. /\ v \in AnchorWorlds /\ v.tokens = tokens /\ v.now = w.now /\ v.was = w.was
      /\ v.passed = w.passed /\ v.slow = w.slow
  BY <1>2 DEF AnchorWorlds
<1> HIDE DEF v
<1>5. AnchorRowOK(rw, v)
  BY <1>3, <1>4 DEF AnchorRowOK
<1> QED
  BY <1>1, <1>4, <1>5

\* The anchor moved here now.
LEMMA MovedFacts ==
    ASSUME world \in AnchorWorlds, AnchorRowOK(row, world), NEW place \in Places,
           NEW w, NEW rw \in AnchorRows, rw.place = place,
           w = [world EXCEPT !.was = [world.was EXCEPT ![place] = world.now]]
    PROVE  /\ w \in AnchorWorlds /\ AnchorRowOK(rw, w)
           /\ w.now = world.now /\ w.slow = world.slow /\ w.was[place] = world.now
           /\ \A p \in Places : w.was[p] = world.was[p] \/ w.was[p] = world.now
<1> DEFINE was == [world.was EXCEPT ![place] = world.now]
<1>1. world.now \in Nat /\ world.was \in [Places -> Nat \cup {-1}] /\ CacheTtl \in Nat
      /\ place # NoPlace
  BY AnchorAssumption DEF AnchorWorlds, AnchorAssumption, NoPlace
<1>2. was \in [Places -> Nat \cup {-1}] /\ was[place] = world.now
  BY <1>1
<1>3. \A p \in Places : was[p] = world.was[p] \/ was[p] = world.now
  BY <1>1
<1> HIDE DEF was
<1>4. w = [world EXCEPT !.was = was]
  BY DEF was
<1>5. /\ w \in AnchorWorlds /\ w.was = was /\ w.now = world.now
      /\ w.tokens = world.tokens /\ w.passed = world.passed /\ w.slow = world.slow
  BY <1>2, <1>4 DEF AnchorWorlds
<1>6. \A p \in Places : was[p] >= world.was[p] /\ was[p] <= world.now
  <2> TAKE p \in Places
  <2>1. world.was[p] <= world.now /\ world.was[p] \in Nat \cup {-1}
    BY <1>1 DEF AnchorRowOK
  <2> QED
    BY <1>1, <1>3, <2>1
<1>7. \A t \in world.tokens :
          was[t.place] >= 0 /\ (was[t.place] + CacheTtl >= t.until \/ world.slow)
  <2> TAKE t \in world.tokens
  <2>1. t.place \in Places /\ t.until \in Nat
    BY DEF AnchorWorlds, Tokens
  <2>2. was[t.place] >= world.was[t.place]
    BY <1>6, <2>1
  <2>3. /\ world.was[t.place] >= 0
        /\ world.was[t.place] + CacheTtl >= t.until \/ world.slow
    BY DEF AnchorRowOK
  <2>4. was[t.place] \in Nat \cup {-1} /\ world.was[t.place] \in Nat \cup {-1}
    BY <1>1, <1>2, <2>1
  <2> QED
    BY <1>1, <2>1, <2>2, <2>3, <2>4
<1>8. w.passed # NoValue =>
          \E p \in Places :
             /\ CheckProximity(w.passed.device, p)
             /\ was[p] >= 0
             /\ \/ was[p] + (IF w.passed.way = "online" THEN 0 ELSE CacheTtl) >= world.now
                \/ w.passed.way = "offline" /\ world.slow
  <2> SUFFICES ASSUME world.passed # NoValue
               PROVE  \E p \in Places :
                         /\ CheckProximity(world.passed.device, p)
                         /\ was[p] >= 0
                         /\ \/ was[p] + (IF world.passed.way = "online" THEN 0 ELSE CacheTtl)
                                   >= world.now
                            \/ world.passed.way = "offline" /\ world.slow
    BY <1>5
  <2> DEFINE ttl == IF world.passed.way = "online" THEN 0 ELSE CacheTtl
  <2>1. PICK p \in Places :
             /\ CheckProximity(world.passed.device, p)
             /\ world.was[p] >= 0
             /\ \/ world.was[p] + ttl >= world.now
                \/ world.passed.way = "offline" /\ world.slow
    BY DEF AnchorRowOK
  <2>2. ttl \in Nat
    BY <1>1
  <2> HIDE DEF ttl
  <2>3. was[p] \in Nat \cup {-1} /\ world.was[p] \in Nat \cup {-1} /\ was[p] >= world.was[p]
    BY <1>1, <1>2, <1>6
  <2>4. /\ was[p] >= 0
        /\ was[p] + ttl >= world.now \/ (world.passed.way = "offline" /\ world.slow)
    BY <1>1, <2>1, <2>2, <2>3
  <2> QED
    BY <2>1, <2>4 DEF ttl
<1>9. AnchorRowOK(rw, w)
  BY <1>1, <1>2, <1>5, <1>6, <1>7, <1>8 DEF AnchorRowOK
<1> QED
  BY <1>2, <1>3, <1>5, <1>9

LEMMA AnchorGoOnInv ==
    ASSUME OperationsInv, service = "ANCHOR", NEW r \in Requests, AnchorGoOn(r)
    PROVE  OperationsInv'
<1>1. /\ world \in AnchorWorlds /\ AnchorRowOK(row, world) /\ world.now \in Nat
      /\ row \in AnchorRows /\ AnchorRequestOK(pc[r], held[r], world) /\ CacheTtl \in Nat
      /\ world.was \in [Places -> Nat \cup {-1}]
  BY AnchorFacts
<1>2. CASE UpsertAnchor(r)
  <2> DEFINE place == held[r].place
             was == [world.was EXCEPT ![place] = world.now]
             w == [world EXCEPT !.was = was]
             rw == [row EXCEPT !.place = place]
  <2>1. /\ pc[r] = "anchor_upsert"
        /\ Step(r, "idle", NoValue, rw, Handed([world EXCEPT !.was[place] = world.now], held[r]))
    BY <1>2 DEF UpsertAnchor
  <2>2. [world EXCEPT !.was[place] = world.now] = w
    BY <1>1 DEF AnchorWorlds
  <2>3. held[r] \in Tokens /\ held[r].until <= world.now + CacheTtl
    BY <1>1, <2>1 DEF AnchorRequestOK, AnchorLabels
  <2>4. place \in Places
    BY <2>3 DEF Tokens
  <2>5. rw \in AnchorRows /\ rw.place = place
    BY <1>1, <2>4 DEF AnchorRows
  <2> HIDE DEF place, rw
  <2>6. /\ w \in AnchorWorlds /\ AnchorRowOK(rw, w)
        /\ w.now = world.now /\ w.slow = world.slow /\ w.was[place] = world.now
        /\ \A p \in Places : w.was[p] = world.was[p] \/ w.was[p] = world.now
    BY <1>1, <2>4, <2>5, MovedFacts
  <2>7. Step(r, "idle", NoValue, rw, Handed(w, held[r]))
    BY <2>1, <2>2
  <2> HIDE DEF w, was
  <2>8. w.was[held[r].place] >= 0 /\ w.was[held[r].place] + CacheTtl >= held[r].until
    <3>1. held[r].until \in Nat /\ w.was[held[r].place] = world.now
      BY <2>3, <2>6 DEF Tokens, place
    <3> QED
      BY <1>1, <2>3, <3>1
  <2> DEFINE v == Handed(w, held[r])
  <2>9. v \in AnchorWorlds /\ AnchorRowOK(rw, v) /\ v.now = world.now
        /\ v.slow = world.slow /\ v.was = w.was
    BY <2>3, <2>6, <2>8, HandedFacts
  <2> HIDE DEF v
  <2>10. \A q \in Requests :
            AnchorRequestOK(pc[q], held[q], world) => AnchorRequestOK(pc[q], held[q], v)
    <3> SUFFICES ASSUME NEW q \in Requests, AnchorRequestOK(pc[q], held[q], world)
                 PROVE  AnchorRequestOK(pc[q], held[q], v)
      OBVIOUS
    <3>1. CASE pc[q] = "anchor_mint"
      <4>1. held[q] \in Tokens /\ WasRead(held[q].place, world)
        BY <3>1 DEF AnchorRequestOK, AnchorLabels
      <4>2. held[q].place \in Places
        BY <4>1 DEF Tokens
      <4>3. v.was[held[q].place] = world.was[held[q].place]
            \/ v.was[held[q].place] = world.now
        BY <2>6, <2>9, <4>2
      <4>4. WasRead(held[q].place, v)
        BY <1>1, <2>9, <4>1, <4>3 DEF WasRead
      <4> QED
        BY <3>1, <4>1, <4>4 DEF AnchorRequestOK
    <3>2. CASE pc[q] # "anchor_mint"
      BY <2>9, <3>2 DEF AnchorRequestOK
    <3> QED
      BY <3>1, <3>2
  <2>11. pc[r] \in AnchorLabels
    BY <2>1 DEF AnchorLabels
  <2>12. Step(r, "idle", NoValue, rw, v)
    BY <2>7 DEF v
  <2> QED
    BY <2>5, <2>9, <2>10, <2>11, <2>12, AnchorStepInv
<1>3. CASE FreshToken(r)
  <2> DEFINE t == Signed(held[r].place)
             v == Handed(world, t)
  <2>1. pc[r] = "anchor_mint" /\ Step(r, "idle", held[r], row, v)
    BY <1>3 DEF FreshToken, Act
  <2>2. held[r] \in Tokens /\ WasRead(held[r].place, world)
    BY <1>1, <2>1 DEF AnchorRequestOK, AnchorLabels
  <2>3. held[r].place \in Places /\ world.now + CacheTtl \in Nat
    BY <1>1, <2>2 DEF Tokens
  <2>4. t \in Tokens /\ t.place = held[r].place /\ t.until = world.now + CacheTtl
    BY <2>3 DEF Signed, Tokens
  <2> HIDE DEF t
  <2>5. world.was[t.place] >= 0 /\ (world.was[t.place] + CacheTtl >= t.until \/ world.slow)
    BY <1>1, <2>2, <2>4 DEF WasRead
  <2>6. v \in AnchorWorlds /\ AnchorRowOK(row, v) /\ v.now = world.now
        /\ v.slow = world.slow /\ v.was = world.was
    BY <1>1, <2>4, <2>5, HandedFacts
  <2> HIDE DEF v
  <2>7. \A q \in Requests :
            AnchorRequestOK(pc[q], held[q], world) => AnchorRequestOK(pc[q], held[q], v)
    BY <2>6 DEF AnchorRequestOK, WasRead
  <2>8. pc[r] \in AnchorLabels
    BY <2>1 DEF AnchorLabels
  <2> QED
    BY <1>1, <2>1, <2>6, <2>7, <2>8, AnchorStepInv
<1> QED
  BY <1>2, <1>3 DEF AnchorGoOn

LEMMA NearInv ==
    ASSUME OperationsInv, service = "ANCHOR", NEW r \in Requests, NEW d \in Devices,
           NEW way \in {"online", "offline"}, Near(r, d, way),
           NEW p \in Places, CheckProximity(d, p), world.was[p] >= 0,
           \/ world.was[p] + (IF way = "online" THEN 0 ELSE CacheTtl) >= world.now
           \/ way = "offline" /\ world.slow
    PROVE  OperationsInv'
<1> DEFINE pass == [device |-> d, way |-> way]
           w == [world EXCEPT !.passed = pass]
<1>1. Once(r, row, w)
  BY DEF Near
<1>2. world \in AnchorWorlds /\ row \in AnchorRows /\ AnchorRowOK(row, world)
  BY AnchorFacts
<1>3. pass \in [device : Devices, way : {"online", "offline"}] /\ pass.device = d
      /\ pass.way = way
  OBVIOUS
<1> HIDE DEF pass
<1>4. /\ w \in AnchorWorlds /\ w.passed = pass /\ w.now = world.now /\ w.was = world.was
      /\ w.tokens = world.tokens /\ w.slow = world.slow
  BY <1>2, <1>3 DEF AnchorWorlds
<1> HIDE DEF w
<1>5. AnchorRowOK(row, w)
  BY <1>2, <1>3, <1>4 DEF AnchorRowOK
<1>6. row \in ORows(service) /\ OWorld(service, w)
  BY <1>2, <1>4 DEF ORows, OWorld
<1>7. RowOK(row, w, overlapped \/ Busy)
  BY <1>5 DEF RowOK
<1>8. OthersKept(r, row, w)
  BY <1>4 DEF OthersKept, RequestOK, AnchorRequestOK, WasRead
<1>9. SoloOK("idle", NoValue, row, w, faults) /\ ~ Owed(row, w, faults)
  BY DEF SoloOK, Owed
<1>10. \A n : Balanced(row, world, faults, n) => Balanced(row, w, faults, n)
  BY DEF Balanced
<1> QED
  BY <1>1, <1>6, <1>7, <1>8, <1>9, <1>10, OnceInv

LEMMA AnchorChecksInv ==
    ASSUME OperationsInv, NEW r \in Requests, CheckOnline(r) \/ CheckOffline(r)
    PROVE  OperationsInv'
<1>1. service = "ANCHOR"
  BY DEF CheckOnline, CheckOffline
<1>2. /\ world \in AnchorWorlds /\ AnchorRowOK(row, world) /\ world.now \in Nat
      /\ row \in AnchorRows /\ CacheTtl \in Nat /\ world.was \in [Places -> Nat \cup {-1}]
  BY <1>1, AnchorFacts
<1>3. CASE CheckOnline(r)
  <2>1. row.place # NoPlace
    BY <1>3 DEF CheckOnline
  <2>2. PICK d \in Devices : CheckProximity(d, row.place) /\ Near(r, d, "online")
    BY <1>3 DEF CheckOnline
  <2>3. row.place \in Places /\ world.was[row.place] = world.now
    BY <1>2, <2>1 DEF AnchorRows, AnchorRowOK
  <2> DEFINE p == row.place
  <2>4. /\ p \in Places /\ CheckProximity(d, p) /\ world.was[p] >= 0
        /\ world.was[p] + 0 >= world.now
    BY <1>2, <2>2, <2>3
  <2> HIDE DEF p
  <2> QED
    BY <1>1, <2>2, <2>4, NearInv
<1>4. CASE CheckOffline(r)
  <2>1. PICK t \in world.tokens, d \in Devices :
             world.now <= t.until /\ CheckProximity(d, t.place) /\ Near(r, d, "offline")
    BY <1>4 DEF CheckOffline
  <2> DEFINE p == t.place
  <2>2. p \in Places /\ t.until \in Nat
    BY <1>2 DEF AnchorWorlds, Tokens
  <2>3. world.was[p] >= 0 /\ (world.was[p] + CacheTtl >= t.until \/ world.slow)
    BY <1>2 DEF AnchorRowOK
  <2>4. world.was[p] + CacheTtl >= world.now \/ world.slow
    <3>1. world.was[p] \in Nat \cup {-1}
      BY <1>2, <2>2
    <3> QED
      BY <1>2, <2>1, <2>2, <2>3, <3>1
  <2>5. CheckProximity(d, p)
    BY <2>1
  <2> HIDE DEF p
  <2> QED
    BY <1>1, <2>1, <2>2, <2>3, <2>4, <2>5, NearInv
<1> QED
  BY <1>3, <1>4

LEMMA AnchorTimePassesInv ==
    ASSUME OperationsInv, AnchorTimePasses
    PROVE  OperationsInv'
<1> DEFINE was == [p \in Places |-> IF row.place = p THEN world.now + 1 ELSE world.was[p]]
           slow == world.slow \/ \E r \in Requests : pc[r] = "anchor_mint"
           w == [world EXCEPT !.now = world.now + 1, !.passed = NoValue, !.was = was,
                              !.slow = slow]
<1>1. service = "ANCHOR"
  BY DEF AnchorTimePasses
<1>2. /\ world \in AnchorWorlds /\ AnchorRowOK(row, world) /\ world.now \in Nat
      /\ row \in AnchorRows /\ CacheTtl \in Nat /\ world.was \in [Places -> Nat \cup {-1}]
  BY <1>1, AnchorFacts
<1>3. Outside(row, w)
  BY <1>2 DEF AnchorTimePasses, AnchorWorlds
<1>4. /\ was \in [Places -> Nat \cup {-1}]
      /\ \A p \in Places : was[p] = world.was[p] \/ was[p] = world.now + 1
      /\ row.place # NoPlace => was[row.place] = world.now + 1
  BY <1>2 DEF AnchorRows
<1>5. slow \in BOOLEAN /\ (world.slow => slow)
      /\ \A q \in Requests : pc[q] = "anchor_mint" => slow
  BY <1>2 DEF AnchorWorlds
<1>6. world.now + 1 \in Nat
  BY <1>2
<1> HIDE DEF was, slow
<1>7. w \in AnchorWorlds
  BY <1>2, <1>4, <1>5, <1>6, Zenon DEF AnchorWorlds
<1>8. /\ w.now = world.now + 1 /\ w.passed = NoValue /\ w.was = was /\ w.slow = slow
      /\ w.tokens = world.tokens
  BY <1>2 DEF AnchorWorlds
<1> HIDE DEF w
<1>9. \A p \in Places : was[p] >= world.was[p] /\ was[p] <= world.now + 1
  <2> TAKE p \in Places
  <2>1. world.was[p] <= world.now /\ world.was[p] \in Nat \cup {-1}
    BY <1>2 DEF AnchorRowOK
  <2> QED
    BY <1>2, <1>4, <2>1
<1>10. \A t \in world.tokens :
          was[t.place] >= 0 /\ (was[t.place] + CacheTtl >= t.until \/ slow)
  <2> TAKE t \in world.tokens
  <2>1. t.place \in Places /\ t.until \in Nat
    BY <1>2 DEF AnchorWorlds, Tokens
  <2>2. was[t.place] >= world.was[t.place]
    BY <1>9, <2>1
  <2>3. /\ world.was[t.place] >= 0
        /\ world.was[t.place] + CacheTtl >= t.until \/ world.slow
    BY <1>2 DEF AnchorRowOK
  <2>4. was[t.place] \in Nat \cup {-1} /\ world.was[t.place] \in Nat \cup {-1}
    BY <1>2, <1>4, <2>1
  <2> QED
    BY <1>2, <1>5, <2>1, <2>2, <2>3, <2>4
<1>11. AnchorRowOK(row, w)
  BY <1>4, <1>8, <1>9, <1>10 DEF AnchorRowOK
<1>12. row \in ORows(service) /\ OWorld(service, w)
  BY <1>1, <1>2, <1>7 DEF ORows, OWorld
<1>13. RowOK(row, w, overlapped)
  BY <1>1, <1>11 DEF RowOK
<1>14. \A q \in Requests : RequestOK(pc[q], held[q], row, world) =>
                               RequestOK(pc[q], held[q], row, w)
  <2> SUFFICES ASSUME NEW q \in Requests, AnchorRequestOK(pc[q], held[q], world)
               PROVE  AnchorRequestOK(pc[q], held[q], w)
    BY <1>1 DEF RequestOK
  <2>1. CASE pc[q] = "anchor_mint"
    <3>1. held[q] \in Tokens /\ WasRead(held[q].place, world)
      BY <2>1 DEF AnchorRequestOK, AnchorLabels
    <3>2. held[q].place \in Places
      BY <3>1 DEF Tokens
    <3>3. /\ was[held[q].place] >= world.was[held[q].place]
          /\ was[held[q].place] \in Nat \cup {-1}
          /\ world.was[held[q].place] \in Nat \cup {-1}
      BY <1>2, <1>4, <1>9, <3>2
    <3>4. was[held[q].place] >= 0
      BY <3>1, <3>3 DEF WasRead
    <3>5. WasRead(held[q].place, w)
      BY <1>5, <1>8, <2>1, <3>4 DEF WasRead
    <3> QED
      BY <2>1, <3>1, <3>5 DEF AnchorRequestOK
  <2>2. CASE pc[q] = "anchor_upsert"
    <3>1. held[q] \in Tokens /\ held[q].until <= world.now + CacheTtl
      BY <2>2 DEF AnchorRequestOK, AnchorLabels
    <3>2. held[q].until \in Nat
      BY <3>1 DEF Tokens
    <3>3. held[q].until <= (world.now + 1) + CacheTtl
      BY <1>2, <3>1, <3>2
    <3> QED
      BY <1>8, <2>2, <3>1, <3>3 DEF AnchorRequestOK
  <2> QED
    BY <2>1, <2>2 DEF AnchorRequestOK, AnchorLabels
<1>15. \A l, h : SoloOK(l, h, row, w, faults)
  BY <1>1 DEF SoloOK
<1>16. ~ Owed(row, w, faults)
  BY <1>1 DEF Owed
<1>17. \A n : Balanced(row, world, faults, n) => Balanced(row, w, faults, n)
  BY <1>1 DEF Balanced
<1> QED
  BY <1>3, <1>12, <1>13, <1>14, <1>15, <1>16, <1>17, OutsideInv

LEMMA AnchorNextInv ==
    ASSUME OperationsInv, NEW r \in Requests,
           \/ AnchorCall(r)
           \/ service = "ANCHOR" /\ AnchorGoOn(r)
           \/ AnchorTimePasses
    PROVE  OperationsInv'
BY RegisterAnchorInv, GetAnchorInv, AnchorChecksInv, AnchorGoOnInv,
   AnchorTimePassesInv DEF AnchorCall

-----------------------------------------------------------------------------
(* The page: its timers, a bag, and the record they are a field of.        *)

LEMMA BagMore ==
    ASSUME NEW b, IsABag(b), NEW c
    PROVE  /\ IsABag(b (+) SetToBag({c}))
           /\ DOMAIN (b (+) SetToBag({c})) = DOMAIN b \cup {c}
           /\ \A t : Copies(b (+) SetToBag({c}), t)
                         = Copies(b, t) + (IF t = c THEN 1 ELSE 0)
<1>1. /\ IsABag(b (+) SetToBag({c}))
      /\ DOMAIN (b (+) SetToBag({c})) = DOMAIN b \cup {c}
  BY DEF IsABag, (+), SetToBag
<1>2. \A t \in DOMAIN b : b[t] \in Nat
  BY DEF IsABag
<1>3. \A t : Copies(b (+) SetToBag({c}), t) = Copies(b, t) + (IF t = c THEN 1 ELSE 0)
  BY <1>2 DEF Copies, (+), SetToBag
<1> QED
  BY <1>1, <1>3

LEMMA BagLess ==
    ASSUME NEW b, IsABag(b), NEW c \in DOMAIN b
    PROVE  /\ IsABag(b (-) SetToBag({c}))
           /\ DOMAIN (b (-) SetToBag({c})) \subseteq DOMAIN b
           /\ DOMAIN b \subseteq DOMAIN (b (-) SetToBag({c})) \cup {c}
           /\ \A t : Copies(b, t)
                   = Copies(b (-) SetToBag({c}), t) + (IF t = c THEN 1 ELSE 0)
<1>1. \A t \in DOMAIN b : b[t] \in Nat /\ b[t] > 0
  BY DEF IsABag
<1>2. /\ IsABag(b (-) SetToBag({c}))
      /\ DOMAIN (b (-) SetToBag({c})) \subseteq DOMAIN b
      /\ DOMAIN b \subseteq DOMAIN (b (-) SetToBag({c})) \cup {c}
  BY <1>1 DEF IsABag, (-), SetToBag
<1>3. \A t : Copies(b, t) = Copies(b (-) SetToBag({c}), t) + (IF t = c THEN 1 ELSE 0)
  BY <1>1 DEF Copies, (-), SetToBag
<1> QED
  BY <1>2, <1>3

\* One more of each of a set.
LEMMA BagMoreOf ==
    ASSUME NEW b, IsABag(b), NEW S
    PROVE  /\ IsABag(b (+) SetToBag(S))
           /\ DOMAIN (b (+) SetToBag(S)) = DOMAIN b \cup S
           /\ \A t : Copies(b (+) SetToBag(S), t)
                         = Copies(b, t) + (IF t \in S THEN 1 ELSE 0)
<1>1. /\ IsABag(b (+) SetToBag(S))
      /\ DOMAIN (b (+) SetToBag(S)) = DOMAIN b \cup S
  BY DEF IsABag, (+), SetToBag
<1>2. \A t \in DOMAIN b : b[t] \in Nat
  BY DEF IsABag
<1>3. \A t : Copies(b (+) SetToBag(S), t) = Copies(b, t) + (IF t \in S THEN 1 ELSE 0)
  BY <1>2 DEF Copies, (+), SetToBag
<1> QED
  BY <1>1, <1>3

LEMMA BagWithout ==
    ASSUME NEW b, IsABag(b), NEW S
    PROVE  LET c == [t \in DOMAIN b \ S |-> b[t]]
           IN  /\ IsABag(c) /\ DOMAIN c = DOMAIN b \ S
               /\ \A t : Copies(c, t) = IF t \in S THEN 0 ELSE Copies(b, t)
BY DEF IsABag, Copies

\* What a change of the modal's leaves as it was.
Kept(v, w) ==
    /\ v.copy = w.copy /\ v.gate = w.gate /\ v.gateNo = w.gateNo
    /\ v.submitting = w.submitting /\ v.pending = w.pending /\ v.active = w.active
    /\ v.launches = w.launches /\ v.fn = w.fn /\ v.told = w.told /\ v.shown = w.shown

WithTimers(w, b) == [w EXCEPT !.timers = b]

LEMMA WithTimersFacts ==
    ASSUME NEW w, SdkShape(w), NEW b, IsABag(b), \A t \in DOMAIN b : t.for \in Payloads,
           \A t \in DOMAIN b : t.do \in ModalTimers => w.active # NoPayload
    PROVE  LET v == WithTimers(w, b)
           IN  /\ SdkShape(v) /\ Kept(v, w) /\ v.screen = w.screen
               /\ v.scanning = w.scanning /\ v.timers = b
<1> DEFINE v == [w EXCEPT !.timers = b]
<1>1. /\ Kept(v, w) /\ v.screen = w.screen /\ v.scanning = w.scanning /\ v.timers = b
  BY DEF SdkShape, Kept
<1>2. v \in [copy : {"none", "loading", "verified", "other"}, gate : GateSteps,
              gateNo : Nat, submitting : BOOLEAN,
              pending : Payloads \cup {NoPayload}, active : Payloads \cup {NoPayload},
              launches : 0..MaxLaunches, fn : Functions \cup {"none"},
              screen : {w.screen}, scanning : BOOLEAN, timers : {b},
              told : [Payloads -> Nat], shown : SUBSET Payloads]
  BY DEF SdkShape
<1> HIDE DEF v
<1>3. SdkShape(v)
  BY <1>1, <1>2 DEF SdkShape, BagToSet, Of, Kept
<1> QED
  BY <1>1, <1>3 DEF WithTimers, v

Moved(w, screen) == [w EXCEPT !.screen = screen, !.scanning = FALSE]

LEMMA MovedScreenFacts ==
    ASSUME NEW w, SdkShape(w), NEW s, w.active # NoPayload => s \in Screens(w.fn)
    PROVE  LET v == Moved(w, s)
           IN  /\ SdkShape(v) /\ Kept(v, w) /\ v.screen = s /\ v.scanning = FALSE
               /\ v.timers = w.timers
<1> DEFINE v == [w EXCEPT !.screen = s, !.scanning = FALSE]
<1>1. /\ Kept(v, w) /\ v.screen = s /\ v.scanning = FALSE /\ v.timers = w.timers
  BY DEF SdkShape, Kept
<1>2. v \in [copy : {"none", "loading", "verified", "other"}, gate : GateSteps,
              gateNo : Nat, submitting : BOOLEAN,
              pending : Payloads \cup {NoPayload}, active : Payloads \cup {NoPayload},
              launches : 0..MaxLaunches, fn : Functions \cup {"none"},
              screen : {s}, scanning : BOOLEAN, timers : {w.timers},
              told : [Payloads -> Nat], shown : SUBSET Payloads]
  BY DEF SdkShape
<1> HIDE DEF v
<1>3. SdkShape(v)
  BY <1>1, <1>2 DEF SdkShape, Of, Kept
<1> QED
  BY <1>1, <1>3 DEF Moved, v

LEMMA ScanningFacts ==
    ASSUME NEW w, SdkShape(w), NEW b \in BOOLEAN
    PROVE  LET v == [w EXCEPT !.scanning = b]
           IN  /\ SdkShape(v) /\ Kept(v, w) /\ v.screen = w.screen /\ v.scanning = b
               /\ v.timers = w.timers
<1> DEFINE v == [w EXCEPT !.scanning = b]
<1>1. /\ Kept(v, w) /\ v.screen = w.screen /\ v.scanning = b /\ v.timers = w.timers
  BY DEF SdkShape, Kept
<1>2. v \in [copy : {"none", "loading", "verified", "other"}, gate : GateSteps,
              gateNo : Nat, submitting : BOOLEAN,
              pending : Payloads \cup {NoPayload}, active : Payloads \cup {NoPayload},
              launches : 0..MaxLaunches, fn : Functions \cup {"none"},
              screen : {w.screen}, scanning : BOOLEAN, timers : {w.timers},
              told : [Payloads -> Nat], shown : SUBSET Payloads]
  BY DEF SdkShape
<1> HIDE DEF v
<1>3. SdkShape(v)
  BY <1>1, <1>2 DEF SdkShape, Of, Kept
<1> QED
  BY <1>1, <1>3 DEF v

More(w, c) == WithTimers(w, w.timers (+) SetToBag({c}))

\* v is w with one more timer of each of S under way.
MoreBy(v, w, S) ==
    /\ SdkShape(v) /\ Kept(v, w) /\ v.screen = w.screen /\ v.scanning = w.scanning
    /\ DOMAIN v.timers = DOMAIN w.timers \cup S
    /\ \A t : Copies(v.timers, t) = Copies(w.timers, t) + (IF t \in S THEN 1 ELSE 0)

LEMMA MoreFacts ==
    ASSUME NEW w, SdkShape(w), NEW c, c.for \in Payloads,
           c.do \in ModalTimers => w.active # NoPayload
    PROVE  MoreBy(More(w, c), w, {c})
<1> DEFINE b == w.timers (+) SetToBag({c})
<1>1. /\ IsABag(b) /\ DOMAIN b = DOMAIN w.timers \cup {c}
      /\ \A t : Copies(b, t) = Copies(w.timers, t) + (IF t = c THEN 1 ELSE 0)
  BY BagMore DEF SdkShape
<1>2. More(w, c) = WithTimers(w, b)
  BY DEF More
<1> HIDE DEF b
<1>3. /\ \A t \in DOMAIN b : t.for \in Payloads
      /\ \A t \in DOMAIN b : t.do \in ModalTimers => w.active # NoPayload
  BY <1>1 DEF SdkShape, Of, BagToSet
<1> DEFINE v == WithTimers(w, b)
<1>4. /\ SdkShape(v) /\ Kept(v, w) /\ v.screen = w.screen
      /\ v.scanning = w.scanning /\ v.timers = b
  BY <1>1, <1>3, WithTimersFacts
<1> HIDE DEF v
<1>5. MoreBy(v, w, {c})
  BY <1>1, <1>4 DEF MoreBy
<1> QED
  BY <1>2, <1>5 DEF v

\* Adding a timer, in the words of the page.
LEMMA AddIsMore ==
    ASSUME NEW w, SdkShape(w), NEW do, NEW at, NEW for
    PROVE  /\ [w EXCEPT !.timers = @ (+) Timer(do, at, for)] = More(w, Callback(do, at, for))
           /\ at = w.screen /\ for = w.active => Start(w, do) = More(w, Callback(do, at, for))
BY DEF More, WithTimers, Timer, Start, SdkShape

LEMMA CallbackFacts ==
    ASSUME NEW do, NEW at, NEW for
    PROVE  /\ Callback(do, at, for).do = do /\ Callback(do, at, for).at = at
           /\ Callback(do, at, for).for = for
BY DEF Callback

LEMMA EndedFacts ==
    ASSUME NEW w, SdkShape(w), NEW c \in BagToSet(w.timers)
    PROVE  LET v == Ended(w, c)
           IN  /\ SdkShape(v) /\ Kept(v, w) /\ v.screen = w.screen
               /\ v.scanning = w.scanning
               /\ DOMAIN v.timers \subseteq DOMAIN w.timers
               /\ DOMAIN w.timers \subseteq DOMAIN v.timers \cup {c}
               /\ \A t : Copies(w.timers, t)
                             = Copies(v.timers, t) + (IF t = c THEN 1 ELSE 0)
<1> DEFINE b == w.timers (-) SetToBag({c})
<1>1. /\ IsABag(b) /\ DOMAIN b \subseteq DOMAIN w.timers
      /\ DOMAIN w.timers \subseteq DOMAIN b \cup {c}
      /\ \A t : Copies(w.timers, t) = Copies(b, t) + (IF t = c THEN 1 ELSE 0)
  BY BagLess DEF SdkShape, BagToSet
<1>2. Ended(w, c) = WithTimers(w, b)
  BY DEF Ended, WithTimers, SdkShape
<1> HIDE DEF b
<1>3. /\ \A t \in DOMAIN b : t.for \in Payloads
      /\ \A t \in DOMAIN b : t.do \in ModalTimers => w.active # NoPayload
  BY <1>1 DEF SdkShape, Of, BagToSet
<1> DEFINE v == WithTimers(w, b)
<1>4. /\ SdkShape(v) /\ Kept(v, w) /\ v.screen = w.screen
      /\ v.scanning = w.scanning /\ v.timers = b
  BY <1>1, <1>3, WithTimersFacts
<1> HIDE DEF v
<1> QED
  BY <1>1, <1>2, <1>4 DEF v

LEMMA DropFacts ==
    ASSUME NEW w, SdkShape(w), NEW S
    PROVE  LET v == Drop(w, S)
           IN  /\ SdkShape(v) /\ Kept(v, w) /\ v.screen = w.screen
               /\ v.scanning = w.scanning
               /\ DOMAIN v.timers = DOMAIN w.timers \ S
               /\ \A t : Copies(v.timers, t) = IF t \in S THEN 0 ELSE Copies(w.timers, t)
<1> DEFINE b == [t \in DOMAIN w.timers \ S |-> w.timers[t]]
<1>1. /\ IsABag(b) /\ DOMAIN b = DOMAIN w.timers \ S
      /\ \A t : Copies(b, t) = IF t \in S THEN 0 ELSE Copies(w.timers, t)
  BY BagWithout DEF SdkShape
<1>2. Drop(w, S) = WithTimers(w, b)
  BY DEF Drop, WithTimers, SdkShape
<1> HIDE DEF b
<1>3. /\ \A t \in DOMAIN b : t.for \in Payloads
      /\ \A t \in DOMAIN b : t.do \in ModalTimers => w.active # NoPayload
  BY <1>1 DEF SdkShape, Of, BagToSet
<1> DEFINE v == WithTimers(w, b)
<1>4. /\ SdkShape(v) /\ Kept(v, w) /\ v.screen = w.screen
      /\ v.scanning = w.scanning /\ v.timers = b
  BY <1>1, <1>3, WithTimersFacts
<1> HIDE DEF v
<1> QED
  BY <1>1, <1>2, <1>4 DEF v

\* The timers that entering a screen starts.
Begun(w, s) ==
    {c \in {Callback("wait", s, w.active), Callback("face", s, w.active),
            Callback("tell", s, w.active)} :
        /\ c.do = "wait" => From(w.fn, s, "wait") # {}
        /\ c.do = "face" => w.fn = "BLIDE" /\ s = "face"
        /\ c.do = "tell" => s \in ModalOf(w.fn).ends}

May(w, c, cond) == IF cond THEN More(w, c) ELSE w

LEMMA MayFacts ==
    ASSUME NEW w, SdkShape(w), NEW c, c.for \in Payloads, NEW cond \in BOOLEAN,
           c.do \in ModalTimers => w.active # NoPayload
    PROVE  MoreBy(May(w, c, cond), w, IF cond THEN {c} ELSE {})
<1>1. CASE cond
  <2>1. MoreBy(More(w, c), w, {c})
    BY MoreFacts
  <2> QED
    BY <1>1, <2>1 DEF May
<1>2. CASE ~ cond
  <2>1. \A t : Copies(w.timers, t) \in Nat
    BY DEF SdkShape, IsABag, Copies
  <2>2. May(w, c, cond) = w
    BY <1>2 DEF May
  <2>3. \A t : Copies(w.timers, t) = Copies(w.timers, t) + 0
    BY <2>1
  <2> QED
    BY <1>2, <2>2, <2>3 DEF Kept, MoreBy
<1> QED
  BY <1>1, <1>2

LEMMA EnterFacts ==
    ASSUME NEW w, SdkShape(w), w.active # NoPayload, NEW s \in Screens(w.fn)
    PROVE  LET v == Enter(w, s)
           IN  /\ SdkShape(v) /\ Kept(v, w) /\ v.screen = s /\ v.scanning = FALSE
               /\ DOMAIN v.timers = DOMAIN w.timers \cup Begun(w, s)
               /\ \A t : Copies(v.timers, t)
                             = Copies(w.timers, t) + (IF t \in Begun(w, s) THEN 1 ELSE 0)
<1> DEFINE a == w.active
           c1 == Callback("wait", s, a)
           c2 == Callback("face", s, a)
           c3 == Callback("tell", s, a)
           p1 == From(w.fn, s, "wait") # {}
           p2 == w.fn = "BLIDE" /\ s = "face"
           p3 == s \in ModalOf(w.fn).ends
           v0 == Moved(w, s)
           v1 == May(v0, c1, p1)
           v2 == May(v1, c2, p2)
           v3 == May(v2, c3, p3)
<1>1. /\ SdkShape(v0) /\ Kept(v0, w) /\ v0.screen = s /\ v0.scanning = FALSE
      /\ v0.timers = w.timers
  BY MovedScreenFacts
<1>2. /\ c1.for = a /\ c2.for = a /\ c3.for = a /\ a \in Payloads
      /\ c1.do = "wait" /\ c2.do = "face" /\ c3.do = "tell"
      /\ c1 # c2 /\ c1 # c3 /\ c2 # c3
  <2>1. a \in Payloads
    BY DEF SdkShape
  <2> QED
    BY <2>1 DEF Callback
<1>3. p1 \in BOOLEAN /\ p2 \in BOOLEAN /\ p3 \in BOOLEAN
  OBVIOUS
<1>4. \A t : t \in Begun(w, s) <=> (t = c1 /\ p1) \/ (t = c2 /\ p2) \/ (t = c3 /\ p3)
  <2> HIDE DEF c1, c2, c3, p1, p2, p3
  <2>1. Begun(w, s) = {c \in {c1, c2, c3} : /\ c.do = "wait" => p1
                                            /\ c.do = "face" => p2
                                            /\ c.do = "tell" => p3}
    BY DEF Begun, c1, c2, c3, p1, p2, p3
  <2> QED
    BY <1>2, <2>1
<1>5. Enter(w, s) = v3
  <2>1. Enter(w, s) =
          LET waits == IF p1 THEN Start(v0, "wait") ELSE v0
              faces == IF p2 THEN Start(waits, "face") ELSE waits
          IN  IF p3 THEN Start(faces, "tell") ELSE faces
    BY DEF Enter, Moved
  <2> HIDE DEF c1, c2, c3, p1, p2, p3, v0
  <2>2. (IF p1 THEN Start(v0, "wait") ELSE v0) = v1
    <3>1. v0.screen = s /\ v0.active = w.active
      BY <1>1 DEF Kept
    <3>2. Start(v0, "wait") = More(v0, c1)
      BY <1>1, <3>1, AddIsMore DEF c1
    <3> QED
      BY <3>2 DEF May
  <2>3. /\ SdkShape(v1) /\ Kept(v1, v0) /\ v1.screen = v0.screen
    <3>1. MoreBy(v1, v0, IF p1 THEN {c1} ELSE {})
      BY <1>1, <1>2, <1>3, MayFacts DEF Kept
    <3> QED
      BY <3>1 DEF MoreBy
  <2> HIDE DEF v1
  <2>4. (IF p2 THEN Start(v1, "face") ELSE v1) = v2
    <3>1. v1.screen = s /\ v1.active = w.active
      BY <1>1, <2>3 DEF Kept
    <3>2. Start(v1, "face") = More(v1, c2)
      BY <2>3, <3>1, AddIsMore DEF c2
    <3> QED
      BY <3>2 DEF May
  <2>5. /\ SdkShape(v2) /\ Kept(v2, v1) /\ v2.screen = v1.screen
    <3>1. v1.active # NoPayload
      BY <1>1, <2>3 DEF Kept
    <3>2. MoreBy(v2, v1, IF p2 THEN {c2} ELSE {})
      BY <1>2, <1>3, <2>3, <3>1, MayFacts
    <3> QED
      BY <3>2 DEF MoreBy
  <2> HIDE DEF v2
  <2>6. (IF p3 THEN Start(v2, "tell") ELSE v2) = v3
    <3>1. v2.screen = s /\ v2.active = w.active
      BY <1>1, <2>3, <2>5 DEF Kept
    <3>2. Start(v2, "tell") = More(v2, c3)
      BY <2>5, <3>1, AddIsMore DEF c3
    <3> QED
      BY <3>2 DEF May
  <2> QED
    BY <2>1, <2>2, <2>4, <2>6
<1> HIDE DEF c1, c2, c3, p1, p2, p3, v0
<1>6. v0.active # NoPayload
  BY <1>1 DEF Kept
<1>7. MoreBy(v1, v0, IF p1 THEN {c1} ELSE {})
  BY <1>1, <1>2, <1>6, <1>3, MayFacts
<1> HIDE DEF v1
<1>8. SdkShape(v1) /\ v1.active # NoPayload
  BY <1>6, <1>7 DEF Kept, MoreBy
<1>9. MoreBy(v2, v1, IF p2 THEN {c2} ELSE {})
  BY <1>2, <1>8, <1>3, MayFacts
<1> HIDE DEF v2
<1>10. SdkShape(v2) /\ v2.active # NoPayload
  BY <1>8, <1>9 DEF Kept, MoreBy
<1>11. MoreBy(v3, v2, IF p3 THEN {c3} ELSE {})
  BY <1>2, <1>3, <1>10, MayFacts
<1> HIDE DEF v3
<1>12. DOMAIN v3.timers = DOMAIN w.timers \cup Begun(w, s)
  BY <1>1, <1>4, <1>7, <1>9, <1>11 DEF MoreBy
<1>13. \A t : Copies(v3.timers, t)
                  = Copies(w.timers, t) + (IF t \in Begun(w, s) THEN 1 ELSE 0)
  <2> TAKE t
  <2>1. Copies(w.timers, t) \in Nat
    BY DEF SdkShape, IsABag, Copies
  <2>2. /\ Copies(v1.timers, t) = Copies(w.timers, t) + (IF t = c1 /\ p1 THEN 1 ELSE 0)
        /\ Copies(v2.timers, t) = Copies(v1.timers, t) + (IF t = c2 /\ p2 THEN 1 ELSE 0)
        /\ Copies(v3.timers, t) = Copies(v2.timers, t) + (IF t = c3 /\ p3 THEN 1 ELSE 0)
    <3>1. /\ t \in (IF p1 THEN {c1} ELSE {}) <=> t = c1 /\ p1
          /\ t \in (IF p2 THEN {c2} ELSE {}) <=> t = c2 /\ p2
          /\ t \in (IF p3 THEN {c3} ELSE {}) <=> t = c3 /\ p3
      OBVIOUS
    <3> QED
      BY <1>1, <1>7, <1>9, <1>11, <3>1 DEF MoreBy
  <2> QED
    BY <1>2, <1>4, <2>1, <2>2
<1>14. Kept(v3, w) /\ v3.screen = s /\ v3.scanning = FALSE
  BY <1>1, <1>7, <1>9, <1>11 DEF Kept, MoreBy
<1> QED
  BY <1>5, <1>11, <1>12, <1>13, <1>14 DEF MoreBy

\* What outlives the modal: a nested scan will still start the timer that tells.
Orphans(w) == {Callback("orphan", t.at, t.for) : t \in Of(w, {"nested"})}

LEMMA UnmountFacts ==
    ASSUME NEW w, SdkShape(w)
    PROVE  LET v == Unmount(w)
           IN  /\ SdkShape(v)
               /\ v.copy = w.copy /\ v.gate = w.gate /\ v.gateNo = w.gateNo
               /\ v.submitting = w.submitting /\ v.pending = w.pending
               /\ v.active = NoPayload /\ v.launches = w.launches /\ v.fn = w.fn
               /\ v.told = w.told /\ v.shown = w.shown
               /\ DOMAIN v.timers = (DOMAIN w.timers \ Of(w, ModalTimers)) \cup Orphans(w)
               /\ \A t : Copies(v.timers, t)
                       = (IF t \in Of(w, ModalTimers) THEN 0 ELSE Copies(w.timers, t))
                             + (IF t \in Orphans(w) THEN 1 ELSE 0)
<1> DEFINE S == Of(w, ModalTimers)
           O == Orphans(w)
           d == Drop(w, S)
           b == d.timers (+) SetToBag(O)
           v == [d EXCEPT !.timers = b, !.active = NoPayload, !.screen = "none",
                          !.scanning = FALSE]
<1>1. /\ SdkShape(d) /\ Kept(d, w)
      /\ DOMAIN d.timers = DOMAIN w.timers \ S
      /\ \A t : Copies(d.timers, t) = IF t \in S THEN 0 ELSE Copies(w.timers, t)
  BY DropFacts
<1>2. Unmount(w) = v
  <2>1. d = Drop(w, Of(w, {"wait", "scan", "face", "nested"}))
    BY DEF ModalTimers
  <2> HIDE DEF d
  <2> QED
    BY <1>1, <2>1 DEF Unmount, Orphans, SdkShape
<1> HIDE DEF d
<1>3. \A t \in O : t.for \in Payloads /\ t.do = "orphan"
  BY DEF Orphans, Of, SdkShape, Callback
<1>4. IsABag(d.timers)
  BY <1>1 DEF SdkShape
<1>5. /\ IsABag(b) /\ DOMAIN b = DOMAIN d.timers \cup O
      /\ \A t : Copies(b, t) = Copies(d.timers, t) + (IF t \in O THEN 1 ELSE 0)
  <2> HIDE DEF O
  <2> QED
    BY <1>4, BagMoreOf
<1> HIDE DEF b
<1>6. \A t \in DOMAIN b : t.for \in Payloads /\ t.do \notin ModalTimers
  <2>1. \A t \in DOMAIN w.timers : t.for \in Payloads /\ (t \notin S => t.do \notin ModalTimers)
    BY DEF SdkShape, Of, BagToSet
  <2> QED
    BY <1>1, <1>3, <1>5, <2>1 DEF ModalTimers
<1> HIDE DEF S, O
<1>7. /\ v.copy = d.copy /\ v.gate = d.gate /\ v.gateNo = d.gateNo
      /\ v.submitting = d.submitting /\ v.pending = d.pending
      /\ v.active = NoPayload /\ v.launches = d.launches /\ v.fn = d.fn
      /\ v.told = d.told /\ v.shown = d.shown /\ v.timers = b
      /\ v.screen = "none" /\ v.scanning = FALSE
  BY <1>1 DEF SdkShape
<1>8. v \in [copy : {"none", "loading", "verified", "other"}, gate : GateSteps,
              gateNo : Nat, submitting : BOOLEAN,
              pending : Payloads \cup {NoPayload}, active : Payloads \cup {NoPayload},
              launches : 0..MaxLaunches, fn : Functions \cup {"none"},
              screen : {"none"}, scanning : BOOLEAN, timers : {b},
              told : [Payloads -> Nat], shown : SUBSET Payloads]
  BY <1>1 DEF SdkShape
<1> HIDE DEF v
<1>9. SdkShape(v)
  BY <1>5, <1>6, <1>7, <1>8 DEF SdkShape, BagToSet, Of
<1>10. \A t : Copies(v.timers, t)
               = (IF t \in S THEN 0 ELSE Copies(w.timers, t)) + (IF t \in O THEN 1 ELSE 0)
  BY <1>1, <1>5, <1>7
<1>11. DOMAIN v.timers = (DOMAIN w.timers \ S) \cup O
  BY <1>1, <1>5, <1>7
<1> QED
  BY <1>1, <1>2, <1>7, <1>9, <1>10, <1>11 DEF S, O, Kept

LEMMA CloseGateFacts ==
    ASSUME NEW w, SdkShape(w)
    PROVE  LET v == CloseGate(w)
           IN  /\ SdkShape(v) /\ v.copy = w.copy /\ v.gate = "closed"
               /\ v.gateNo = IF w.gate = "closed" THEN w.gateNo ELSE w.gateNo + 1
               /\ v.active = w.active /\ v.launches = w.launches /\ v.fn = w.fn
               /\ v.told = w.told /\ v.shown = w.shown /\ v.screen = w.screen
               /\ v.scanning = w.scanning /\ v.timers = w.timers
               /\ w.gate # "closed" => v.pending = NoPayload /\ ~ v.submitting
               /\ w.gate = "closed" => v.pending = w.pending /\ v.submitting = w.submitting
<1>1. CASE w.gate = "closed"
  BY <1>1 DEF CloseGate
<1>2. CASE w.gate # "closed"
  <2> DEFINE n == w.gateNo + 1
             v == [w EXCEPT !.gate = "closed", !.gateNo = n, !.pending = NoPayload,
                            !.submitting = FALSE]
  <2>1. CloseGate(w) = v
    BY <1>2 DEF CloseGate, SdkShape
  <2>2. n \in Nat
    BY DEF SdkShape
  <2> HIDE DEF n
  <2>3. /\ v.copy = w.copy /\ v.gate = "closed" /\ v.gateNo = n
        /\ v.active = w.active /\ v.launches = w.launches /\ v.fn = w.fn
        /\ v.told = w.told /\ v.shown = w.shown /\ v.screen = w.screen
        /\ v.scanning = w.scanning /\ v.timers = w.timers
        /\ v.pending = NoPayload /\ v.submitting = FALSE
    BY DEF SdkShape
  <2>4. v \in [copy : {"none", "loading", "verified", "other"}, gate : GateSteps,
              gateNo : Nat, submitting : BOOLEAN,
              pending : Payloads \cup {NoPayload}, active : Payloads \cup {NoPayload},
              launches : 0..MaxLaunches, fn : Functions \cup {"none"},
              screen : {w.screen}, scanning : BOOLEAN, timers : {w.timers},
              told : [Payloads -> Nat], shown : SUBSET Payloads]
    BY <2>2 DEF SdkShape, GateSteps
  <2> HIDE DEF v
  <2>5. SdkShape(v)
    BY <2>3, <2>4 DEF SdkShape, Of
  <2> QED
    BY <1>2, <2>1, <2>3, <2>5 DEF n
<1> QED
  BY <1>1, <1>2

\* setActive: a modal that is there takes the new payload, or one begins.
Activated(v, w, p) ==
    /\ SdkShape(v) /\ v.copy = w.copy /\ v.gate = w.gate /\ v.gateNo = w.gateNo
    /\ v.submitting = w.submitting /\ v.pending = w.pending /\ v.active = p
    /\ v.launches = w.launches /\ v.told = w.told
    /\ Of(v, {"verified"}) = Of(w, {"verified"})
    /\ w.active # NoPayload =>
          /\ v.screen = w.screen /\ v.scanning = w.scanning /\ v.fn = w.fn
          /\ v.timers = w.timers /\ v.shown = w.shown
    /\ w.active = NoPayload =>
          /\ v.screen \in ModalOf(v.fn).first /\ v.scanning = FALSE
          /\ v.fn \in Functions /\ w.fn \in {"none", v.fn}
          /\ v.shown = w.shown \cup {p}
          /\ DOMAIN v.timers = DOMAIN w.timers \cup Begun(v, v.screen)
          /\ \A t : Copies(v.timers, t) = Copies(w.timers, t)
                        + (IF t \in Begun(v, v.screen) THEN 1 ELSE 0)

LEMMA ActivateFacts ==
    ASSUME NEW w, SdkShape(w), NEW p \in Payloads, NEW v \in Activate(w, p)
    PROVE  Activated(v, w, p)
<1>1. p # NoPayload
  BY DEF Payloads, NoPayload
<1>2. CASE w.active # NoPayload
  <2> DEFINE u == [w EXCEPT !.active = p]
  <2>1. v = u
    BY <1>2 DEF Activate
  <2>2. /\ Kept(u, [w EXCEPT !.active = p]) /\ u.screen = w.screen
        /\ u.scanning = w.scanning /\ u.timers = w.timers /\ u.active = p
        /\ u.copy = w.copy /\ u.gate = w.gate /\ u.gateNo = w.gateNo
        /\ u.submitting = w.submitting /\ u.pending = w.pending
        /\ u.launches = w.launches /\ u.told = w.told /\ u.fn = w.fn /\ u.shown = w.shown
    BY DEF SdkShape, Kept
  <2>3. u \in [copy : {"none", "loading", "verified", "other"}, gate : GateSteps,
              gateNo : Nat, submitting : BOOLEAN,
              pending : Payloads \cup {NoPayload}, active : Payloads \cup {NoPayload},
              launches : 0..MaxLaunches, fn : Functions \cup {"none"},
              screen : {w.screen}, scanning : BOOLEAN, timers : {w.timers},
              told : [Payloads -> Nat], shown : SUBSET Payloads]
    BY DEF SdkShape
  <2> HIDE DEF u
  <2>4. SdkShape(u)
    BY <1>1, <1>2, <2>2, <2>3 DEF SdkShape, Of
  <2>5. Of(u, {"verified"}) = Of(w, {"verified"})
    BY <2>2 DEF Of
  <2> QED
    BY <1>2, <2>1, <2>2, <2>4, <2>5 DEF Activated
<1>3. CASE w.active = NoPayload
  <2> DEFINE fs == IF w.fn = "none" THEN Functions ELSE {w.fn}
             shown == w.shown \cup {p}
  <2>1. PICK f \in fs : \E s \in ModalOf(f).first :
            v = Enter([w EXCEPT !.active = p, !.fn = f, !.shown = @ \cup {p}], s)
    BY <1>3 DEF Activate
  <2>2. PICK s \in ModalOf(f).first :
            v = Enter([w EXCEPT !.active = p, !.fn = f, !.shown = @ \cup {p}], s)
    BY <2>1
  <2>3. f \in Functions /\ w.fn \in {"none", f}
    BY <2>1 DEF SdkShape
  <2>4. s \in Screens(f)
    BY <2>2 DEF Screens
  <2> DEFINE x == [w EXCEPT !.active = p, !.fn = f, !.shown = shown]
             y == [x EXCEPT !.screen = s]
  <2>5. v = Enter(x, s)
    BY <2>2 DEF SdkShape
  <2>6. shown \subseteq Payloads
    BY DEF SdkShape
  <2> HIDE DEF shown, fs
  <2>7. x \in [copy : {"none", "loading", "verified", "other"}, gate : GateSteps,
              gateNo : Nat, submitting : BOOLEAN,
              pending : Payloads \cup {NoPayload}, active : Payloads \cup {NoPayload},
              launches : 0..MaxLaunches, fn : Functions \cup {"none"},
              screen : {w.screen}, scanning : BOOLEAN, timers : {w.timers},
              told : [Payloads -> Nat], shown : SUBSET Payloads]
    BY <2>3, <2>6 DEF SdkShape
  <2>8. /\ x.active = p /\ x.fn = f /\ x.shown = shown /\ x.copy = w.copy
        /\ x.gate = w.gate /\ x.gateNo = w.gateNo /\ x.submitting = w.submitting
        /\ x.pending = w.pending /\ x.launches = w.launches /\ x.told = w.told
        /\ x.timers = w.timers
    BY DEF SdkShape
  <2> HIDE DEF x
  <2>9. y \in [copy : {"none", "loading", "verified", "other"}, gate : GateSteps,
              gateNo : Nat, submitting : BOOLEAN,
              pending : Payloads \cup {NoPayload}, active : Payloads \cup {NoPayload},
              launches : 0..MaxLaunches, fn : Functions \cup {"none"},
              screen : {s}, scanning : BOOLEAN, timers : {w.timers},
              told : [Payloads -> Nat], shown : SUBSET Payloads]
    BY <2>7
  <2>10. Kept(y, x) /\ y.screen = s /\ y.timers = x.timers
    BY <2>7 DEF Kept
  <2>11. Moved(y, s) = Moved(x, s)
    BY <2>7 DEF Moved
  <2> HIDE DEF y
  <2>12. SdkShape(y)
    BY <1>1, <2>3, <2>4, <2>8, <2>9, <2>10 DEF SdkShape, Of, BagToSet, Kept
  <2>13. Enter(y, s) = Enter(x, s)
    <3>1. y.fn = x.fn
      BY <2>10 DEF Kept
    <3> QED
      BY <2>11, <3>1 DEF Enter, Moved
  <2>14. y.active = p /\ y.fn = f
    BY <2>8, <2>10 DEF Kept
  <2>15. /\ SdkShape(v) /\ Kept(v, y) /\ v.screen = s /\ v.scanning = FALSE
         /\ DOMAIN v.timers = DOMAIN y.timers \cup Begun(y, s)
         /\ \A t : Copies(v.timers, t)
                       = Copies(y.timers, t) + (IF t \in Begun(y, s) THEN 1 ELSE 0)
    <3>1. v = Enter(y, s)
      BY <2>5, <2>13
    <3>2. y.active # NoPayload /\ s \in Screens(y.fn)
      BY <1>1, <2>4, <2>14
    <3> DEFINE e == Enter(y, s)
    <3>3. /\ SdkShape(e) /\ Kept(e, y) /\ e.screen = s /\ e.scanning = FALSE
          /\ DOMAIN e.timers = DOMAIN y.timers \cup Begun(y, s)
          /\ \A t : Copies(e.timers, t)
                        = Copies(y.timers, t) + (IF t \in Begun(y, s) THEN 1 ELSE 0)
      BY <2>12, <3>2, EnterFacts
    <3> HIDE DEF e
    <3> QED
      BY <3>1, <3>3 DEF e
  <2>16. Begun(v, v.screen) = Begun(y, s)
    BY <2>15 DEF Begun, Kept
  <2>17. /\ v.active = p /\ v.fn = f /\ v.shown = shown /\ v.copy = w.copy
         /\ v.gate = w.gate /\ v.gateNo = w.gateNo /\ v.submitting = w.submitting
         /\ v.pending = w.pending /\ v.launches = w.launches /\ v.told = w.told
         /\ y.timers = w.timers
    BY <2>8, <2>10, <2>15 DEF Kept
  <2>18. Of(v, {"verified"}) = Of(w, {"verified"})
    <3>1. \A t \in Begun(y, s) : t.do # "verified"
      BY DEF Begun, Callback
    <3> QED
      BY <2>15, <2>17, <3>1 DEF Of, BagToSet
  <2> QED
    BY <1>3, <2>2, <2>3, <2>15, <2>16, <2>17, <2>18 DEF Activated, shown
<1> QED
  BY <1>2, <1>3

-----------------------------------------------------------------------------
(* The page and its profile: the forms of a step.                          *)

LEMMA SdkFacts ==
    ASSUME OperationsInv, service = "SDK"
    PROVE  /\ row \in SdkRows /\ SdkRowOK(row, world) /\ SdkShape(world)
           /\ overlapped \in BOOLEAN /\ faults \in Nat
           /\ \A r \in Requests :
                 /\ pc[r] \in {"idle"} \cup SdkLabels
                 /\ held[r] \in SdkHeld \cup {NoValue}
                 /\ SdkRequestOK(pc[r], held[r], row, world)
<1>1. /\ row \in SdkRows /\ overlapped \in BOOLEAN /\ faults \in Nat
      /\ \A r \in Requests :
             /\ pc[r] \in {"idle"} \cup SdkLabels
             /\ held[r] \in SdkHeld \cup {NoValue}
  BY DEF OperationsInv, Typed, ORows, OHeld, LabelsOf
<1>2. SdkRowOK(row, world)
  BY DEF OperationsInv, RowOK
<1>3. \A r \in Requests : SdkRequestOK(pc[r], held[r], row, world)
  BY DEF OperationsInv, RequestOK
<1> QED
  BY <1>1, <1>2, <1>3 DEF SdkRowOK

LEMMA ShapeIsTyped ==
    ASSUME NEW w, SdkShape(w)
    PROVE  SdkWorld(w)
BY DEF SdkShape, SdkWorld

LEMMA SdkStepInv ==
    ASSUME OperationsInv, service = "SDK", NEW r \in Requests,
           NEW label \in {"idle"} \cup SdkLabels, NEW loaded \in SdkHeld \cup {NoValue},
           NEW rw \in SdkRows, NEW w, Step(r, label, loaded, rw, w), SdkRowOK(rw, w),
           label # "idle" => SdkRequestOK(label, loaded, rw, w),
           \A q \in Requests : SdkRequestOK(pc[q], held[q], row, world) =>
                                   SdkRequestOK(pc[q], held[q], rw, w)
    PROVE  OperationsInv'
<1>1. SdkWorld(w)
  BY ShapeIsTyped DEF SdkRowOK
<1>2. ShiftTyped(label, loaded, rw, w, faults, overlapped)
  BY <1>1, SdkFacts DEF ShiftTyped, LabelsOf, OHeld, ORows, OWorld
<1>3. RowOK(rw, w, overlapped)
  BY DEF RowOK
<1>4. label # "idle" => RequestOK(label, loaded, rw, w)
  BY DEF RequestOK
<1>5. OthersKept(r, rw, w)
  BY DEF OthersKept, RequestOK
<1>6. SoloOK(label, loaded, rw, w, faults) /\ ~ Owed(rw, w, faults)
  BY DEF SoloOK, Owed
<1>7. BalanceKept(r, label, loaded, rw, w, faults)
  BY NoBooks
<1>8. ShiftOK(r, label, loaded, rw, w, faults, overlapped)
  BY <1>3, <1>4, <1>5, <1>6, <1>7 DEF ShiftOK
<1> QED
  BY <1>2, <1>8, StepInv

LEMMA SdkFaultInv ==
    ASSUME OperationsInv, service = "SDK", NEW r \in Requests,
           NEW label \in {"idle"} \cup SdkLabels, NEW w,
           pc[r] # "idle", Fault(r, label, w), SdkRowOK(row, w),
           label # "idle" => SdkRequestOK(label, held[r], row, w),
           \A q \in Requests : SdkRequestOK(pc[q], held[q], row, world) =>
                                   SdkRequestOK(pc[q], held[q], row, w)
    PROVE  OperationsInv'
<1>1. SdkWorld(w)
  BY ShapeIsTyped DEF SdkRowOK
<1>2. ShiftTyped(label, held[r], row, w, faults + 1, overlapped)
  BY <1>1, SdkFacts DEF ShiftTyped, LabelsOf, OHeld, ORows, OWorld
<1>3. RowOK(row, w, overlapped)
  BY DEF RowOK
<1>4. label # "idle" => RequestOK(label, held[r], row, w)
  BY DEF RequestOK
<1>5. OthersKept(r, row, w)
  BY DEF OthersKept, RequestOK
<1>6. SoloOK(label, held[r], row, w, faults + 1) /\ ~ Owed(row, w, faults + 1)
  BY DEF SoloOK, Owed
<1>7. BalanceKept(r, label, held[r], row, w, faults + 1)
  BY NoBooks
<1>8. ShiftOK(r, label, held[r], row, w, faults + 1, overlapped)
  BY <1>3, <1>4, <1>5, <1>6, <1>7 DEF ShiftOK
<1> QED
  BY <1>2, <1>8, FaultInv

LEMMA InPageInv ==
    ASSUME OperationsInv, NEW w, InPage(w), SdkRowOK(row, w),
           \A q \in Requests : SdkRequestOK(pc[q], held[q], row, world) =>
                                   SdkRequestOK(pc[q], held[q], row, w)
    PROVE  OperationsInv'
<1>1. service = "SDK" /\ Outside(row, w)
  BY DEF InPage
<1>2. SdkWorld(w) /\ row \in SdkRows
  BY <1>1, ShapeIsTyped, SdkFacts DEF SdkRowOK
<1>3. row \in ORows(service) /\ OWorld(service, w)
  BY <1>1, <1>2 DEF ORows, OWorld
<1>4. RowOK(row, w, overlapped)
  BY <1>1 DEF RowOK
<1>5. \A q \in Requests : RequestOK(pc[q], held[q], row, world) =>
                              RequestOK(pc[q], held[q], row, w)
  BY <1>1 DEF RequestOK
<1>6. \A l, h : SoloOK(l, h, row, w, faults)
  BY <1>1 DEF SoloOK
<1>7. ~ Owed(row, w, faults)
  BY <1>1 DEF Owed
<1>8. \A n : Balanced(row, world, faults, n) => Balanced(row, w, faults, n)
  BY <1>1 DEF Balanced
<1> QED
  BY <1>1, <1>3, <1>4, <1>5, <1>6, <1>7, <1>8, OutsideInv

\* An answer under way still finds its gate, or finds that it is gone.
LEMMA AnswersKept ==
    ASSUME NEW w, world.gateNo \in Nat, w.gateNo \in Nat,
           \A q \in Requests : pc[q] \in {"idle"} \cup SdkLabels,
           \A q \in Requests : held[q] \in SdkHeld \cup {NoValue},
           \/ w.gateNo > world.gateNo
           \/ w.gateNo = world.gateNo /\ (world.gate # "closed" => w.gate # "closed")
    PROVE  \A q \in Requests : SdkRequestOK(pc[q], held[q], row, world) =>
                                   SdkRequestOK(pc[q], held[q], row, w)
<1> SUFFICES ASSUME NEW q \in Requests, SdkRequestOK(pc[q], held[q], row, world)
             PROVE  SdkRequestOK(pc[q], held[q], row, w)
  OBVIOUS
<1>1. pc[q] \in SdkLabels => held[q].gate \in Nat
  BY DEF SdkRequestOK, SdkHeld
<1>2. GateLabels \subseteq SdkLabels
  BY DEF GateLabels
<1> QED
  BY <1>1, <1>2 DEF SdkRequestOK

-----------------------------------------------------------------------------
(* The page's check and the gate's fetches.                                *)

\* v is w but for some fields.
Same(v, w, fields) ==
    /\ "copy" \in fields \/ v.copy = w.copy
    /\ "gate" \in fields \/ (v.gate = w.gate /\ v.gateNo = w.gateNo)
    /\ "submitting" \in fields \/ v.submitting = w.submitting
    /\ "pending" \in fields \/ v.pending = w.pending
    /\ "launches" \in fields \/ v.launches = w.launches
    /\ "told" \in fields \/ v.told = w.told
    /\ v.active = w.active /\ v.fn = w.fn /\ v.screen = w.screen
    /\ v.scanning = w.scanning /\ v.timers = w.timers /\ v.shown = w.shown

LEMMA CopyFacts ==
    ASSUME NEW w, SdkShape(w), NEW c \in {"none", "loading", "verified", "other"}
    PROVE  LET v == [w EXCEPT !.copy = c]
           IN  SdkShape(v) /\ Same(v, w, {"copy"}) /\ v.copy = c
BY DEF SdkShape, Same, Of

LEMMA SubmittingFacts ==
    ASSUME NEW w, SdkShape(w), NEW b \in BOOLEAN
    PROVE  LET v == [w EXCEPT !.submitting = b]
           IN  SdkShape(v) /\ Same(v, w, {"submitting"}) /\ v.submitting = b
BY DEF SdkShape, Same, Of

LEMMA PendingFacts ==
    ASSUME NEW w, SdkShape(w), NEW p \in Payloads \cup {NoPayload}
    PROVE  LET v == [w EXCEPT !.pending = p]
           IN  SdkShape(v) /\ Same(v, w, {"pending"}) /\ v.pending = p
BY DEF SdkShape, Same, Of

LEMMA GateFacts ==
    ASSUME NEW w, SdkShape(w), NEW g \in GateSteps
    PROVE  LET v == [w EXCEPT !.gate = g]
           IN  /\ SdkShape(v) /\ Same(v, w, {"gate"}) /\ v.gate = g
               /\ v.gateNo = w.gateNo
BY DEF SdkShape, Same, Of

LEMMA LaunchesFacts ==
    ASSUME NEW w, SdkShape(w), NEW n \in 0..MaxLaunches
    PROVE  LET v == [w EXCEPT !.launches = n]
           IN  SdkShape(v) /\ Same(v, w, {"launches"}) /\ v.launches = n
BY DEF SdkShape, Same, Of

LEMMA ToldFacts ==
    ASSUME NEW w, SdkShape(w), NEW f \in [Payloads -> Nat]
    PROVE  LET v == [w EXCEPT !.told = f]
           IN  SdkShape(v) /\ Same(v, w, {"told"}) /\ v.told = f
BY DEF SdkShape, Same, Of

LEMMA SdkCheckInv ==
    ASSUME OperationsInv, NEW r \in Requests, SdkCheck(r)
    PROVE  OperationsInv'
<1> DEFINE w == [world EXCEPT !.copy = "loading"]
<1>1. service = "SDK" /\ Step(r, "sdk_check", Sent, row, w)
  BY DEF SdkCheck
<1>2. /\ row \in SdkRows /\ SdkRowOK(row, world) /\ SdkShape(world)
      /\ \A q \in Requests : /\ pc[q] \in {"idle"} \cup SdkLabels
                             /\ held[q] \in SdkHeld \cup {NoValue}
  BY <1>1, SdkFacts
<1>3. SdkShape(w) /\ Same(w, world, {"copy"}) /\ w.copy = "loading"
  BY <1>2, CopyFacts
<1> HIDE DEF w
<1>4. Sent \in SdkHeld /\ Sent.gate = world.gateNo
  BY <1>2 DEF Sent, SdkHeld, SdkShape
<1>5. world.gateNo \in Nat /\ w.gateNo = world.gateNo /\ w.gate = world.gate
  BY <1>2, <1>3 DEF SdkShape, Same
<1>6. SdkRowOK(row, w)
  BY <1>2, <1>3 DEF SdkRowOK, Same, Of
<1>7. SdkRequestOK("sdk_check", Sent, row, w)
  BY <1>4, <1>5 DEF SdkRequestOK, GateLabels
<1>8. "sdk_check" \in {"idle"} \cup SdkLabels
  BY DEF SdkLabels
<1>9. \A q \in Requests : SdkRequestOK(pc[q], held[q], row, world) =>
                             SdkRequestOK(pc[q], held[q], row, w)
  BY <1>2, <1>5, AnswersKept
<1> QED
  BY <1>1, <1>2, <1>4, <1>6, <1>7, <1>8, <1>9, SdkStepInv

LEMMA GateSendsInv ==
    ASSUME OperationsInv, NEW r \in Requests,
           \/ GateSubmitIdentity(r) \/ GateScanBiometric(r) \/ GateSubmitCbn(r)
    PROVE  OperationsInv'
<1> DEFINE w == [world EXCEPT !.submitting = TRUE]
<1>1. PICK label \in {"sdk_register", "sdk_biometric", "sdk_verify"} :
          /\ service = "SDK" /\ world.gate # "closed"
          /\ Step(r, label, Sent, row, w)
  BY DEF GateSubmitIdentity, GateScanBiometric, GateSubmitCbn, GateSends
<1>2. /\ row \in SdkRows /\ SdkRowOK(row, world) /\ SdkShape(world)
      /\ \A q \in Requests : /\ pc[q] \in {"idle"} \cup SdkLabels
                             /\ held[q] \in SdkHeld \cup {NoValue}
  BY <1>1, SdkFacts
<1>3. SdkShape(w) /\ Same(w, world, {"submitting"})
  BY <1>2, SubmittingFacts
<1> HIDE DEF w
<1>4. Sent \in SdkHeld /\ Sent.gate = world.gateNo /\ Sent.pending = world.pending
  BY <1>2 DEF Sent, SdkHeld, SdkShape
<1>5. world.gateNo \in Nat /\ w.gateNo = world.gateNo /\ w.gate = world.gate
  BY <1>2, <1>3 DEF SdkShape, Same
<1>6. SdkRowOK(row, w)
  BY <1>2, <1>3 DEF SdkRowOK, Same, Of
<1>7. world.pending # NoPayload
  BY <1>1, <1>2 DEF SdkRowOK
<1>8. SdkRequestOK(label, Sent, row, w)
  BY <1>1, <1>4, <1>5, <1>7 DEF SdkRequestOK
<1>9. label \in {"idle"} \cup SdkLabels
  BY DEF SdkLabels
<1>10. \A q \in Requests : SdkRequestOK(pc[q], held[q], row, world) =>
                             SdkRequestOK(pc[q], held[q], row, w)
  BY <1>2, <1>5, AnswersKept
<1> QED
  BY <1>1, <1>2, <1>4, <1>6, <1>8, <1>9, <1>10, SdkStepInv

\* The row moves under the page: what was verified stays believed.
LEMMA BeliefKept ==
    ASSUME NEW rw, Believed(row) => Believed(rw)
    PROVE  /\ \A w : SdkRowOK(row, w) => SdkRowOK(rw, w)
           /\ \A l, h, w : SdkRequestOK(l, h, row, w) => SdkRequestOK(l, h, rw, w)
BY DEF SdkRowOK, SdkRequestOK

LEMMA AdministeredInv ==
    ASSUME OperationsInv, NEW r \in Requests, AdminVerify(r) \/ AdminSuspend(r)
    PROVE  OperationsInv'
<1>1. PICK s \in {"VERIFIED", "SUSPENDED"} :
          service = "SDK" /\ Once(r, [row EXCEPT !.status = s], world)
  BY DEF AdminVerify, AdminSuspend
<1> DEFINE rw == [row EXCEPT !.status = s]
<1>2. row \in SdkRows /\ SdkRowOK(row, world) /\ SdkShape(world)
  BY <1>1, SdkFacts
<1>3. rw \in SdkRows /\ Believed(rw) /\ Once(r, rw, world)
  BY <1>1, <1>2 DEF SdkRows, Believed
<1> HIDE DEF rw
<1>4. SdkRowOK(rw, world)
  BY <1>2, <1>3, BeliefKept
<1>5. rw \in ORows(service) /\ OWorld(service, world)
  BY <1>1, <1>2, <1>3, ShapeIsTyped DEF ORows, OWorld
<1>6. RowOK(rw, world, overlapped \/ Busy)
  BY <1>1, <1>4 DEF RowOK
<1>7. OthersKept(r, rw, world)
  BY <1>1, <1>3, BeliefKept DEF OthersKept, RequestOK
<1>8. SoloOK("idle", NoValue, rw, world, faults) /\ ~ Owed(rw, world, faults)
  BY <1>1 DEF SoloOK, Owed
<1>9. \A n : Balanced(row, world, faults, n) => Balanced(rw, world, faults, n)
  BY <1>1 DEF Balanced
<1> QED
  BY <1>3, <1>5, <1>6, <1>7, <1>8, <1>9, OnceInv

\* A step on the profile's row, at which the page does nothing.
LEMMA ProfileStepInv ==
    ASSUME OperationsInv, service = "SDK", NEW r \in Requests,
           NEW label \in SdkLabels, NEW loaded \in SdkHeld, NEW rw \in SdkRows,
           Step(r, label, loaded, rw, world), Believed(row) => Believed(rw),
           SdkRequestOK(label, loaded, rw, world)
    PROVE  OperationsInv'
<1>1. SdkRowOK(rw, world)
  BY BeliefKept, SdkFacts
<1>2. \A q \in Requests : SdkRequestOK(pc[q], held[q], row, world) =>
                             SdkRequestOK(pc[q], held[q], rw, world)
  BY BeliefKept
<1> QED
  BY <1>1, <1>2, SdkStepInv

LEMMA SdkCheckStatusInv ==
    ASSUME OperationsInv, service = "SDK", NEW r \in Requests, SdkCheckStatus(r)
    PROVE  OperationsInv'
<1> DEFINE v == row.status = "VERIFIED"
           h == [held[r] EXCEPT !.verified = v]
<1>1. pc[r] = "sdk_check" /\ Step(r, "sdk_checked", h, row, world)
  BY DEF SdkCheckStatus
<1>2. row \in SdkRows /\ SdkRequestOK(pc[r], held[r], row, world)
  BY SdkFacts
<1>3. held[r] \in SdkHeld /\ held[r].gate <= world.gateNo
  BY <1>1, <1>2 DEF SdkRequestOK, SdkLabels
<1>4. v \in BOOLEAN /\ (v => Believed(row))
  BY DEF Believed
<1> HIDE DEF v
<1>5. h \in SdkHeld /\ h.gate = held[r].gate /\ h.verified = v
  BY <1>3, <1>4 DEF SdkHeld
<1> HIDE DEF h
<1>6. SdkRequestOK("sdk_checked", h, row, world)
  BY <1>3, <1>4, <1>5 DEF SdkRequestOK, GateLabels
<1>7. "sdk_checked" \in SdkLabels
  BY DEF SdkLabels
<1> QED
  BY <1>1, <1>2, <1>5, <1>6, <1>7, ProfileStepInv

LEMMA ProfileWritesInv ==
    ASSUME OperationsInv, service = "SDK", NEW r \in Requests,
           SdkRegister(r) \/ SdkCaptureBiometric(r) \/ SdkVerify(r)
    PROVE  OperationsInv'
<1>1. row \in SdkRows /\ SdkRequestOK(pc[r], held[r], row, world)
  BY SdkFacts
<1>2. CASE SdkRegister(r)
  <2> DEFINE s == IF row.status = "NONE" THEN "PENDING" ELSE row.status
             rw == [row EXCEPT !.status = s]
  <2>1. pc[r] = "sdk_register" /\ Step(r, "sdk_registered", held[r], rw, world)
    BY <1>1, <1>2 DEF SdkRegister, Save, SdkRows
  <2>2. rw \in SdkRows /\ (Believed(row) => Believed(rw))
    BY <1>1 DEF SdkRows, Believed
  <2> HIDE DEF rw
  <2>3. held[r] \in SdkHeld
    BY <1>1, <2>1 DEF SdkRequestOK, SdkLabels
  <2>4. SdkRequestOK("sdk_registered", held[r], rw, world)
    BY <1>1, <2>1 DEF SdkRequestOK, SdkLabels, GateLabels
  <2>5. "sdk_registered" \in SdkLabels
    BY DEF SdkLabels
  <2> QED
    BY <2>1, <2>2, <2>3, <2>4, <2>5, ProfileStepInv
<1>3. CASE SdkCaptureBiometric(r)
  <2> DEFINE rw == [row EXCEPT !.biometricCaptured = TRUE]
  <2>1. pc[r] = "sdk_biometric" /\ Step(r, "sdk_captured", held[r], rw, world)
    BY <1>3 DEF SdkCaptureBiometric, Save
  <2>2. rw \in SdkRows /\ (Believed(row) => Believed(rw))
    BY <1>1 DEF SdkRows, Believed
  <2> HIDE DEF rw
  <2>3. held[r] \in SdkHeld
    BY <1>1, <2>1 DEF SdkRequestOK, SdkLabels
  <2>4. SdkRequestOK("sdk_captured", held[r], rw, world)
    BY <1>1, <2>1 DEF SdkRequestOK, SdkLabels, GateLabels
  <2>5. "sdk_captured" \in SdkLabels
    BY DEF SdkLabels
  <2> QED
    BY <2>1, <2>2, <2>3, <2>4, <2>5, ProfileStepInv
<1>4. CASE SdkVerify(r)
  <2> DEFINE rw == [row EXCEPT !.status = "VERIFIED"]
  <2>1. pc[r] = "sdk_verify" /\ Step(r, "sdk_verified", held[r], rw, world)
    BY <1>4 DEF SdkVerify, Save
  <2>2. rw \in SdkRows /\ Believed(rw)
    BY <1>1 DEF SdkRows, Believed
  <2> HIDE DEF rw
  <2>3. held[r] \in SdkHeld
    BY <1>1, <2>1 DEF SdkRequestOK, SdkLabels
  <2>4. SdkRequestOK("sdk_verified", held[r], rw, world)
    BY <1>1, <2>1, <2>2 DEF SdkRequestOK, SdkLabels, GateLabels
  <2>5. "sdk_verified" \in SdkLabels
    BY DEF SdkLabels
  <2> QED
    BY <2>1, <2>2, <2>3, <2>4, <2>5, ProfileStepInv
<1> QED
  BY <1>2, <1>3, <1>4

\* The gate takes an answer only if it is the gate that asked.
LEMMA GateMovesFacts ==
    ASSUME SdkRowOK(row, world), NEW r \in Requests,
           NEW step \in GateSteps \ {"closed"}, step = "verified" => Believed(row),
           held[r].gate = world.gateNo => world.gate # "closed"
    PROVE  LET w == GateMoves(r, step)
           IN  /\ SdkRowOK(row, w) /\ w.gateNo = world.gateNo
               /\ world.gate # "closed" => w.gate # "closed"
               /\ Same(w, world, {"gate", "submitting"})
               /\ held[r].gate = world.gateNo => w.gate = step /\ ~ w.submitting
               /\ held[r].gate # world.gateNo => w = world
<1>1. CASE held[r].gate # world.gateNo
  BY <1>1 DEF GateMoves, Same
<1>2. CASE held[r].gate = world.gateNo
  <2> DEFINE u == [world EXCEPT !.gate = step]
             w == [u EXCEPT !.submitting = FALSE]
  <2>1. SdkShape(world)
    BY DEF SdkRowOK
  <2>2. SdkShape(u) /\ Same(u, world, {"gate"}) /\ u.gate = step /\ u.gateNo = world.gateNo
    BY <2>1, GateFacts
  <2>3. GateMoves(r, step) = w
    BY <1>2, <2>1 DEF GateMoves, SdkShape
  <2> HIDE DEF u
  <2>4. SdkShape(w) /\ Same(w, u, {"submitting"}) /\ w.submitting = FALSE
    BY <2>2, SubmittingFacts
  <2> HIDE DEF w
  <2>5. /\ Same(w, world, {"gate", "submitting"}) /\ w.gate = step
        /\ w.gateNo = world.gateNo
    BY <2>2, <2>4 DEF Same
  <2>6. SdkRowOK(row, w)
    BY <1>2, <2>4, <2>5 DEF SdkRowOK, Same, Of
  <2> QED
    BY <1>2, <2>3, <2>4, <2>5, <2>6
<1> QED
  BY <1>1, <1>2

LEMMA SdkCheckedInv ==
    ASSUME OperationsInv, service = "SDK", NEW r \in Requests, SdkChecked(r)
    PROVE  OperationsInv'
<1> DEFINE c == IF held[r].verified THEN "verified" ELSE "other"
           w == [world EXCEPT !.copy = c]
<1>1. pc[r] = "sdk_checked" /\ Step(r, "idle", held[r], row, w)
  BY DEF SdkChecked, Act
<1>2. /\ row \in SdkRows /\ SdkRowOK(row, world) /\ SdkShape(world)
      /\ SdkRequestOK(pc[r], held[r], row, world)
      /\ \A q \in Requests : /\ pc[q] \in {"idle"} \cup SdkLabels
                             /\ held[q] \in SdkHeld \cup {NoValue}
  BY SdkFacts
<1>3. SdkShape(w) /\ Same(w, world, {"copy"}) /\ w.copy = c
  BY <1>2, CopyFacts
<1>4. c = "verified" => Believed(row)
  BY <1>1, <1>2 DEF SdkRequestOK
<1> HIDE DEF c, w
<1>5. SdkRowOK(row, w)
  BY <1>2, <1>3, <1>4 DEF SdkRowOK, Same, Of
<1>6. world.gateNo \in Nat /\ w.gateNo = world.gateNo /\ w.gate = world.gate
  BY <1>2, <1>3 DEF SdkShape, Same
<1>7. \A q \in Requests : SdkRequestOK(pc[q], held[q], row, world) =>
                             SdkRequestOK(pc[q], held[q], row, w)
  BY <1>2, <1>6, AnswersKept
<1> QED
  BY <1>1, <1>2, <1>5, <1>7, SdkStepInv

LEMMA GateAnsweredInv ==
    ASSUME OperationsInv, service = "SDK", NEW r \in Requests,
           GateRegistered(r) \/ GateCaptured(r)
    PROVE  OperationsInv'
<1>1. PICK step \in {"biometric", "cbn"} :
          /\ pc[r] \in {"sdk_registered", "sdk_captured"}
          /\ Step(r, "idle", held[r], row, GateMoves(r, step))
  BY DEF GateRegistered, GateCaptured, Act
<1>2. /\ row \in SdkRows /\ SdkRowOK(row, world) /\ SdkShape(world)
      /\ SdkRequestOK(pc[r], held[r], row, world)
      /\ \A q \in Requests : /\ pc[q] \in {"idle"} \cup SdkLabels
                             /\ held[q] \in SdkHeld \cup {NoValue}
  BY SdkFacts
<1>3. held[r].gate = world.gateNo => world.gate # "closed"
  BY <1>1, <1>2 DEF SdkRequestOK, GateLabels, SdkLabels
<1> DEFINE w == GateMoves(r, step)
<1>4. SdkRowOK(row, w) /\ w.gateNo = world.gateNo
      /\ (world.gate # "closed" => w.gate # "closed")
  BY <1>2, <1>3, GateMovesFacts DEF GateSteps
<1>5. Step(r, "idle", held[r], row, w)
  BY <1>1
<1> HIDE DEF w
<1>6. world.gateNo \in Nat
  BY <1>2 DEF SdkShape
<1>7. \A q \in Requests : SdkRequestOK(pc[q], held[q], row, world) =>
                             SdkRequestOK(pc[q], held[q], row, w)
  BY <1>2, <1>4, <1>6, AnswersKept
<1> QED
  BY <1>2, <1>4, <1>5, <1>7, SdkStepInv

LEMMA GateVerifiedInv ==
    ASSUME OperationsInv, service = "SDK", NEW r \in Requests, GateVerified(r)
    PROVE  OperationsInv'
<1> DEFINE c == Callback("verified", "gate", held[r].pending)
           w == GateMoves(r, "verified")
           v == More(w, c)
<1>1. /\ row \in SdkRows /\ SdkRowOK(row, world) /\ SdkShape(world)
      /\ SdkRequestOK(pc[r], held[r], row, world)
      /\ \A q \in Requests : /\ pc[q] \in {"idle"} \cup SdkLabels
                             /\ held[q] \in SdkHeld \cup {NoValue}
  BY SdkFacts
<1>2. pc[r] = "sdk_verified"
  BY DEF GateVerified
<1>3. /\ held[r] \in SdkHeld /\ held[r].pending # NoPayload /\ Believed(row)
      /\ (held[r].gate = world.gateNo => world.gate # "closed")
  BY <1>1, <1>2 DEF SdkRequestOK, GateLabels, SdkLabels
<1>4. c.for \in Payloads /\ c.do = "verified"
  BY <1>3, CallbackFacts DEF SdkHeld
<1>5. SdkRowOK(row, w) /\ w.gateNo = world.gateNo
      /\ (world.gate # "closed" => w.gate # "closed")
  BY <1>1, <1>3, GateMovesFacts DEF GateSteps
<1>6. Step(r, "idle", held[r], row, v)
  <2>1. Step(r, "idle", held[r], row,
             [w EXCEPT !.timers = @ (+) Timer("verified", "gate", held[r].pending)])
    BY DEF GateVerified, Act
  <2> HIDE DEF w
  <2>2. [w EXCEPT !.timers = @ (+) Timer("verified", "gate", held[r].pending)] = v
    BY <1>5, AddIsMore DEF SdkRowOK
  <2> QED
    BY <2>1, <2>2
<1> HIDE DEF w, c
<1>7. MoreBy(v, w, {c})
  BY <1>4, <1>5, MoreFacts DEF SdkRowOK, ModalTimers
<1> HIDE DEF v
<1>8. SdkRowOK(row, v)
  BY <1>3, <1>5, <1>7 DEF SdkRowOK, MoreBy, Kept
<1>9. v.gateNo = world.gateNo /\ (world.gate # "closed" => v.gate # "closed")
  BY <1>5, <1>7 DEF MoreBy, Kept
<1>10. world.gateNo \in Nat
  BY <1>1 DEF SdkShape
<1>11. \A q \in Requests : SdkRequestOK(pc[q], held[q], row, world) =>
                               SdkRequestOK(pc[q], held[q], row, v)
  BY <1>1, <1>9, <1>10, AnswersKept
<1> QED
  BY <1>1, <1>6, <1>8, <1>11, SdkStepInv

LEMMA SdkGoOnInv ==
    ASSUME OperationsInv, service = "SDK", NEW r \in Requests, SdkGoOn(r)
    PROVE  OperationsInv'
BY SdkCheckStatusInv, SdkCheckedInv, ProfileWritesInv, GateAnsweredInv,
   GateVerifiedInv DEF SdkGoOn

LEMMA SdkFailsInv ==
    ASSUME OperationsInv, service = "SDK", NEW r \in Requests, SdkFails(r)
    PROVE  OperationsInv'
<1>1. /\ row \in SdkRows /\ SdkRowOK(row, world) /\ SdkShape(world)
      /\ SdkRequestOK(pc[r], held[r], row, world) /\ world.gateNo \in Nat
      /\ \A q \in Requests : /\ pc[q] \in {"idle"} \cup SdkLabels
                             /\ held[q] \in SdkHeld \cup {NoValue}
  BY SdkFacts DEF SdkShape
<1>2. CASE SdkCheckFails(r)
  <2> DEFINE w == [world EXCEPT !.copy = "other"]
  <2>1. pc[r] # "idle" /\ Fault(r, "idle", w)
    BY <1>2 DEF SdkCheckFails
  <2>2. SdkShape(w) /\ Same(w, world, {"copy"}) /\ w.copy = "other"
    BY <1>1, CopyFacts
  <2> HIDE DEF w
  <2>3. SdkRowOK(row, w)
    BY <1>1, <2>2 DEF SdkRowOK, Same, Of
  <2>4. w.gateNo = world.gateNo /\ w.gate = world.gate
    BY <2>2 DEF Same
  <2>5. \A q \in Requests : SdkRequestOK(pc[q], held[q], row, world) =>
                               SdkRequestOK(pc[q], held[q], row, w)
    BY <1>1, <2>4, AnswersKept
  <2> QED
    BY <2>1, <2>3, <2>5, SdkFaultInv
<1>3. CASE GateNotRegistered(r) \/ GateNotVerified(r)
  <2>1. PICK step \in {"identity", "pending"} :
            /\ pc[r] \in {"sdk_register", "sdk_registered", "sdk_verify", "sdk_verified"}
            /\ Fault(r, "idle", GateMoves(r, step))
    BY <1>3 DEF GateNotRegistered, GateNotVerified
  <2>2. held[r].gate = world.gateNo => world.gate # "closed"
    BY <1>1, <2>1 DEF SdkRequestOK, GateLabels, SdkLabels
  <2> DEFINE w == GateMoves(r, step)
  <2>3. SdkRowOK(row, w) /\ w.gateNo = world.gateNo
        /\ (world.gate # "closed" => w.gate # "closed")
    BY <1>1, <2>2, GateMovesFacts DEF GateSteps
  <2>4. Fault(r, "idle", w) /\ pc[r] # "idle"
    BY <2>1
  <2> HIDE DEF w
  <2>5. \A q \in Requests : SdkRequestOK(pc[q], held[q], row, world) =>
                               SdkRequestOK(pc[q], held[q], row, w)
    BY <1>1, <2>3, AnswersKept
  <2> QED
    BY <2>3, <2>4, <2>5, SdkFaultInv
<1>4. CASE SdkNotCaptured(r)
  <2>1. pc[r] = "sdk_biometric" /\ Fault(r, "sdk_captured", world)
    BY <1>4 DEF SdkNotCaptured
  <2>2. SdkRequestOK("sdk_captured", held[r], row, world)
    BY <1>1, <2>1 DEF SdkRequestOK, SdkLabels, GateLabels
  <2>3. "sdk_captured" \in {"idle"} \cup SdkLabels
    BY DEF SdkLabels
  <2> QED
    BY <1>1, <2>1, <2>2, <2>3, SdkFaultInv
<1> QED
  BY <1>2, <1>3, <1>4 DEF SdkFails

-----------------------------------------------------------------------------
(* In the page.                                                            *)

\* A step of the modal, of its timers or of the host's, that leaves the gate
\* and its last step's timers alone.
LEMMA ModalStepInv ==
    ASSUME OperationsInv, NEW w, InPage(w), SdkShape(w),
           w.copy = world.copy, w.gate = world.gate, w.gateNo = world.gateNo,
           w.pending = world.pending,
           w.active # NoPayload => world.active # NoPayload,
           \A t \in DOMAIN w.timers : t.do = "verified" => t \in DOMAIN world.timers
    PROVE  OperationsInv'
<1>1. service = "SDK"
  BY DEF InPage
<1>2. /\ SdkRowOK(row, world) /\ SdkShape(world) /\ world.gateNo \in Nat
      /\ \A q \in Requests : /\ pc[q] \in {"idle"} \cup SdkLabels
                             /\ held[q] \in SdkHeld \cup {NoValue}
  BY <1>1, SdkFacts DEF SdkShape
<1>3. Of(w, {"verified"}) # {} => Of(world, {"verified"}) # {}
  BY DEF Of, BagToSet
<1>4. SdkRowOK(row, w)
  BY <1>2, <1>3 DEF SdkRowOK
<1>5. \A q \in Requests : SdkRequestOK(pc[q], held[q], row, world) =>
                             SdkRequestOK(pc[q], held[q], row, w)
  BY <1>2, AnswersKept
<1> QED
  BY <1>4, <1>5, InPageInv

LEMMA BegunFacts ==
    ASSUME NEW w, NEW s, NEW t \in Begun(w, s)
    PROVE  t.do \in {"wait", "face", "tell"} /\ t.at = s /\ t.for = w.active
BY DEF Begun, Callback

LEMMA ModalClickInv ==
    ASSUME OperationsInv, ModalClick
    PROVE  OperationsInv'
<1>1. PICK e \in From(world.fn, world.screen, "click") : InPage(Enter(world, e.to))
  BY DEF ModalClick
<1>2. service = "SDK" /\ world.active # NoPayload
  BY DEF ModalClick
<1>3. SdkShape(world)
  BY <1>2, SdkFacts
<1>4. e.to \in Screens(world.fn)
  BY <1>1 DEF From, Screens
<1> DEFINE w == Enter(world, e.to)
<1>5. /\ SdkShape(w) /\ Kept(w, world)
      /\ DOMAIN w.timers = DOMAIN world.timers \cup Begun(world, e.to)
  BY <1>2, <1>3, <1>4, EnterFacts
<1>6. InPage(w)
  BY <1>1
<1> HIDE DEF w
<1>7. \A t \in DOMAIN w.timers : t.do = "verified" => t \in DOMAIN world.timers
  BY <1>5, BegunFacts
<1> QED
  BY <1>5, <1>6, <1>7, ModalStepInv DEF Kept

LEMMA ModalScanInv ==
    ASSUME OperationsInv, ModalScan
    PROVE  OperationsInv'
<1> DEFINE do == IF ModalOf(world.fn).nested THEN "nested" ELSE "scan"
           d == Drop(world, Of(world, {"wait"}))
           m == More(d, Callback(do, d.screen, d.active))
           w == [m EXCEPT !.scanning = TRUE]
<1>1. service = "SDK" /\ world.active # NoPayload
  BY DEF ModalScan
<1>2. SdkShape(world)
  BY <1>1, SdkFacts
<1>3. SdkShape(d) /\ Kept(d, world) /\ DOMAIN d.timers \subseteq DOMAIN world.timers
  BY <1>2, DropFacts
<1>4. InPage([Start(d, do) EXCEPT !.scanning = TRUE])
  BY DEF ModalScan
<1> HIDE DEF d
<1>5. Start(d, do) = m
  BY <1>3, AddIsMore
<1>6. InPage(w)
  BY <1>4, <1>5
<1> DEFINE c == Callback(do, d.screen, d.active)
<1>7. /\ c.for = d.active /\ d.active = world.active /\ world.active \in Payloads
      /\ c.do \in {"nested", "scan"}
  BY <1>1, <1>2, <1>3, CallbackFacts DEF Kept, SdkShape
<1> HIDE DEF c, do
<1>8. MoreBy(m, d, {c})
  <2>1. c.for \in Payloads /\ d.active # NoPayload
    BY <1>1, <1>7
  <2>2. MoreBy(More(d, c), d, {c})
    BY <1>3, <2>1, MoreFacts
  <2> QED
    BY <2>2 DEF c
<1> HIDE DEF m
<1>9. SdkShape(w) /\ Kept(w, m) /\ w.timers = m.timers
  BY <1>8, ScanningFacts DEF MoreBy
<1> HIDE DEF w
<1>10. \A t \in DOMAIN w.timers : t.do = "verified" => t \in DOMAIN world.timers
  BY <1>3, <1>7, <1>8, <1>9 DEF MoreBy
<1> QED
  BY <1>3, <1>6, <1>8, <1>9, <1>10, ModalStepInv DEF Kept, MoreBy

\* onSuccess is called.
Tells(w, p) == [w EXCEPT !.told = [w.told EXCEPT ![p] = w.told[p] + 1]]

LEMMA TellsFacts ==
    ASSUME NEW w, SdkShape(w), NEW p \in Payloads
    PROVE  LET v == Tells(w, p)
           IN  /\ SdkShape(v) /\ Same(v, w, {"told"}) /\ v.told[p] = w.told[p] + 1
               /\ \A q \in Payloads \ {p} : v.told[q] = w.told[q]
               /\ v = [w EXCEPT !.told[p] = @ + 1]
<1> DEFINE f == [w.told EXCEPT ![p] = w.told[p] + 1]
           v == [w EXCEPT !.told = f]
<1>1. w.told \in [Payloads -> Nat]
  BY DEF SdkShape
<1>2. /\ f \in [Payloads -> Nat] /\ f[p] = w.told[p] + 1
      /\ \A q \in Payloads \ {p} : f[q] = w.told[q]
  BY <1>1
<1>3. v = [w EXCEPT !.told[p] = @ + 1]
  BY <1>1 DEF SdkShape
<1> HIDE DEF f
<1>4. SdkShape(v) /\ Same(v, w, {"told"}) /\ v.told = f
  BY <1>2, ToldFacts
<1> HIDE DEF v
<1>5. Tells(w, p) = v
  BY DEF Tells, v, f
<1> QED
  BY <1>2, <1>3, <1>4, <1>5

LEMMA ModalTellInv ==
    ASSUME OperationsInv, ModalTell
    PROVE  OperationsInv'
<1> DEFINE p == world.active
           w == Tells(world, p)
<1>1. service = "SDK" /\ world.active # NoPayload
  BY DEF ModalTell
<1>2. SdkShape(world) /\ p \in Payloads
  BY <1>1, SdkFacts DEF SdkShape
<1>3. SdkShape(w) /\ Same(w, world, {"told"}) /\ w = [world EXCEPT !.told[p] = @ + 1]
  BY <1>2, TellsFacts
<1>4. InPage(w)
  BY <1>3 DEF ModalTell
<1> HIDE DEF w
<1> QED
  BY <1>3, <1>4, ModalStepInv DEF Same

LEMMA ModalTimerFiresInv ==
    ASSUME OperationsInv, ModalTimerFires
    PROVE  OperationsInv'
<1>1. service = "SDK"
  BY DEF ModalTimerFires
<1>2. SdkShape(world) /\ SdkRowOK(row, world)
  BY <1>1, SdkFacts
<1>3. PICK t \in Of(world, {"wait", "scan", "face", "nested"}) :
         LET w == Ended(world, t)
         IN  \/ /\ t.do = "face"
                /\ InPage([Start(w, "scan") EXCEPT !.scanning = TRUE])
             \/ /\ t.do = "wait"
                /\ \E e \in From(w.fn, t.at, "wait") : InPage(Enter(w, e.to))
             \/ /\ t.do = "scan"
                /\ \E e \in From(w.fn, t.at, "scan") :
                      InPage(IF e.to = t.at THEN [w EXCEPT !.scanning = FALSE]
                             ELSE Enter(w, e.to))
             \/ /\ t.do = "nested"
                /\ \E e \in From(w.fn, t.at, "scan") :
                      InPage([Enter(w, e.to) EXCEPT !.timers =
                                @ (+) Timer("tell", e.to, t.for)])
  BY DEF ModalTimerFires
<1> DEFINE w == Ended(world, t)
<1>4. /\ t \in BagToSet(world.timers) /\ t.for \in Payloads
      /\ world.active # NoPayload
  BY <1>2, <1>3 DEF Of, SdkShape, ModalTimers
<1>5. /\ SdkShape(w) /\ Kept(w, world) /\ DOMAIN w.timers \subseteq DOMAIN world.timers
  BY <1>2, <1>4, EndedFacts
<1>6. w.active = world.active /\ w.active \in Payloads
  BY <1>4, <1>5 DEF Kept, SdkShape
<1>7. \/ /\ t.do = "face"
         /\ InPage([Start(w, "scan") EXCEPT !.scanning = TRUE])
      \/ \E e \in From(w.fn, t.at, "wait") \cup From(w.fn, t.at, "scan") :
            \/ InPage(Enter(w, e.to))
            \/ InPage([w EXCEPT !.scanning = FALSE])
            \/ InPage([Enter(w, e.to) EXCEPT !.timers = @ (+) Timer("tell", e.to, t.for)])
  BY <1>3
<1> HIDE DEF w
<1>8. CASE InPage([Start(w, "scan") EXCEPT !.scanning = TRUE])
  <2> DEFINE c == Callback("scan", w.screen, w.active)
             m == More(w, c)
             v == [m EXCEPT !.scanning = TRUE]
  <2>1. InPage(v)
    <3>1. Start(w, "scan") = m
      BY <1>5, AddIsMore
    <3> QED
      BY <1>8, <3>1
  <2>2. c.for \in Payloads /\ c.do = "scan"
    BY <1>6, CallbackFacts
  <2> HIDE DEF c
  <2>3. MoreBy(m, w, {c})
    BY <1>4, <1>5, <1>6, <2>2, MoreFacts
  <2> HIDE DEF m
  <2>4. SdkShape(v) /\ Kept(v, m) /\ v.timers = m.timers
    BY <2>3, ScanningFacts DEF MoreBy
  <2> HIDE DEF v
  <2>5. \A u \in DOMAIN v.timers : u.do = "verified" => u \in DOMAIN world.timers
    BY <1>5, <2>2, <2>3, <2>4 DEF MoreBy
  <2> QED
    BY <1>5, <2>1, <2>3, <2>4, <2>5, ModalStepInv DEF Kept, MoreBy
<1>9. ASSUME NEW e \in From(w.fn, t.at, "wait") \cup From(w.fn, t.at, "scan"),
             \/ InPage(Enter(w, e.to))
             \/ InPage([w EXCEPT !.scanning = FALSE])
             \/ InPage([Enter(w, e.to) EXCEPT !.timers = @ (+) Timer("tell", e.to, t.for)])
      PROVE  OperationsInv'
  <2>1. e.to \in Screens(w.fn)
    BY <1>9 DEF From, Screens
  <2> DEFINE v == Enter(w, e.to)
  <2>2. /\ SdkShape(v) /\ Kept(v, w) /\ DOMAIN v.timers = DOMAIN w.timers \cup Begun(w, e.to)
    BY <1>4, <1>5, <1>6, <2>1, EnterFacts
  <2>3. \A u \in DOMAIN v.timers : u.do = "verified" => u \in DOMAIN world.timers
    BY <1>5, <2>2, BegunFacts
  <2>4. CASE InPage(v)
    <3> HIDE DEF v
    <3> QED
      BY <1>5, <2>2, <2>3, <2>4, ModalStepInv DEF Kept
  <2>5. CASE InPage([w EXCEPT !.scanning = FALSE])
    <3> DEFINE u == [w EXCEPT !.scanning = FALSE]
    <3>1. SdkShape(u) /\ Kept(u, w) /\ u.timers = w.timers
      BY <1>5, ScanningFacts
    <3>2. InPage(u)
      BY <2>5
    <3> HIDE DEF u
    <3> QED
      BY <1>5, <3>1, <3>2, ModalStepInv DEF Kept
  <2>6. CASE InPage([v EXCEPT !.timers = @ (+) Timer("tell", e.to, t.for)])
    <3> DEFINE c == Callback("tell", e.to, t.for)
               m == More(v, c)
    <3> HIDE DEF v
    <3>1. InPage(m)
      BY <2>2, <2>6, AddIsMore
    <3>2. c.for \in Payloads /\ c.do = "tell"
      BY <1>4, CallbackFacts
    <3> HIDE DEF c
    <3>3. MoreBy(m, v, {c})
      BY <2>2, <3>2, MoreFacts DEF ModalTimers
    <3> HIDE DEF m
    <3>4. \A u \in DOMAIN m.timers : u.do = "verified" => u \in DOMAIN world.timers
      BY <2>3, <3>2, <3>3 DEF MoreBy
    <3> QED
      BY <1>5, <2>2, <3>1, <3>3, <3>4, ModalStepInv DEF Kept, MoreBy
  <2> QED
    BY <1>9, <2>4, <2>5, <2>6
<1> QED
  BY <1>7, <1>8, <1>9

LEMMA HostTimerFiresInv ==
    ASSUME OperationsInv, HostTimerFires
    PROVE  OperationsInv'
<1>1. service = "SDK"
  BY DEF HostTimerFires
<1>2. SdkShape(world)
  BY <1>1, SdkFacts
<1>3. PICK t \in Of(world, {"tell", "orphan"}) :
         IF t.do = "tell" THEN InPage([Ended(world, t) EXCEPT !.told[t.for] = @ + 1])
         ELSE InPage([Ended(world, t) EXCEPT !.timers = @ (+) Timer("tell", "done", t.for)])
  BY DEF HostTimerFires
<1> DEFINE w == Ended(world, t)
           c == Callback("tell", "done", t.for)
<1>4. t \in BagToSet(world.timers) /\ t.for \in Payloads
  BY <1>2, <1>3 DEF Of, SdkShape
<1>5. /\ SdkShape(w) /\ Kept(w, world) /\ DOMAIN w.timers \subseteq DOMAIN world.timers
  BY <1>2, <1>4, EndedFacts
<1>6. c.for \in Payloads /\ c.do = "tell"
  BY <1>4, CallbackFacts
<1>7. \/ InPage([w EXCEPT !.told[t.for] = @ + 1])
      \/ InPage([w EXCEPT !.timers = @ (+) Timer("tell", "done", t.for)])
  BY <1>3
<1> HIDE DEF w
<1>8. InPage(Tells(w, t.for)) \/ InPage(More(w, c))
  <2>1. [w EXCEPT !.told[t.for] = @ + 1] = Tells(w, t.for)
    BY <1>4, <1>5, TellsFacts
  <2>2. [w EXCEPT !.timers = @ (+) Timer("tell", "done", t.for)] = More(w, c)
    BY <1>5, AddIsMore
  <2> QED
    BY <1>7, <2>1, <2>2
<1>9. CASE InPage(Tells(w, t.for))
  <2> DEFINE v == Tells(w, t.for)
  <2>1. SdkShape(v) /\ Same(v, w, {"told"})
    BY <1>4, <1>5, TellsFacts
  <2> HIDE DEF v
  <2>2. InPage(v)
    BY <1>9 DEF v
  <2> QED
    BY <1>5, <2>1, <2>2, ModalStepInv DEF Same, Kept
<1>10. CASE InPage(More(w, c))
  <2> DEFINE m == More(w, c)
  <2> HIDE DEF c
  <2>1. MoreBy(m, w, {c})
    BY <1>5, <1>6, MoreFacts DEF ModalTimers
  <2>2. InPage(m)
    BY <1>10
  <2> HIDE DEF m
  <2>3. \A u \in DOMAIN m.timers : u.do = "verified" => u \in DOMAIN world.timers
    BY <1>5, <1>6, <2>1 DEF MoreBy
  <2> QED
    BY <1>5, <2>1, <2>2, <2>3, ModalStepInv DEF MoreBy, Kept
<1> QED
  BY <1>8, <1>9, <1>10

\* The page when the gate is closed, or opens, or what it opens.
LEMMA GateStepInv ==
    ASSUME OperationsInv, NEW w, InPage(w), SdkShape(w),
           w.gate # "closed" => w.pending # NoPayload,
           \/ w.copy = "verified" \/ w.gate = "verified"
              \/ w.active # NoPayload \/ Of(w, {"verified"}) # {}
              => \/ world.copy = "verified" \/ world.gate = "verified"
                 \/ world.active # NoPayload \/ Of(world, {"verified"}) # {},
           \/ w.gateNo > world.gateNo
           \/ w.gateNo = world.gateNo /\ (world.gate # "closed" => w.gate # "closed")
    PROVE  OperationsInv'
<1>1. service = "SDK"
  BY DEF InPage
<1>2. /\ SdkRowOK(row, world) /\ world.gateNo \in Nat /\ w.gateNo \in Nat
      /\ \A q \in Requests : /\ pc[q] \in {"idle"} \cup SdkLabels
                             /\ held[q] \in SdkHeld \cup {NoValue}
  BY <1>1, SdkFacts DEF SdkShape
<1>3. SdkRowOK(row, w)
  BY <1>2 DEF SdkRowOK
<1>4. \A q \in Requests : SdkRequestOK(pc[q], held[q], row, world) =>
                             SdkRequestOK(pc[q], held[q], row, w)
  BY <1>2, AnswersKept
<1> QED
  BY <1>3, <1>4, InPageInv

LEMMA SdkLaunchInv ==
    ASSUME OperationsInv, SdkLaunch
    PROVE  OperationsInv'
<1> DEFINE n == world.launches + 1
           w == [world EXCEPT !.launches = n]
<1>1. service = "SDK" /\ world.launches < MaxLaunches
  BY DEF SdkLaunch
<1>2. SdkShape(world) /\ SdkRowOK(row, world)
  BY <1>1, SdkFacts
<1>3. n \in 0..MaxLaunches /\ n \in Payloads /\ n # NoPayload
  BY <1>1, <1>2, SdkAssumption DEF SdkShape, Payloads, NoPayload, SdkAssumption
<1>4. /\ world.copy = "verified" => \E v \in Activate(w, w.launches) : InPage(v)
      /\ world.copy # "verified" =>
             InPage([w EXCEPT !.pending = w.launches,
                              !.gate = IF w.gate = "closed" THEN "identity" ELSE w.gate])
  <2>1. w = [world EXCEPT !.launches = @ + 1]
    BY <1>2 DEF SdkShape
  <2> DEFINE u == [world EXCEPT !.launches = @ + 1]
  <2>2. /\ world.copy = "verified" => \E v \in Activate(u, u.launches) : InPage(v)
        /\ world.copy # "verified" =>
               InPage([u EXCEPT !.pending = u.launches,
                                !.gate = IF @ = "closed" THEN "identity" ELSE @])
    BY DEF SdkLaunch
  <2>3. [u EXCEPT !.pending = u.launches, !.gate = IF @ = "closed" THEN "identity" ELSE @]
         = [u EXCEPT !.pending = u.launches,
                     !.gate = IF u.gate = "closed" THEN "identity" ELSE u.gate]
    BY <1>2 DEF SdkShape
  <2> HIDE DEF u
  <2>4. u = w
    BY <2>1 DEF u
  <2> QED
    BY <2>2, <2>3, <2>4
<1> HIDE DEF n
<1>5. SdkShape(w) /\ Same(w, world, {"launches"}) /\ w.launches = n
  BY <1>2, <1>3, LaunchesFacts
<1> HIDE DEF w
<1>6. CASE world.copy = "verified"
  <2>1. PICK v \in Activate(w, n) : InPage(v)
    BY <1>4, <1>5, <1>6
  <2>2. /\ SdkShape(v) /\ v.copy = w.copy /\ v.gate = w.gate /\ v.gateNo = w.gateNo
        /\ v.pending = w.pending
    <3>1. Activated(v, w, n)
      BY <1>3, <1>5, <2>1, ActivateFacts
    <3> QED
      BY <3>1 DEF Activated
  <2>3. /\ v.gateNo = world.gateNo /\ v.gate = world.gate /\ v.pending = world.pending
    BY <1>5, <2>2 DEF Same
  <2> QED
    BY <1>2, <1>6, <2>1, <2>2, <2>3, GateStepInv DEF SdkRowOK
<1>7. CASE world.copy # "verified"
  <2> DEFINE g == IF w.gate = "closed" THEN "identity" ELSE w.gate
             u == [w EXCEPT !.pending = n]
             v == [u EXCEPT !.gate = g]
  <2>1. InPage(v)
    BY <1>4, <1>5, <1>7
  <2>2. g \in GateSteps /\ g # "closed" /\ (g = "verified" => w.gate = "verified")
    BY <1>5 DEF SdkShape, GateSteps
  <2> HIDE DEF g
  <2>3. SdkShape(u) /\ Same(u, w, {"pending"}) /\ u.pending = n
    BY <1>3, <1>5, PendingFacts
  <2> HIDE DEF u
  <2>4. SdkShape(v) /\ Same(v, u, {"gate"}) /\ v.gate = g /\ v.gateNo = u.gateNo
    BY <2>2, <2>3, GateFacts
  <2> HIDE DEF v
  <2>5. /\ v.gateNo = world.gateNo /\ v.pending # NoPayload /\ v.copy = world.copy
        /\ v.active = world.active /\ v.timers = world.timers
        /\ (v.gate = "verified" => world.gate = "verified") /\ v.gate # "closed"
    BY <1>3, <1>5, <2>2, <2>3, <2>4 DEF Same
  <2> QED
    BY <2>1, <2>4, <2>5, GateStepInv DEF Of
<1> QED
  BY <1>6, <1>7

LEMMA GateClosesInv ==
    ASSUME OperationsInv, SdkClose \/ GateAbort
    PROVE  OperationsInv'
<1>1. service = "SDK"
  BY DEF SdkClose, GateAbort
<1>2. SdkShape(world) /\ SdkRowOK(row, world)
  BY <1>1, SdkFacts
<1>3. CASE SdkClose
  <2> DEFINE u == Unmount(world)
             v == CloseGate(u)
  <2>1. InPage(v)
    BY <1>3 DEF SdkClose
  <2>2. /\ SdkShape(u) /\ u.copy = world.copy /\ u.gate = world.gate
        /\ u.gateNo = world.gateNo /\ u.active = NoPayload
        /\ DOMAIN u.timers = (DOMAIN world.timers \ Of(world, ModalTimers)) \cup Orphans(world)
    BY <1>2, UnmountFacts
  <2> HIDE DEF u
  <2>3. /\ SdkShape(v) /\ v.copy = u.copy /\ v.gate = "closed"
        /\ v.gateNo = (IF u.gate = "closed" THEN u.gateNo ELSE u.gateNo + 1)
        /\ v.active = u.active /\ v.timers = u.timers
    BY <2>2, CloseGateFacts
  <2> HIDE DEF v
  <2>4. world.gateNo \in Nat
    BY <1>2 DEF SdkShape
  <2>5. \A t \in Orphans(world) : t.do = "orphan"
    BY DEF Orphans, Callback
  <2>6. Of(v, {"verified"}) # {} => Of(world, {"verified"}) # {}
    BY <2>2, <2>3, <2>5 DEF Of, BagToSet
  <2>7. \/ v.gateNo > world.gateNo
        \/ v.gateNo = world.gateNo /\ (world.gate # "closed" => v.gate # "closed")
    BY <2>2, <2>3, <2>4
  <2> QED
    BY <2>1, <2>2, <2>3, <2>6, <2>7, GateStepInv
<1>4. CASE GateAbort
  <2> DEFINE v == CloseGate(world)
  <2>1. InPage(v)
    BY <1>4 DEF GateAbort
  <2>2. /\ SdkShape(v) /\ v.copy = world.copy /\ v.gate = "closed"
        /\ v.gateNo = (IF world.gate = "closed" THEN world.gateNo ELSE world.gateNo + 1)
        /\ v.active = world.active /\ v.timers = world.timers
    BY <1>2, CloseGateFacts
  <2> HIDE DEF v
  <2>3. world.gateNo \in Nat
    BY <1>2 DEF SdkShape
  <2>4. Of(v, {"verified"}) = Of(world, {"verified"})
    BY <2>2 DEF Of
  <2>5. \/ v.gateNo > world.gateNo
        \/ v.gateNo = world.gateNo /\ (world.gate # "closed" => v.gate # "closed")
    BY <2>2, <2>3
  <2> QED
    BY <2>1, <2>2, <2>4, <2>5, GateStepInv
<1> QED
  BY <1>3, <1>4

LEMMA GateOpensInv ==
    ASSUME OperationsInv, GateOpens
    PROVE  OperationsInv'
<1>1. service = "SDK"
  BY DEF GateOpens
<1>2. SdkShape(world) /\ SdkRowOK(row, world)
  BY <1>1, SdkFacts
<1>3. PICK t \in Of(world, {"verified"}) :
         \E v \in Activate([CloseGate(Ended(world, t)) EXCEPT !.copy = "verified"], t.for) :
             InPage([v EXCEPT !.pending = NoPayload])
  BY DEF GateOpens
<1> DEFINE e == Ended(world, t)
           g == CloseGate(e)
           w == [g EXCEPT !.copy = "verified"]
<1>4. PICK v \in Activate(w, t.for) : InPage([v EXCEPT !.pending = NoPayload])
  BY <1>3
<1>5. t \in BagToSet(world.timers) /\ t.for \in Payloads
  BY <1>2, <1>3 DEF Of, SdkShape
<1>6. SdkShape(e) /\ Kept(e, world)
  BY <1>2, <1>5, EndedFacts
<1> HIDE DEF e
<1>7. /\ SdkShape(g) /\ g.gate = "closed"
      /\ g.gateNo = (IF e.gate = "closed" THEN e.gateNo ELSE e.gateNo + 1)
  BY <1>6, CloseGateFacts
<1> HIDE DEF g
<1>8. SdkShape(w) /\ Same(w, g, {"copy"}) /\ w.copy = "verified"
  BY <1>7, CopyFacts
<1> HIDE DEF w
<1>9. SdkShape(v) /\ v.gate = w.gate /\ v.gateNo = w.gateNo
  <2>1. Activated(v, w, t.for)
    BY <1>4, <1>5, <1>8, ActivateFacts
  <2> QED
    BY <2>1 DEF Activated
<1> DEFINE u == [v EXCEPT !.pending = NoPayload]
<1>10. SdkShape(u) /\ Same(u, v, {"pending"}) /\ InPage(u)
  BY <1>4, <1>9, PendingFacts
<1> HIDE DEF u
<1>11. world.gateNo \in Nat /\ e.gateNo = world.gateNo /\ e.gate = world.gate
  BY <1>2, <1>6 DEF SdkShape, Kept
<1>12. /\ u.gate = "closed"
       /\ \/ u.gateNo > world.gateNo
          \/ u.gateNo = world.gateNo /\ (world.gate # "closed" => u.gate # "closed")
  BY <1>7, <1>8, <1>9, <1>10, <1>11 DEF Same
<1>13. Of(world, {"verified"}) # {}
  BY <1>3
<1> QED
  BY <1>10, <1>12, <1>13, GateStepInv

LEMMA SdkPageInv ==
    ASSUME OperationsInv, SdkPage
    PROVE  OperationsInv'
BY SdkLaunchInv, GateClosesInv, ModalClickInv, ModalScanInv, ModalTellInv,
   ModalTimerFiresInv, HostTimerFiresInv, GateOpensInv DEF SdkPage

LEMMA SdkNextInv ==
    ASSUME OperationsInv, NEW r \in Requests,
           \/ SdkCall(r)
           \/ service = "SDK" /\ (SdkGoOn(r) \/ SdkFails(r))
    PROVE  OperationsInv'
BY SdkCheckInv, GateSendsInv, AdministeredInv, SdkGoOnInv, SdkFailsInv DEF SdkCall

-----------------------------------------------------------------------------
(* The whole.                                                              *)

LEMMA FirstRowsTyped ==
    ASSUME OInit
    PROVE  row \in ORows(service)
<1>1. service \in OServices /\ row \in FirstRows(service)
  BY DEF OInit
<1>2. TerminalEmpty \in TerminalRows /\ BankEmpty \in BankRows /\ FlagEmpty \in FlagRows
  BY DEF TerminalEmpty, TerminalRows, BankEmpty, BankRows, BankStatuses, FlagEmpty,
         FlagRows
<1>3. VerifyEmpty \in VerifyRows
  BY VerifyAssumption DEF VerifyEmpty, VerifyRows
<1>4. VaultEmpty \in VaultRows
  BY DEF VaultEmpty, VaultRows, PartnerStatuses
<1>5. LicenceSeeds \subseteq LicenceRows
  <2> SUFFICES ASSUME NEW end \in Ends
               PROVE  [status |-> ComputeStatus(end), licenseEndDate |-> end,
                       apiAccessRestricted |-> end = "past",
                       expiring |-> end # "far"] \in LicenceRows
    BY Zenon DEF LicenceSeeds
  <2>1. ComputeStatus(end) \in LicenceStatuses
    BY DEF Ends, ComputeStatus, LicenceStatuses
  <2>2. (end = "past") \in BOOLEAN /\ (end # "far") \in BOOLEAN
    OBVIOUS
  <2> QED
    BY <2>1, <2>2, Zenon DEF LicenceRows
<1>6. SdkEmpty \in SdkRows /\ AnchorEmpty \in AnchorRows
  BY DEF SdkEmpty, SdkRows, AnchorEmpty, AnchorRows
<1> QED
  BY <1>1, <1>2, <1>3, <1>4, <1>5, <1>6 DEF OServices, FirstRows, ORows

LEMMA FirstPage == SdkShape(SdkNothing)
<1>1. 0 \in 0..MaxLaunches
  BY SdkAssumption
<1>2. IsABag(SdkNothing.timers) /\ BagToSet(SdkNothing.timers) = {}
  BY DEF SdkNothing, EmptyBag, SetToBag, IsABag, BagToSet
<1>3. SdkNothing \in
          [copy : {"none", "loading", "verified", "other"}, gate : GateSteps,
           gateNo : Nat, submitting : BOOLEAN,
           pending : Payloads \cup {NoPayload}, active : Payloads \cup {NoPayload},
           launches : 0..MaxLaunches, fn : Functions \cup {"none"},
           screen : {SdkNothing.screen}, scanning : BOOLEAN,
           timers : {SdkNothing.timers},
           told : [Payloads -> Nat], shown : SUBSET Payloads]
  BY <1>1, Zenon DEF SdkNothing, GateSteps
<1>4. SdkNothing.active = NoPayload
  BY DEF SdkNothing
<1> QED
  BY <1>2, <1>3, <1>4 DEF SdkShape, Of

LEMMA InitInv ==
    ASSUME OInit
    PROVE  OperationsInv
<1>1. /\ service \in OServices /\ row \in FirstRows(service)
      /\ world = Nothing(service)
      /\ pc = [r \in Requests |-> "idle"] /\ held = [r \in Requests |-> NoValue]
      /\ overlapped = FALSE /\ faults = 0
  BY DEF OInit, FrameInit
<1>2. row \in ORows(service)
  BY FirstRowsTyped
<1>3. \A r \in Requests : pc[r] = "idle" /\ held[r] = NoValue
  BY <1>1
<1>4. OWorld(service, world)
  <2>1. TerminalNothing \in TerminalWorlds /\ VerifyNothing \in VerifyWorlds
    BY DEF TerminalNothing, TerminalWorlds, VerifyNothing, VerifyWorlds
  <2>2. BankNothing \in BankWorlds /\ VaultNothing \in VaultWorlds
    BY DEF BankNothing, BankWorlds, VaultNothing, VaultWorlds
  <2>3. ProofNothing \in ProofWorlds /\ AnchorNothing \in AnchorWorlds
    BY DEF ProofNothing, ProofWorlds, AnchorNothing, AnchorWorlds
  <2>4. SdkWorld(SdkNothing)
    BY FirstPage, ShapeIsTyped
  <2> QED
    BY <1>1, <2>1, <2>2, <2>3, <2>4 DEF OServices, Nothing, OWorld
<1>5. Typed
  BY <1>1, <1>2, <1>3, <1>4 DEF Typed
<1>6. /\ service = "TERMINAL" => row = TerminalEmpty /\ world = TerminalNothing
      /\ service = "VERIFY" => row = VerifyEmpty /\ world = VerifyNothing
      /\ service = "BANK" => row = BankEmpty /\ world = BankNothing
      /\ service = "LICENCE" => row \in LicenceSeeds
      /\ service = "FLAGS" => row = FlagEmpty
      /\ service = "VAULT" => row = VaultEmpty /\ world = VaultNothing
      /\ service = "SDK" => row = SdkEmpty /\ world = SdkNothing
      /\ service = "PROOF" => world = ProofNothing
      /\ service = "ANCHOR" => row = AnchorEmpty /\ world = AnchorNothing
  BY <1>1 DEF FirstRows, Nothing
<1>7. service = "VAULT" => ActiveOf(row) = {} /\ Len(row.vaults) = 0
  BY <1>6 DEF ActiveOf, VaultEmpty
<1>8. service = "LICENCE" =>
          /\ row.status = "SUSPENDED" => row.licenseEndDate = "past"
          /\ row.apiAccessRestricted <=> row.status = "SUSPENDED"
          /\ row.licenseEndDate = "far" => ~ row.expiring
  <2> SUFFICES ASSUME service = "LICENCE"
               PROVE  /\ row.status = "SUSPENDED" => row.licenseEndDate = "past"
                      /\ row.apiAccessRestricted <=> row.status = "SUSPENDED"
                      /\ row.licenseEndDate = "far" => ~ row.expiring
    OBVIOUS
  <2>1. PICK end \in Ends :
            row = [status |-> ComputeStatus(end), licenseEndDate |-> end,
                   apiAccessRestricted |-> end = "past", expiring |-> end # "far"]
    BY <1>6 DEF LicenceSeeds
  <2>2. /\ row.status = ComputeStatus(end) /\ row.licenseEndDate = end
        /\ row.apiAccessRestricted = (end = "past") /\ row.expiring = (end # "far")
    BY <2>1, Zenon
  <2>3. ComputeStatus(end) = "SUSPENDED" <=> end = "past"
    BY DEF ComputeStatus, Ends
  <2> QED
    BY <2>2, <2>3
<1>9. RowOK(row, world, overlapped)
  <2>1. service = "SDK" => SdkRowOK(row, world)
    <3>1. Of(SdkNothing, {"verified"}) = {}
      BY DEF Of, SdkNothing, EmptyBag, SetToBag, BagToSet
    <3>2. SdkNothing.gate = "closed" /\ SdkNothing.copy = "none"
          /\ SdkNothing.active = NoPayload
      BY DEF SdkNothing
    <3> QED
      BY <1>6, <3>1, <3>2, FirstPage DEF SdkRowOK
  <2>2. service = "PROOF" => ProofRowOK(row, world)
    BY <1>6 DEF ProofRowOK, ProofNothing
  <2>3. service = "ANCHOR" => AnchorRowOK(row, world)
    BY <1>6 DEF AnchorRowOK, AnchorEmpty, AnchorNothing
  <2>4. service = "TERMINAL" => TerminalRowOK(row, world, overlapped)
    BY <1>6 DEF TerminalRowOK, TerminalEmpty, TerminalNothing
  <2>5. service = "VERIFY" => ~ world.unmarked
    BY <1>6 DEF VerifyNothing
  <2> QED
    BY <1>7, <1>8, <2>1, <2>2, <2>3, <2>4, <2>5 DEF RowOK, LicenceRowOK, VaultRowOK
<1>10. \A r \in Requests : RequestOK(pc[r], held[r], row, world)
  BY <1>3, IdleRelies
<1>11. Solo
  <2>1. SoloOK("idle", NoValue, row, world, faults)
    <3>1. service = "TERMINAL" => TerminalSoloOK("idle", NoValue, row, world, faults)
      BY <1>6 DEF TerminalSoloOK, TerminalEmpty, TerminalNothing
    <3>2. service = "BANK" => BankSoloOK("idle", NoValue, row, world)
      <4>1. service = "BANK" => /\ row.approvedAt = FALSE /\ row.rejectedAt = FALSE
                                /\ world.approved = FALSE /\ world.rejected = FALSE
        BY <1>6 DEF BankEmpty, BankNothing
      <4> QED
        BY <4>1, Zenon DEF BankSoloOK
    <3>3. service = "FLAGS" => FlagSoloOK("idle", row)
      BY <1>6 DEF FlagSoloOK, FlagEmpty
    <3>4. service = "VAULT" => VaultSoloOK("idle", NoValue, row, faults)
      <4>1. Cardinality({}) = 0
        BY FS_EmptySet
      <4>2. service = "VAULT" => row.totalVaultsFlipped = 0
        BY <1>6 DEF VaultEmpty
      <4>3. service = "VAULT" => Cardinality(ActiveOf(row)) = 0
        BY <1>7, <4>1
      <4> QED
        BY <4>2, <4>3 DEF VaultSoloOK, FlipLabels
    <3> QED
      BY <3>1, <3>2, <3>3, <3>4 DEF SoloOK, VerifySoloOK, LicenceSoloOK
  <2> QED
    BY <1>3, <2>1 DEF Solo
<1>12. Owing
  <2>1. service = "VERIFY" => ~ AllFailed(row)
    BY <1>6, VerifyAssumption DEF AllFailed, VerifyEmpty
  <2>2. service = "FLAGS" => ~ row.redFlagTriggered
    BY <1>6 DEF FlagEmpty
  <2> QED
    BY <1>8, <2>1, <2>2 DEF Owing, Owed
<1>13. Counted
  <2>1. \A k \in Kinds : InHand(k) = {}
    BY <1>3 DEF InHand
  <2>2. IsFiniteSet({}) /\ Cardinality({}) = 0
    BY FS_EmptySet
  <2> DEFINE n == [k \in Kinds |-> Cardinality(InHand(k))]
  <2>3. n["uncounted"] = 0 /\ n["unrecorded"] = 0 /\ n["flips"] = 0
    BY <2>1, <2>2 DEF Kinds
  <2> HIDE DEF n
  <2>4. service = "BANK" => row.pushCount = 0 /\ row.pushes = 0
    BY <1>6 DEF BankEmpty
  <2>5. service = "VERIFY" => row.mirrored = 0 /\ world.answered = 0
    BY <1>6 DEF VerifyEmpty, VerifyNothing
  <2>6. service = "VAULT" => /\ world.nubans = 0 /\ row.totalVaultsCreated = 0
                             /\ row.totalVaultsFlipped = 0
    BY <1>6 DEF VaultEmpty, VaultNothing
  <2>7. Balanced(row, world, faults, n)
    <3>1. CASE service = "BANK"
      BY <2>3, <2>4, <3>1 DEF Balanced
    <3>2. CASE service = "VERIFY"
      BY <2>3, <2>5, <3>2 DEF Balanced
    <3>3. CASE service = "VAULT"
      <4>1. Cardinality(ActiveOf(row)) = 0
        BY <1>7, <2>2, <3>3
      <4>2. /\ world.nubans = Len(row.vaults) + n["unrecorded"]
            /\ Len(row.vaults) = row.totalVaultsCreated + n["uncounted"]
        <5>1. Len(row.vaults) = 0 /\ n["unrecorded"] = 0 /\ n["uncounted"] = 0
          BY <1>7, <2>3, <3>3
        <5>2. world.nubans = 0 /\ row.totalVaultsCreated = 0
          BY <2>6, <3>3
        <5> QED
          BY <5>1, <5>2
      <4>3. row.totalVaultsFlipped + n["flips"] >= Cardinality(ActiveOf(row))
        BY <2>3, <2>6, <3>3, <4>1
      <4> QED
        BY <3>3, <4>2, <4>3 DEF Balanced
    <3>4. CASE service \notin {"BANK", "VERIFY", "VAULT"}
      BY <3>4 DEF Balanced
    <3> QED
      BY <3>1, <3>2, <3>3, <3>4
  <2> QED
    BY <2>1, <2>2, <2>7 DEF Counted, n
<1> QED
  BY <1>5, <1>9, <1>10, <1>11, <1>12, <1>13 DEF OperationsInv

LEMMA CallInv ==
    ASSUME OperationsInv, NEW r \in Requests,
           \/ TerminalCall(r) \/ VerifyCall(r) \/ BankCall(r) \/ RegulatoryCall(r)
           \/ VaultCall(r) \/ SdkCall(r) \/ ProofCall(r) \/ AnchorCall(r)
    PROVE  OperationsInv'
BY TerminalNextInv, VerifyNextInv, BankNextInv, RegulatoryNextInv, VaultNextInv,
   SdkNextInv, ProofNextInv, AnchorNextInv

LEMMA GoOnInv ==
    ASSUME OperationsInv, NEW r \in Requests, OGoOn(r)
    PROVE  OperationsInv'
BY TerminalNextInv, VerifyNextInv, BankNextInv, RegulatoryNextInv, VaultNextInv,
   SdkNextInv, ProofNextInv, AnchorNextInv DEF OGoOn

LEMMA StutterInv ==
    ASSUME OperationsInv, UNCHANGED fvars
    PROVE  OperationsInv'
<1>1. Outside(row, world)
  BY DEF fvars, Outside
<1>2. row \in ORows(service) /\ OWorld(service, world) /\ RowOK(row, world, overlapped)
  BY DEF OperationsInv, Typed
<1> QED
  BY <1>1, <1>2, OutsideInv

LEMMA NextInv ==
    ASSUME OperationsInv, [ONext]_fvars
    PROVE  OperationsInv'
<1>1. ASSUME NEW r \in Requests, service = "SDK", SdkFails(r)
      PROVE  OperationsInv'
  BY <1>1, SdkNextInv
<1> QED
  BY <1>1, CallInv, GoOnInv, DieInv, StutterInv, TerminalTimePassesInv,
     TerminalDailyLockInv, VerifyTimePassesInv, LicenceTimePassesInv,
     BalanceChangesInv, VaultTimePassesInv, SdkPageInv, ProofTimePassesInv,
     AnchorTimePassesInv DEF ONext

\* The inductive invariant.
THEOREM OperationsKept == OSpec => []OperationsInv
<1>1. OInit => OperationsInv
  BY InitInv
<1>2. OperationsInv /\ [ONext]_fvars => OperationsInv'
  BY NextInv
<1> QED
  BY <1>1, <1>2, PTL DEF OSpec

-----------------------------------------------------------------------------
(* What it says.                                                           *)

\* As long as nothing overlapped, the row and the world are as some request
\* left them; a request, where one is under way.
LEMMA SoloHolds ==
    ASSUME OperationsInv, service # "SDK", ~ overlapped
    PROVE  /\ \E l, h : SoloOK(l, h, row, world, faults)
           /\ ~ Busy => SoloOK("idle", NoValue, row, world, faults)
<1>1. CASE Busy
  <2>1. PICK r \in Requests : pc[r] # "idle"
    BY <1>1 DEF Busy
  <2>2. SoloOK(pc[r], held[r], row, world, faults)
    BY <2>1 DEF OperationsInv, Solo
  <2> QED
    BY <1>1, <2>2
<1>2. CASE ~ Busy
  BY <1>2 DEF OperationsInv, Solo
<1> QED
  BY <1>1, <1>2

LEMMA TypesSaid ==
    ASSUME OperationsInv
    PROVE  OTypeOK
<1>1. {"idle"} \cup LabelsOf(service) \subseteq OLabels
  BY DEF OperationsInv, Typed, OServices, LabelsOf, OLabels, RegulatoryLabels
<1>2. pc \in [Requests -> OLabels]
  BY <1>1 DEF OperationsInv, Typed
<1>3. /\ service \in OServices /\ row \in ORows(service) /\ OWorld(service, world)
      /\ overlapped \in BOOLEAN /\ faults \in Nat
      /\ held \in [Requests -> OHeld(service) \cup {NoValue}]
  BY DEF OperationsInv, Typed
<1> QED
  BY <1>2, <1>3 DEF OTypeOK

LEMMA StatusSaid ==
    ASSUME OperationsInv
    PROVE  StatusJustified
<1>1. RowOK(row, world, overlapped) /\ service \in OServices
  BY DEF OperationsInv, Typed
<1>2. CASE service = "TERMINAL"
  BY <1>1, <1>2 DEF RowOK, TerminalRowOK, StatusJustified, AcceptedOnEvidence,
                    PassedNearAnchor
<1>3. CASE service = "BANK"
  <2>1. ASSUME ~ overlapped
        PROVE  row.approvedAt = world.approved /\ row.rejectedAt = world.rejected
    <3>1. PICK l, h : SoloOK(l, h, row, world, faults)
      BY <1>3, <2>1, SoloHolds
    <3> QED
      BY <1>3, <3>1 DEF SoloOK, BankSoloOK
  <2> QED
    BY <1>3, <2>1 DEF StatusJustified, AcceptedOnEvidence, PassedNearAnchor
<1>4. CASE service = "LICENCE"
  <2>1. Settled /\ row.licenseEndDate = "far" => ~ row.expiring
    <3>1. ASSUME Settled, row.licenseEndDate = "far", row.expiring
          PROVE  FALSE
      <4>1. Owed(row, world, faults)
        BY <1>4, <3>1 DEF Owed, Settled
      <4>2. PICK r \in Requests : pc[r] \in Debtors
        BY <4>1 DEF OperationsInv, Owing
      <4> QED
        BY <3>1, <4>2 DEF Settled, Busy, Debtors
    <3> QED
      BY <3>1
  <2> QED
    BY <1>1, <1>4, <2>1 DEF RowOK, LicenceRowOK, StatusJustified, AcceptedOnEvidence,
                            PassedNearAnchor
<1>5. CASE service = "VAULT"
  <2>1. ActiveVaults = ActiveOf(row)
    BY DEF ActiveVaults, ActiveOf
  <2> QED
    BY <1>1, <1>5, <2>1 DEF RowOK, VaultRowOK, StatusJustified, AcceptedOnEvidence,
                            PassedNearAnchor
<1>6. CASE service = "VERIFY"
  BY <1>1, <1>6 DEF RowOK, StatusJustified, AcceptedOnEvidence, PassedNearAnchor
<1>7. CASE service = "SDK"
  BY <1>1, <1>7 DEF RowOK, SdkRowOK, Believed, StatusJustified, AcceptedOnEvidence,
                    PassedNearAnchor
<1>8. CASE service = "PROOF"
  BY <1>1, <1>8 DEF RowOK, ProofRowOK, StatusJustified, AcceptedOnEvidence,
                    PassedNearAnchor
<1>9. CASE service = "ANCHOR"
  BY <1>1, <1>9 DEF RowOK, AnchorRowOK, StatusJustified, AcceptedOnEvidence,
                    PassedNearAnchor
<1>10. CASE service = "FLAGS"
  BY <1>10 DEF StatusJustified, AcceptedOnEvidence, PassedNearAnchor
<1> QED
  BY <1>1, <1>2, <1>3, <1>4, <1>5, <1>6, <1>7, <1>8, <1>9, <1>10 DEF OServices

LEMMA AlertsSaid ==
    ASSUME OperationsInv
    PROVE  AlertsRaised
<1>1. ASSUME service = "TERMINAL", Settled, ~ overlapped
      PROVE  row.consecutiveFailedUnlocks = world.misses /\ world.misses < 3
  <2>1. SoloOK("idle", NoValue, row, world, faults) /\ faults = 0
    BY <1>1, SoloHolds DEF Settled
  <2>2. /\ row.consecutiveFailedUnlocks = world.misses
        /\ row.consecutiveFailedUnlocks < 3
    BY <1>1, <2>1 DEF SoloOK, TerminalSoloOK
  <2> QED
    BY <2>2
<1>2. Owed(row, world, faults) => Busy
  BY DEF OperationsInv, Owing, Debtors, Busy
<1>3. ASSUME service = "VERIFY", Settled, Len(row.ledger) = Threshold,
             \A i \in DOMAIN row.ledger : ~ row.ledger[i]
      PROVE  world.reported
  BY <1>2, <1>3 DEF Settled, Owed, AllFailed
<1>4. ASSUME service = "FLAGS"
      PROVE  /\ row.redFlagTriggered => row.open + row.resolved > 0 \/ Busy \/ faults > 0
             /\ row.open + row.resolved > 1 => overlapped
  <2>1. row.open \in Nat /\ row.resolved \in Nat /\ faults \in Nat
    BY <1>4 DEF OperationsInv, Typed, ORows, FlagRows
  <2>2. row.redFlagTriggered => row.open + row.resolved > 0 \/ Busy \/ faults > 0
    BY <1>2, <1>4, <2>1 DEF Owed
  <2>3. ~ overlapped => row.open + row.resolved <= 1
    <3>1. ASSUME ~ overlapped
          PROVE  row.open + row.resolved <= 1
      <4>1. PICK l, h : SoloOK(l, h, row, world, faults)
        BY <1>4, <3>1, SoloHolds
      <4> QED
        BY <1>4, <4>1 DEF SoloOK, FlagSoloOK
    <3> QED
      BY <3>1
  <2> QED
    BY <2>1, <2>2, <2>3
<1> QED
  BY <1>1, <1>3, <1>4 DEF AlertsRaised

-----------------------------------------------------------------------------
(* The theorems.                                                           *)

\* The row, the requests' copies and the world keep the types of the service
\* followed, and a request is only at a step of that service.
THEOREM OperationsTyped == OSpec => []OTypeOK
<1>1. OperationsInv => OTypeOK
  BY TypesSaid
<1> QED
  BY <1>1, OperationsKept, PTL

\* A terminal in use has had a match since its last lock, a vault is active
\* because the bank made it so, a suspended licence has ended, the SDK believes
\* only what the profile said, an execution was let through on a face shown
\* within the life of a proof, and a withdrawal near a place that was the
\* anchor within the life of a token.
THEOREM StatusesJustified == OSpec => []StatusJustified
<1>1. OperationsInv => StatusJustified
  BY StatusSaid
<1> QED
  BY <1>1, OperationsKept, PTL

\* Where nothing failed, a third miss is reported, a window full of failed
\* confirmations is reported however confirmations overlapped, and an account
\* marked as low has its flag.
THEOREM AlertsAreRaised == OSpec => []AlertsRaised
<1>1. OperationsInv => AlertsRaised
  BY AlertsSaid
<1> QED
  BY <1>1, OperationsKept, PTL

-----------------------------------------------------------------------------
(* What the host is told: the screens of the modals.                       *)

\* A screen with a button to go on has no timer and no scan; the last screens
\* lead nowhere; a nested scan leads to the last screen, and tells itself.
Orderly(m) ==
    LET last == IF m.nested THEN {"done"} ELSE m.ends
    IN  /\ \A e \in m.edges :
              /\ e.from \notin last /\ e.how # "tell"
              /\ e.how = "click" => \A f \in m.edges : f.from = e.from => f.how = "click"
              /\ e.how = "scan" /\ m.nested => e.to = "done"
        /\ m.nested => m.ends = {}

LEMMA ModalsOrderly ==
    ASSUME NEW fn \in Functions \ Twice
    PROVE  Orderly(ModalOf(fn))
<1>1. Orderly(F01_BAS) /\ Orderly(F02_ZFOE) /\ Orderly(F03_BIH)
  BY DEF Orderly, F01_BAS, F02_ZFOE, F03_BIH
<1>2. Orderly(F04_BLS) /\ Orderly(F06_ZFPS) /\ Orderly(F07_YES)
  BY DEF Orderly, F04_BLS, F06_ZFPS, F07_YES
<1>3. Orderly(F09_BEPWG) /\ Orderly(F10_LBAS)
  BY DEF Orderly, F09_BEPWG, F10_LBAS
<1>4. Orderly(F11_UNWP)
  BY DEF Orderly, F11_UNWP
<1>5. Orderly(F12_KYA)
  BY DEF Orderly, F12_KYA
<1>6. ModalOf(fn) \in {F01_BAS, F02_ZFOE, F03_BIH, F04_BLS, F06_ZFPS, F07_YES, F09_BEPWG,
                       F10_LBAS, F11_UNWP, F12_KYA}
  BY DEF Functions, Twice, ModalOf
<1> QED
  BY <1>1, <1>2, <1>3, <1>4, <1>5, <1>6

LEMMA ScreensOrderly ==
    ASSUME NEW fn \in Functions \ Twice, NEW s
    PROVE  /\ \A how : From(fn, s, how) # {} => s \notin LastScreens(fn) /\ how # "tell"
           /\ From(fn, s, "click") # {} =>
                  From(fn, s, "wait") = {} /\ From(fn, s, "scan") = {}
           /\ \A e \in From(fn, s, "scan") : ModalOf(fn).nested => e.to = "done"
           /\ ModalOf(fn).nested => ModalOf(fn).ends = {} /\ "done" \in LastScreens(fn)
           /\ s \in ModalOf(fn).ends => s \in LastScreens(fn)
           /\ ~ ModalOf(fn).nested => LastScreens(fn) = ModalOf(fn).ends
<1> DEFINE m == ModalOf(fn)
<1>1. Orderly(m)
  BY ModalsOrderly
<1> HIDE DEF m
<1>2. LastScreens(fn) = IF m.nested THEN {"done"} ELSE m.ends
  BY DEF LastScreens, m
<1>3. \A how : From(fn, s, how) = {e \in m.edges : e.from = s /\ e.how = how}
  BY DEF From, m
<1>4. \A how : From(fn, s, how) # {} => s \notin LastScreens(fn) /\ how # "tell"
  BY <1>1, <1>2, <1>3 DEF Orderly
<1>5. From(fn, s, "click") # {} =>
          From(fn, s, "wait") = {} /\ From(fn, s, "scan") = {}
  <2> SUFFICES ASSUME NEW e \in From(fn, s, "click")
               PROVE  From(fn, s, "wait") = {} /\ From(fn, s, "scan") = {}
    OBVIOUS
  <2>1. e \in m.edges /\ e.from = s /\ e.how = "click"
    BY <1>3
  <2>2. \A f \in m.edges : f.from = s => f.how = "click"
    BY <1>1, <2>1 DEF Orderly
  <2> QED
    BY <1>3, <2>2
<1>6. \A e \in From(fn, s, "scan") : m.nested => e.to = "done"
  BY <1>1, <1>3 DEF Orderly
<1>7. /\ m.nested => m.ends = {} /\ "done" \in LastScreens(fn)
      /\ s \in m.ends => s \in LastScreens(fn)
      /\ ~ m.nested => LastScreens(fn) = m.ends
  BY <1>1, <1>2 DEF Orderly
<1> QED
  BY <1>4, <1>5, <1>6, <1>7 DEF m

-----------------------------------------------------------------------------
(* What the host is told: timers by what they do.                          *)

TellKinds == {"tell", "nested", "orphan"}

\* The timers of a kind, and what is told of a payload, are the same.
SameOf(v, w, dos) ==
    \A t : t.do \in dos => Copies(v.timers, t) = Copies(w.timers, t)

SameTold(v, w, p) ==
    /\ v.told[p] = w.told[p]
    /\ \A t : t.do \in TellKinds /\ t.for = p =>
                  Copies(v.timers, t) = Copies(w.timers, t)

LEMMA CopiesFacts ==
    ASSUME NEW w, SdkShape(w), NEW t
    PROVE  /\ Copies(w.timers, t) \in Nat
           /\ t \in DOMAIN w.timers <=> Copies(w.timers, t) > 0
BY DEF SdkShape, IsABag, Copies

LEMMA OfFacts ==
    ASSUME NEW w, SdkShape(w), NEW dos, NEW t
    PROVE  /\ t \in Of(w, dos) <=> Copies(w.timers, t) > 0 /\ t.do \in dos
           /\ t \in Of(w, dos) => t.for \in Payloads
BY CopiesFacts DEF Of, BagToSet, SdkShape

LEMMA SameOfFacts ==
    ASSUME NEW v, NEW w, SdkShape(v), SdkShape(w), NEW dos, SameOf(v, w, dos)
    PROVE  Of(v, dos) = Of(w, dos)
<1>1. \A t : t \in Of(v, dos) <=> t \in Of(w, dos)
  BY OfFacts DEF SameOf
<1> QED
  BY <1>1

LEMMA TellingFacts ==
    ASSUME NEW w, SdkShape(w), NEW p, NEW t
    PROVE  t \in Telling(w, p) <=>
               Copies(w.timers, t) > 0 /\ t.do \in TellKinds /\ t.for = p
BY OfFacts DEF Telling, TellKinds

LEMMA SameToldFacts ==
    ASSUME NEW v, NEW w, SdkShape(v), SdkShape(w), NEW p, SameTold(v, w, p)
    PROVE  /\ Telling(v, p) = Telling(w, p)
           /\ Silent(w, p) => Silent(v, p)
           /\ ToldOnce(w, p) => ToldOnce(v, p)
<1>1. \A t : t \in Telling(v, p) <=> t \in Telling(w, p)
  BY TellingFacts DEF SameTold
<1>2. Telling(v, p) = Telling(w, p)
  BY <1>1
<1>3. \A t \in Telling(w, p) : Copies(v.timers, t) = Copies(w.timers, t)
  BY TellingFacts DEF SameTold
<1>4. v.told[p] = w.told[p]
  BY DEF SameTold
<1> QED
  BY <1>2, <1>3, <1>4 DEF Silent, ToldOnce

\* A timer that tells has ended: nothing tells of its payload any more.
LEMMA TellEnds ==
    ASSUME NEW w, SdkShape(w), NEW t \in BagToSet(w.timers), t.do \in TellKinds,
           ToldOnce(w, t.for)
    PROVE  Silent(Ended(w, t), t.for)
<1> DEFINE v == Ended(w, t)
<1>1. /\ SdkShape(v) /\ Kept(v, w)
      /\ \A c : Copies(w.timers, c) = Copies(v.timers, c) + (IF c = t THEN 1 ELSE 0)
  BY EndedFacts
<1> HIDE DEF v
<1>2. t \in Telling(w, t.for)
  BY TellingFacts, CopiesFacts DEF BagToSet
<1>3. /\ w.told[t.for] = 0 /\ Copies(w.timers, t) = 1
      /\ \A c \in Telling(w, t.for) : c = t
  BY <1>2 DEF ToldOnce
<1>4. \A c : c \notin Telling(v, t.for)
  <2> SUFFICES ASSUME NEW c, c \in Telling(v, t.for)
               PROVE  FALSE
    OBVIOUS
  <2>1. Copies(v.timers, c) > 0 /\ c.do \in TellKinds /\ c.for = t.for
    BY <1>1, TellingFacts
  <2>2. /\ Copies(v.timers, c) \in Nat /\ Copies(w.timers, c) \in Nat
        /\ Copies(w.timers, c) = Copies(v.timers, c) + (IF c = t THEN 1 ELSE 0)
    BY <1>1, CopiesFacts
  <2>3. Copies(w.timers, c) > 0
    BY <2>1, <2>2
  <2>4. c = t
    BY <1>3, <2>1, <2>3, TellingFacts
  <2> QED
    BY <1>3, <2>1, <2>2, <2>4
<1>5. v.told[t.for] = 0
  BY <1>1, <1>3 DEF Kept
<1> QED
  BY <1>4, <1>5 DEF Silent, v

\* A timer has ended: the others go on.
LEMMA EndedSame ==
    ASSUME NEW w, SdkShape(w), NEW t \in BagToSet(w.timers), NEW p,
           t.do \notin TellKinds \/ t.for # p
    PROVE  SameTold(Ended(w, t), w, p)
<1> DEFINE v == Ended(w, t)
<1>1. /\ SdkShape(v) /\ Kept(v, w)
      /\ \A c : Copies(w.timers, c) = Copies(v.timers, c) + (IF c = t THEN 1 ELSE 0)
  BY EndedFacts
<1> HIDE DEF v
<1>2. ASSUME NEW c, c.do \in TellKinds, c.for = p
      PROVE  Copies(v.timers, c) = Copies(w.timers, c)
  <2>1. c # t
    BY <1>2
  <2> QED
    BY <1>1, <2>1, CopiesFacts
<1>3. v.told[p] = w.told[p]
  BY <1>1 DEF Kept
<1> QED
  BY <1>2, <1>3 DEF SameTold, v

LEMMA EndedSameOf ==
    ASSUME NEW w, SdkShape(w), NEW t \in BagToSet(w.timers), NEW dos, t.do \notin dos
    PROVE  SameOf(Ended(w, t), w, dos)
<1> DEFINE v == Ended(w, t)
<1>1. /\ SdkShape(v)
      /\ \A c : Copies(w.timers, c) = Copies(v.timers, c) + (IF c = t THEN 1 ELSE 0)
  BY EndedFacts
<1> HIDE DEF v
<1>2. ASSUME NEW c, c.do \in dos
      PROVE  Copies(v.timers, c) = Copies(w.timers, c)
  <2>1. c # t
    BY <1>2
  <2> QED
    BY <1>1, <2>1, CopiesFacts
<1> QED
  BY <1>2 DEF SameOf, v

LEMMA BegunIs ==
    ASSUME NEW w, NEW s
    PROVE  /\ \A t \in Begun(w, s) :
                 /\ t.for = w.active /\ t.at = s
                 /\ \/ t.do = "wait" /\ t = Callback("wait", s, w.active)
                       /\ From(w.fn, s, "wait") # {}
                    \/ t.do = "face" /\ w.fn = "BLIDE"
                    \/ t.do = "tell" /\ t = Callback("tell", s, w.active)
                       /\ s \in ModalOf(w.fn).ends
           /\ s \in ModalOf(w.fn).ends => Callback("tell", s, w.active) \in Begun(w, s)
<1> DEFINE c1 == Callback("wait", s, w.active)
           c2 == Callback("face", s, w.active)
           c3 == Callback("tell", s, w.active)
           p1 == From(w.fn, s, "wait") # {}
           p2 == w.fn = "BLIDE" /\ s = "face"
           p3 == s \in ModalOf(w.fn).ends
<1>1. /\ c1.for = w.active /\ c2.for = w.active /\ c3.for = w.active
      /\ c1.at = s /\ c2.at = s /\ c3.at = s
      /\ c1.do = "wait" /\ c2.do = "face" /\ c3.do = "tell"
  BY DEF Callback
<1>2. Begun(w, s) = {c \in {c1, c2, c3} : /\ c.do = "wait" => p1
                                          /\ c.do = "face" => p2
                                          /\ c.do = "tell" => p3}
  BY DEF Begun
<1> HIDE DEF c1, c2, c3, p1, p2, p3
<1>3. \A t : t \in Begun(w, s) <=> (t = c1 /\ p1) \/ (t = c2 /\ p2) \/ (t = c3 /\ p3)
  BY <1>1, <1>2
<1>4. p2 => w.fn = "BLIDE"
  BY DEF p2
<1> QED
  BY <1>1, <1>3, <1>4 DEF p1, p3, c1, c3

\* A screen is shown, with the timers it begins.
LEMMA BegunTells ==
    ASSUME NEW v, NEW u, SdkShape(v), SdkShape(u), v.active # NoPayload,
           v.told = u.told,
           \A t : Copies(v.timers, t) = Copies(u.timers, t)
                      + (IF t \in Begun(v, v.screen) THEN 1 ELSE 0),
           v.fn \notin Twice =>
               /\ Of(u, ModalTimers) = {} /\ \A p \in Payloads : ToldOnce(u, p)
               /\ \/ v.screen \in ModalOf(v.fn).ends
                  \/ v.screen \notin LastScreens(v.fn)
                  => Silent(u, v.active)
    PROVE  /\ TellsOnce(v) /\ TellsAtLast(v) /\ SameOf(v, u, {"verified"})
           /\ \A p : p # v.active \/ v.screen \notin ModalOf(v.fn).ends =>
                  SameTold(v, u, p)
<1> DEFINE s == v.screen
           a == v.active
           B == Begun(v, s)
           w1 == Callback("wait", s, a)
           t1 == Callback("tell", s, a)
<1>1. /\ \A t \in B :
            /\ t.for = a /\ t.at = s
            /\ \/ t.do = "wait" /\ t = w1 /\ From(v.fn, s, "wait") # {}
               \/ t.do = "face" /\ v.fn = "BLIDE"
               \/ t.do = "tell" /\ t = t1 /\ s \in ModalOf(v.fn).ends
      /\ s \in ModalOf(v.fn).ends => t1 \in B
  BY BegunIs
<1>2. \A t : /\ Copies(u.timers, t) \in Nat /\ Copies(v.timers, t) \in Nat
             /\ Copies(v.timers, t) = Copies(u.timers, t) + (IF t \in B THEN 1 ELSE 0)
  BY CopiesFacts
<1>3. a \in Payloads /\ v.fn \in Functions
  BY DEF SdkShape
<1>4. t1.do = "tell" /\ t1.for = a
  BY DEF Callback
<1> HIDE DEF B, w1, t1
<1>5. SameOf(v, u, {"verified"}) /\ SameOf(v, u, {"nested"})
  BY <1>1, <1>2 DEF SameOf
<1>6. ASSUME NEW p, p # a \/ s \notin ModalOf(v.fn).ends
      PROVE  SameTold(v, u, p)
  <2>1. ASSUME NEW t, t.do \in TellKinds, t.for = p
        PROVE  Copies(v.timers, t) = Copies(u.timers, t)
    <3>1. t \notin B
      BY <1>1, <1>6, <2>1 DEF TellKinds
    <3> QED
      BY <1>2, <3>1
  <2> QED
    BY <2>1 DEF SameTold
<1>7. TellsAtLast(v)
  <2>1. s \in ModalOf(v.fn).ends => Copies(v.timers, t1) > 0
    BY <1>1, <1>2
  <2>2. s \in ModalOf(v.fn).ends => t1 \in Telling(v, a)
    BY <1>4, <2>1, TellingFacts DEF TellKinds
  <2> QED
    BY <2>2 DEF TellsAtLast
<1>8. TellsOnce(v)
  <2> SUFFICES ASSUME v.fn \notin Twice
               PROVE  /\ OneTimer(v)
                      /\ \A p \in Payloads : ToldOnce(v, p)
                      /\ s \notin LastScreens(v.fn) => Silent(v, a)
    BY DEF TellsOnce
  <2>1. /\ Of(u, ModalTimers) = {} /\ \A p \in Payloads : ToldOnce(u, p)
        /\ s \in ModalOf(v.fn).ends \/ s \notin LastScreens(v.fn) => Silent(u, a)
    OBVIOUS
  <2>2. s \in ModalOf(v.fn).ends => s \in LastScreens(v.fn)
    BY <1>3, ScreensOrderly
  <2>3. OneTimer(v)
    <3>1. ASSUME NEW t \in Of(v, ModalTimers)
          PROVE  /\ t = w1 /\ Copies(v.timers, t) = 1 /\ t.at = s
                 /\ t.do = "wait" /\ From(v.fn, s, "wait") # {}
      <4>1. Copies(v.timers, t) > 0 /\ t.do \in ModalTimers
        BY OfFacts
      <4>2. ~ (Copies(u.timers, t) > 0)
        BY <2>1, <4>1, OfFacts
      <4>3. t \in B /\ Copies(v.timers, t) = 1
        BY <1>2, <4>1, <4>2
      <4> QED
        BY <1>1, <4>1, <4>3 DEF ModalTimers, Twice
    <3> QED
      BY <3>1 DEF OneTimer
  <2>4. ASSUME NEW p \in Payloads
        PROVE  ToldOnce(v, p)
    <3>1. CASE p # a \/ s \notin ModalOf(v.fn).ends
      BY <1>6, <2>1, <3>1, SameToldFacts
    <3>2. CASE p = a /\ s \in ModalOf(v.fn).ends
      <4>1. Silent(u, a)
        BY <2>1, <3>2
      <4>2. ASSUME NEW t \in Telling(v, a)
            PROVE  t = t1 /\ Copies(v.timers, t) = 1
        <5>1. Copies(v.timers, t) > 0 /\ t.do \in TellKinds /\ t.for = a
          BY TellingFacts
        <5>2. ~ (Copies(u.timers, t) > 0)
          BY <4>1, <5>1, TellingFacts DEF Silent
        <5>3. t \in B /\ Copies(v.timers, t) = 1
          BY <1>2, <5>1, <5>2
        <5> QED
          BY <1>1, <5>1, <5>3 DEF TellKinds
      <4>3. v.told[a] = 0
        BY <4>1 DEF Silent
      <4> QED
        BY <3>2, <4>2, <4>3 DEF ToldOnce
    <3> QED
      BY <3>1, <3>2
  <2>5. s \notin LastScreens(v.fn) => Silent(v, a)
    BY <1>6, <2>1, <2>2, SameToldFacts
  <2> QED
    BY <2>3, <2>4, <2>5
<1> QED
  BY <1>5, <1>6, <1>7, <1>8

-----------------------------------------------------------------------------
(* What the host is told: the steps of a modal.                            *)

\* A payload that waited for its turn still waits.
Keeps(v, w) == \A q \in Payloads : Fresh(w, q) => Fresh(v, q)

\* What a step leaves to be told.
TellsOn(v, w) ==
    TellsOnce(v) /\ TellsAtLast(v) /\ Keeps(v, w) /\ SameOf(v, w, {"verified"})

LEMMA FreshSame ==
    ASSUME NEW v, NEW w, SdkShape(v), SdkShape(w), NEW p \in Payloads, Fresh(w, p),
           v.shown = w.shown, v.active \in {w.active, NoPayload}, v.fn = w.fn,
           w.fn \notin Twice => SameTold(v, w, p)
    PROVE  Fresh(v, p)
<1>1. p # NoPayload
  BY DEF Payloads, NoPayload
<1> QED
  BY <1>1, SameToldFacts DEF Fresh

\* The modal, its timers and what was told are the same.
PageSame(v, w) ==
    /\ v.active = w.active /\ v.fn = w.fn /\ v.screen = w.screen
    /\ v.scanning = w.scanning /\ v.told = w.told /\ v.shown = w.shown
    /\ SameOf(v, w, ModalTimers) /\ SameOf(v, w, TellKinds)

LEMMA PageSameTells ==
    ASSUME NEW v, NEW w, SdkShape(v), SdkShape(w), PageSame(v, w),
           TellsOnce(w), TellsAtLast(w)
    PROVE  TellsOnce(v) /\ TellsAtLast(v) /\ Keeps(v, w)
<1>1. \A p : SameTold(v, w, p)
  BY DEF PageSame, SameOf, SameTold
<1>2. \A p : /\ Telling(v, p) = Telling(w, p)
             /\ Silent(w, p) => Silent(v, p)
             /\ ToldOnce(w, p) => ToldOnce(v, p)
  BY <1>1, SameToldFacts
<1>3. Of(v, ModalTimers) = Of(w, ModalTimers)
  BY SameOfFacts DEF PageSame
<1>4. Of(v, {"nested"}) = Of(w, {"nested"})
  BY SameOfFacts DEF PageSame, SameOf, ModalTimers
<1>5. v.fn \notin Twice => OneTimer(v)
  <2> SUFFICES ASSUME v.fn \notin Twice
               PROVE  OneTimer(v)
    OBVIOUS
  <2>1. OneTimer(w)
    BY DEF TellsOnce, PageSame
  <2>2. \A t \in Of(v, ModalTimers) : Copies(v.timers, t) = Copies(w.timers, t)
    BY OfFacts DEF PageSame, SameOf
  <2>3. v.fn = w.fn /\ v.screen = w.screen /\ v.scanning = w.scanning
    BY DEF PageSame
  <2> QED
    BY <1>3, <2>1, <2>2, <2>3 DEF OneTimer
<1>6. TellsOnce(v)
  BY <1>2, <1>4, <1>5 DEF TellsOnce, PageSame
<1>7. TellsAtLast(v)
  BY <1>2 DEF TellsAtLast, PageSame
<1>8. Keeps(v, w)
  BY <1>1, FreshSame DEF Keeps, PageSame
<1> QED
  BY <1>6, <1>7, <1>8

\* A screen is entered with no timer of the modal left and nothing told.
LEMMA EnterTells ==
    ASSUME NEW w, SdkShape(w), w.active # NoPayload, NEW s \in Screens(w.fn),
           w.fn \notin Twice =>
               /\ Of(w, ModalTimers) = {} /\ \A p \in Payloads : ToldOnce(w, p)
               /\ \/ s \in ModalOf(w.fn).ends
                  \/ s \notin LastScreens(w.fn)
                  => Silent(w, w.active)
    PROVE  LET v == Enter(w, s)
           IN  /\ SdkShape(v) /\ Kept(v, w) /\ v.screen = s /\ TellsOn(v, w)
               /\ \A p : p # w.active \/ s \notin ModalOf(w.fn).ends => SameTold(v, w, p)
<1> DEFINE v == Enter(w, s)
<1>1. /\ SdkShape(v) /\ Kept(v, w) /\ v.screen = s
      /\ \A t : Copies(v.timers, t)
                    = Copies(w.timers, t) + (IF t \in Begun(w, s) THEN 1 ELSE 0)
  BY EnterFacts
<1> HIDE DEF v
<1>2. v.active = w.active /\ v.fn = w.fn /\ v.told = w.told /\ v.shown = w.shown
  BY <1>1 DEF Kept
<1>3. Begun(v, v.screen) = Begun(w, s)
  BY <1>1, <1>2 DEF Begun
<1>4. /\ TellsOnce(v) /\ TellsAtLast(v) /\ SameOf(v, w, {"verified"})
      /\ \A p : p # v.active \/ v.screen \notin ModalOf(v.fn).ends => SameTold(v, w, p)
  <2>1. \A t : Copies(v.timers, t)
                    = Copies(w.timers, t) + (IF t \in Begun(v, v.screen) THEN 1 ELSE 0)
    BY <1>1, <1>3
  <2> QED
    BY <1>1, <1>2, <2>1, BegunTells
<1>5. Keeps(v, w)
  <2> SUFFICES ASSUME NEW q \in Payloads, Fresh(w, q)
               PROVE  Fresh(v, q)
    BY DEF Keeps
  <2>1. q # v.active
    BY <1>2 DEF Fresh
  <2> QED
    BY <1>1, <1>2, <1>4, <2>1, FreshSame
<1> QED
  BY <1>1, <1>2, <1>4, <1>5 DEF TellsOn, v

LEMMA ClickTells ==
    ASSUME NEW w, SdkShape(w), w.active # NoPayload, TellsOnce(w),
           NEW e \in From(w.fn, w.screen, "click")
    PROVE  /\ SdkShape(Enter(w, e.to)) /\ Kept(Enter(w, e.to), w)
           /\ TellsOn(Enter(w, e.to), w)
<1>1. e.to \in Screens(w.fn) /\ w.fn \in Functions
  BY DEF From, Screens, SdkShape
<1>2. ASSUME w.fn \notin Twice
      PROVE  /\ Of(w, ModalTimers) = {} /\ \A p \in Payloads : ToldOnce(w, p)
             /\ Silent(w, w.active)
  <2>1. /\ w.screen \notin LastScreens(w.fn)
        /\ From(w.fn, w.screen, "wait") = {} /\ From(w.fn, w.screen, "scan") = {}
    BY <1>1, <1>2, ScreensOrderly
  <2>2. OneTimer(w) /\ \A p \in Payloads : ToldOnce(w, p)
    BY <1>2 DEF TellsOnce
  <2>3. Of(w, ModalTimers) = {}
    BY <2>1, <2>2 DEF OneTimer
  <2>4. Of(w, {"nested"}) = {}
    BY <2>3 DEF Of, ModalTimers
  <2>5. Silent(w, w.active)
    BY <1>2, <2>1, <2>4 DEF TellsOnce
  <2> QED
    BY <2>2, <2>3, <2>5
<1> QED
  BY <1>1, <1>2, EnterTells

\* The last screen still tells.
LEMMA AtLastKept ==
    ASSUME NEW v, NEW w, SdkShape(v), SdkShape(w), TellsAtLast(w),
           v.active = w.active, v.fn = w.fn, v.screen = w.screen, v.shown = w.shown,
           \/ v.active \notin Payloads
           \/ v.told[v.active] > 0
           \/ /\ v.told[v.active] = w.told[v.active]
              /\ Telling(w, v.active) # {} => Telling(v, v.active) # {}
    PROVE  TellsAtLast(v)
<1>1. v.active # NoPayload => v.active \in Payloads
  BY DEF SdkShape
<1> QED
  BY <1>1 DEF TellsAtLast

\* A timer that tells is added.
LEMMA TellAdded ==
    ASSUME NEW m, NEW v, SdkShape(v), NEW c, MoreBy(m, v, {c}), c.do = "tell",
           c.for \in Payloads, TellsOnce(v),
           v.fn \notin Twice =>
               Silent(v, c.for)
               /\ \/ v.screen \in LastScreens(v.fn) \/ v.active # c.for
                  \/ Of(v, {"nested"}) # {}
    PROVE  /\ TellsOnce(m) /\ SameOf(m, v, {"verified"})
           /\ \A p : p # c.for => SameTold(m, v, p)
           /\ Telling(m, c.for) # {}
<1>1. /\ SdkShape(m) /\ Kept(m, v) /\ m.screen = v.screen /\ m.scanning = v.scanning
      /\ \A t : Copies(m.timers, t) = Copies(v.timers, t) + (IF t = c THEN 1 ELSE 0)
  BY DEF MoreBy
<1>2. \A t : Copies(m.timers, t) \in Nat /\ Copies(v.timers, t) \in Nat
  BY <1>1, CopiesFacts
<1>3. \A t : t # c => Copies(m.timers, t) = Copies(v.timers, t)
  BY <1>1, <1>2
<1>4. SameOf(m, v, {"verified"}) /\ SameOf(m, v, ModalTimers) /\ SameOf(m, v, {"nested"})
  BY <1>3 DEF SameOf, ModalTimers
<1>5. ASSUME NEW p, p # c.for
      PROVE  SameTold(m, v, p)
  BY <1>1, <1>3, <1>5 DEF SameTold, Kept
<1>6. Copies(m.timers, c) = Copies(v.timers, c) + 1
  BY <1>1
<1>7. c \in Telling(m, c.for)
  BY <1>1, <1>2, <1>6, TellingFacts DEF TellKinds
<1>8. TellsOnce(m)
  <2> SUFFICES ASSUME m.fn \notin Twice
               PROVE  /\ OneTimer(m)
                      /\ \A p \in Payloads : ToldOnce(m, p)
                      /\ /\ m.active # NoPayload /\ Of(m, {"nested"}) = {}
                         /\ m.screen \notin LastScreens(m.fn)
                         => Silent(m, m.active)
    BY DEF TellsOnce
  <2>1. /\ v.fn \notin Twice /\ m.fn = v.fn /\ m.active = v.active /\ m.told = v.told
    BY <1>1 DEF Kept
  <2>2. /\ Silent(v, c.for)
        /\ \/ v.screen \in LastScreens(v.fn) \/ v.active # c.for
           \/ Of(v, {"nested"}) # {}
        /\ OneTimer(v) /\ \A p \in Payloads : ToldOnce(v, p)
        /\ /\ v.active # NoPayload /\ Of(v, {"nested"}) = {}
           /\ v.screen \notin LastScreens(v.fn)
           => Silent(v, v.active)
    BY <2>1 DEF TellsOnce
  <2>3. OneTimer(m)
    <3>1. Of(m, ModalTimers) = Of(v, ModalTimers)
      BY <1>1, <1>4, SameOfFacts
    <3>2. \A t \in Of(m, ModalTimers) : Copies(m.timers, t) = Copies(v.timers, t)
      BY <1>1, <1>4, OfFacts DEF SameOf
    <3> QED
      BY <1>1, <2>1, <2>2, <3>1, <3>2 DEF OneTimer
  <2>4. ASSUME NEW p \in Payloads
        PROVE  ToldOnce(m, p)
    <3>1. CASE p # c.for
      BY <1>1, <1>5, <2>2, <3>1, SameToldFacts
    <3>2. CASE p = c.for
      <4>1. \A t \in Telling(m, p) : t = c
        <5> SUFFICES ASSUME NEW t \in Telling(m, p), t # c
                     PROVE  FALSE
          OBVIOUS
        <5>1. Copies(m.timers, t) > 0 /\ t.do \in TellKinds /\ t.for = p
          BY <1>1, TellingFacts
        <5>2. t \in Telling(v, p)
          BY <1>3, <5>1, TellingFacts
        <5> QED
          BY <2>2, <3>2, <5>2 DEF Silent
      <4>2. Copies(v.timers, c) = 0
        <5>1. c \notin Telling(v, p)
          BY <2>2, <3>2 DEF Silent
        <5> QED
          BY <1>2, <3>2, <5>1, TellingFacts DEF TellKinds
      <4>3. Copies(m.timers, c) = 1 /\ m.told[p] = 0
        BY <1>6, <2>1, <2>2, <3>2, <4>2 DEF Silent
      <4> QED
        BY <4>1, <4>3 DEF ToldOnce
    <3> QED
      BY <3>1, <3>2
  <2>5. ASSUME m.active # NoPayload, Of(m, {"nested"}) = {},
               m.screen \notin LastScreens(m.fn)
        PROVE  Silent(m, m.active)
    <3>1. Of(v, {"nested"}) = {}
      BY <1>1, <1>4, <2>5, SameOfFacts
    <3>2. Silent(v, v.active) /\ v.active # c.for
      BY <1>1, <2>1, <2>2, <2>5, <3>1
    <3> QED
      BY <1>1, <1>5, <2>1, <3>2, SameToldFacts
  <2> QED
    BY <2>3, <2>4, <2>5
<1> QED
  BY <1>4, <1>5, <1>7, <1>8

\* A timer of the modal has ended: it was the only one.
LEMMA ModalTimerEnds ==
    ASSUME NEW w, SdkShape(w), NEW t \in Of(w, ModalTimers), TellsOnce(w)
    PROVE  LET u == Ended(w, t)
           IN  /\ SdkShape(u) /\ Kept(u, w) /\ u.screen = w.screen
               /\ u.scanning = w.scanning /\ t \in BagToSet(w.timers)
               /\ w.active \in Payloads
               /\ \A p : t.do # "nested" \/ p # t.for => SameTold(u, w, p)
               /\ SameOf(u, w, {"verified"})
               /\ w.fn \notin Twice =>
                     /\ Of(u, ModalTimers) = {} /\ \A p \in Payloads : ToldOnce(u, p)
                     /\ t.at = w.screen
                     /\ \/ t.do = "wait" /\ From(w.fn, w.screen, "wait") # {}
                        \/ /\ t.do = IF ModalOf(w.fn).nested THEN "nested" ELSE "scan"
                           /\ From(w.fn, w.screen, "scan") # {}
                     /\ t.do # "nested" => Silent(u, w.active)
                     /\ t.do = "nested" => Silent(u, t.for)
<1> DEFINE u == Ended(w, t)
<1>1. t \in BagToSet(w.timers) /\ t.do \in ModalTimers
  BY DEF Of
<1>2. /\ SdkShape(u) /\ Kept(u, w) /\ u.screen = w.screen /\ u.scanning = w.scanning
      /\ \A c : Copies(w.timers, c) = Copies(u.timers, c) + (IF c = t THEN 1 ELSE 0)
  BY <1>1, EndedFacts
<1>3. \A p : t.do # "nested" \/ p # t.for => SameTold(u, w, p)
  BY <1>1, EndedSame DEF TellKinds, ModalTimers
<1>4. SameOf(u, w, {"verified"})
  BY <1>1, EndedSameOf DEF ModalTimers
<1>5. w.active \in Payloads /\ w.fn \in Functions
  BY DEF SdkShape
<1>6. w.fn \notin Twice /\ t.do = "nested" => Silent(u, t.for)
  <2>1. w.fn \notin Twice => ToldOnce(w, t.for)
    BY OfFacts DEF TellsOnce
  <2> QED
    BY <1>1, <2>1, TellEnds DEF TellKinds
<1> HIDE DEF u
<1>7. ASSUME w.fn \notin Twice
      PROVE  /\ Of(u, ModalTimers) = {} /\ \A p \in Payloads : ToldOnce(u, p)
             /\ t.at = w.screen
             /\ \/ t.do = "wait" /\ From(w.fn, w.screen, "wait") # {}
                \/ /\ t.do = IF ModalOf(w.fn).nested THEN "nested" ELSE "scan"
                   /\ From(w.fn, w.screen, "scan") # {}
             /\ t.do # "nested" => Silent(u, w.active)
  <2>1. /\ OneTimer(w) /\ \A p \in Payloads : ToldOnce(w, p)
        /\ /\ Of(w, {"nested"}) = {} /\ w.screen \notin LastScreens(w.fn)
           => Silent(w, w.active)
    BY <1>5, <1>7 DEF TellsOnce, Payloads, NoPayload
  <2>2. /\ \A c \in Of(w, ModalTimers) : c = t
        /\ Copies(w.timers, t) = 1 /\ t.at = w.screen
        /\ \/ t.do = "wait" /\ From(w.fn, w.screen, "wait") # {}
           \/ /\ t.do = IF ModalOf(w.fn).nested THEN "nested" ELSE "scan"
              /\ From(w.fn, w.screen, "scan") # {}
    BY <2>1 DEF OneTimer
  <2>3. Of(u, ModalTimers) = {}
    <3> SUFFICES ASSUME NEW c \in Of(u, ModalTimers)
                 PROVE  FALSE
      OBVIOUS
    <3>1. Copies(u.timers, c) > 0 /\ c.do \in ModalTimers
      BY <1>2, OfFacts
    <3>2. /\ Copies(u.timers, c) \in Nat /\ Copies(w.timers, c) \in Nat
          /\ Copies(w.timers, c) = Copies(u.timers, c) + (IF c = t THEN 1 ELSE 0)
      BY <1>2, CopiesFacts
    <3>3. c \in Of(w, ModalTimers)
      BY <3>1, <3>2, OfFacts
    <3> QED
      BY <2>2, <3>1, <3>2, <3>3
  <2>4. ASSUME NEW p \in Payloads
        PROVE  ToldOnce(u, p)
    <3>1. CASE t.do # "nested" \/ p # t.for
      BY <1>2, <1>3, <2>1, <3>1, SameToldFacts
    <3>2. CASE t.do = "nested" /\ p = t.for
      BY <1>6, <1>7, <3>2 DEF Silent, ToldOnce
    <3> QED
      BY <3>1, <3>2
  <2>5. t.do # "nested" => Silent(u, w.active)
    <3> SUFFICES ASSUME t.do # "nested"
                 PROVE  Silent(u, w.active)
      OBVIOUS
    <3>1. Of(w, {"nested"}) = {}
      BY <2>2 DEF Of, ModalTimers
    <3>2. w.screen \notin LastScreens(w.fn)
      BY <1>5, <1>7, <2>2, ScreensOrderly
    <3>3. SameTold(u, w, w.active)
      BY <1>3
    <3> QED
      BY <1>2, <2>1, <3>1, <3>2, <3>3, SameToldFacts
  <2> QED
    BY <2>2, <2>3, <2>4, <2>5
<1> QED
  BY <1>1, <1>2, <1>3, <1>4, <1>5, <1>6, <1>7 DEF u

\* A timer leads to the next screen.
LEMMA FiresTells ==
    ASSUME NEW w, SdkShape(w), NEW t \in Of(w, ModalTimers), TellsOnce(w),
           t.do \in {"wait", "scan"}, NEW s \in Screens(w.fn)
    PROVE  LET v == Enter(Ended(w, t), s)
           IN  SdkShape(v) /\ Kept(v, w) /\ TellsOn(v, w)
<1> DEFINE u == Ended(w, t)
           v == Enter(u, s)
<1>1. /\ SdkShape(u) /\ Kept(u, w) /\ w.active \in Payloads
      /\ \A p : SameTold(u, w, p)
      /\ SameOf(u, w, {"verified"})
      /\ w.fn \notin Twice =>
            /\ Of(u, ModalTimers) = {} /\ \A p \in Payloads : ToldOnce(u, p)
            /\ Silent(u, w.active)
  BY ModalTimerEnds
<1> HIDE DEF u
<1>2. u.active = w.active /\ u.active # NoPayload /\ u.fn = w.fn /\ u.shown = w.shown
  BY <1>1 DEF Kept, Payloads, NoPayload
<1>3. SdkShape(v) /\ Kept(v, u) /\ TellsOn(v, u)
  BY <1>1, <1>2, EnterTells
<1> HIDE DEF v
<1>4. Keeps(u, w)
  BY <1>1, <1>2, FreshSame DEF Keeps
<1>5. Kept(v, w)
  BY <1>1, <1>3 DEF Kept
<1>6. TellsOn(v, w)
  BY <1>1, <1>3, <1>4 DEF TellsOn, Keeps, SameOf
<1> QED
  BY <1>3, <1>5, <1>6 DEF u, v

\* A scan ends on the screen it began on.
LEMMA ScanEndsTells ==
    ASSUME NEW w, SdkShape(w), NEW t \in Of(w, ModalTimers), TellsOnce(w), TellsAtLast(w),
           t.do = "scan"
    PROVE  LET v == [Ended(w, t) EXCEPT !.scanning = FALSE]
           IN  SdkShape(v) /\ Kept(v, w) /\ TellsOn(v, w)
<1> DEFINE u == Ended(w, t)
           v == [u EXCEPT !.scanning = FALSE]
<1>1. /\ SdkShape(u) /\ Kept(u, w) /\ u.screen = w.screen /\ w.active \in Payloads
      /\ \A p : SameTold(u, w, p)
      /\ SameOf(u, w, {"verified"})
      /\ w.fn \notin Twice =>
            /\ Of(u, ModalTimers) = {} /\ \A p \in Payloads : ToldOnce(u, p)
            /\ Silent(u, w.active)
  BY ModalTimerEnds
<1> HIDE DEF u
<1>2. SdkShape(v) /\ Kept(v, u) /\ v.screen = u.screen /\ v.timers = u.timers
  BY <1>1, ScanningFacts
<1> HIDE DEF v
<1>3. Kept(v, w) /\ v.screen = w.screen
  BY <1>1, <1>2 DEF Kept
<1>4. \A p : SameTold(v, w, p)
  BY <1>1, <1>2 DEF SameTold, Kept
<1>5. SameOf(v, w, {"verified"}) /\ SameOf(v, u, ModalTimers)
  BY <1>1, <1>2 DEF SameOf
<1>6. v.active = w.active /\ v.fn = w.fn /\ v.shown = w.shown /\ v.told = w.told
  BY <1>3 DEF Kept
<1>7. TellsAtLast(v)
  BY <1>2, <1>3, <1>4, <1>6, SameToldFacts, AtLastKept
<1>8. TellsOnce(v)
  <2> SUFFICES ASSUME w.fn \notin Twice
               PROVE  /\ OneTimer(v) /\ \A p \in Payloads : ToldOnce(v, p)
                      /\ Silent(v, v.active)
    BY <1>6 DEF TellsOnce
  <2>1. Of(v, ModalTimers) = {}
    BY <1>1, <1>2, <1>5, SameOfFacts
  <2>2. OneTimer(v)
    BY <2>1 DEF OneTimer
  <2>3. \A p : SameTold(v, u, p)
    BY <1>1, <1>4 DEF SameTold
  <2> QED
    BY <1>1, <1>2, <1>6, <2>2, <2>3, SameToldFacts
<1>9. Keeps(v, w)
  BY <1>2, <1>4, <1>6, FreshSame DEF Keeps
<1> QED
  BY <1>2, <1>3, <1>5, <1>7, <1>8, <1>9 DEF TellsOn, u, v

\* The scan of a nested modal leads to the last screen, and tells.
LEMMA NestedTells ==
    ASSUME NEW w, SdkShape(w), NEW t \in Of(w, ModalTimers), TellsOnce(w),
           t.do = "nested", NEW e \in From(w.fn, t.at, "scan")
    PROVE  LET v == More(Enter(Ended(w, t), e.to), Callback("tell", e.to, t.for))
           IN  SdkShape(v) /\ Kept(v, w) /\ TellsOn(v, w)
<1> DEFINE u == Ended(w, t)
           n == Enter(u, e.to)
           c == Callback("tell", e.to, t.for)
           v == More(n, c)
<1>1. /\ SdkShape(u) /\ Kept(u, w) /\ w.active \in Payloads
      /\ \A p : p # t.for => SameTold(u, w, p)
      /\ SameOf(u, w, {"verified"}) /\ t \in BagToSet(w.timers)
      /\ w.fn \notin Twice =>
            /\ Of(u, ModalTimers) = {} /\ \A p \in Payloads : ToldOnce(u, p)
            /\ ModalOf(w.fn).nested /\ Silent(u, t.for)
  <2>1. t.do # "wait" /\ t.do # "scan"
    OBVIOUS
  <2> QED
    BY <2>1, ModalTimerEnds
<1>2. t.for \in Payloads /\ t \in Telling(w, t.for)
  BY <1>1, OfFacts DEF Telling, Of
<1> HIDE DEF u
<1>3. u.active = w.active /\ u.active # NoPayload /\ u.fn = w.fn /\ u.shown = w.shown
  BY <1>1 DEF Kept, Payloads, NoPayload
<1>4. e.to \in Screens(w.fn) /\ w.fn \in Functions
  BY <1>1, <1>3 DEF From, Screens, SdkShape
<1>5. w.fn \notin Twice =>
          e.to \notin ModalOf(w.fn).ends /\ e.to \in LastScreens(w.fn)
  BY <1>1, <1>4, ScreensOrderly
<1>6. /\ SdkShape(n) /\ Kept(n, u) /\ n.screen = e.to /\ TellsOn(n, u)
      /\ \A p : p # u.active \/ e.to \notin ModalOf(u.fn).ends => SameTold(n, u, p)
  BY <1>1, <1>3, <1>4, <1>5, EnterTells
<1> HIDE DEF n
<1>7. c.do = "tell" /\ c.for = t.for
  BY DEF Callback
<1> HIDE DEF c
<1>8. MoreBy(v, n, {c})
  BY <1>2, <1>6, <1>7, MoreFacts DEF ModalTimers
<1> HIDE DEF v
<1>9. n.fn = w.fn /\ n.active = w.active /\ n.shown = w.shown
  BY <1>3, <1>6 DEF Kept
<1>10. w.fn \notin Twice => Silent(n, t.for)
  BY <1>1, <1>3, <1>5, <1>6, SameToldFacts
<1>11. /\ TellsOnce(v) /\ SameOf(v, n, {"verified"})
       /\ \A p : p # t.for => SameTold(v, n, p)
       /\ Telling(v, t.for) # {}
  BY <1>2, <1>5, <1>6, <1>7, <1>8, <1>9, <1>10, TellAdded DEF TellsOn
<1>12. /\ SdkShape(v) /\ Kept(v, n) /\ v.screen = n.screen
  BY <1>8 DEF MoreBy
<1>13. Kept(v, w) /\ v.active = w.active /\ v.fn = w.fn /\ v.shown = w.shown
  BY <1>1, <1>6, <1>12 DEF Kept
<1>14. TellsAtLast(v)
  <2>1. v.active \in Payloads /\ v.told = n.told
    BY <1>1, <1>12, <1>13 DEF Kept
  <2>2. Telling(n, v.active) # {} => Telling(v, v.active) # {}
    BY <1>6, <1>11, <1>12, SameToldFacts
  <2> QED
    BY <1>6, <1>9, <1>12, <1>13, <2>1, <2>2, AtLastKept DEF TellsOn
<1>15. SameOf(v, w, {"verified"})
  BY <1>1, <1>6, <1>11 DEF SameOf, TellsOn
<1>16. Keeps(v, w)
  <2> SUFFICES ASSUME NEW q \in Payloads, Fresh(w, q)
               PROVE  Fresh(v, q)
    BY DEF Keeps
  <2>1. ASSUME w.fn \notin Twice
        PROVE  SameTold(v, w, q)
    <3>1. q # t.for
      BY <1>2, <2>1 DEF Fresh, Silent
    <3>2. q # u.active
      BY <1>3 DEF Fresh
    <3> QED
      BY <1>1, <1>6, <1>11, <3>1, <3>2 DEF SameTold
  <2> QED
    BY <1>12, <1>13, <2>1, FreshSame
<1> QED
  BY <1>11, <1>12, <1>13, <1>14, <1>15, <1>16 DEF TellsOn, u, n, c, v

\* Entering the face screen, by a timer of its own, begins a scan.
LEMMA FaceTells ==
    ASSUME NEW w, SdkShape(w), NEW t \in Of(w, ModalTimers), TellsOnce(w), TellsAtLast(w),
           t.do = "face", NEW m, NEW c, MoreBy(m, Ended(w, t), {c}), c.do = "scan"
    PROVE  LET v == [m EXCEPT !.scanning = TRUE]
           IN  SdkShape(v) /\ Kept(v, w) /\ TellsOn(v, w)
<1> DEFINE u == Ended(w, t)
           v == [m EXCEPT !.scanning = TRUE]
<1>1. /\ SdkShape(u) /\ Kept(u, w) /\ u.screen = w.screen
      /\ \A p : SameTold(u, w, p)
      /\ SameOf(u, w, {"verified"}) /\ w.fn \in Twice
  <2>1. t.do # "nested" /\ t.do # "wait" /\ t.do # "scan"
    OBVIOUS
  <2> QED
    BY <2>1, ModalTimerEnds
<1>2. MoreBy(m, u, {c})
  OBVIOUS
<1> HIDE DEF u
<1>3. SdkShape(v) /\ Kept(v, m) /\ v.screen = m.screen /\ v.timers = m.timers
  BY <1>2, ScanningFacts DEF MoreBy
<1> HIDE DEF v
<1>4. \A k : k # c => Copies(v.timers, k) = Copies(u.timers, k)
  <2>1. \A k : Copies(u.timers, k) \in Nat
    BY <1>1, CopiesFacts
  <2> QED
    BY <1>2, <1>3, <2>1 DEF MoreBy
<1>5. Kept(v, w) /\ v.screen = w.screen
  BY <1>1, <1>2, <1>3 DEF Kept, MoreBy
<1>6. v.active = w.active /\ v.fn = w.fn /\ v.shown = w.shown /\ v.told = w.told
  BY <1>5 DEF Kept
<1>7. \A p : SameTold(v, w, p)
  BY <1>1, <1>4, <1>6 DEF SameTold, TellKinds
<1>8. SameOf(v, w, {"verified"})
  BY <1>1, <1>4 DEF SameOf
<1>9. TellsAtLast(v)
  BY <1>3, <1>5, <1>6, <1>7, SameToldFacts, AtLastKept
<1>10. TellsOnce(v)
  BY <1>1, <1>6 DEF TellsOnce
<1>11. Keeps(v, w)
  BY <1>3, <1>6, <1>7, FreshSame DEF Keeps
<1> QED
  BY <1>3, <1>5, <1>8, <1>9, <1>10, <1>11 DEF TellsOn, v

\* The button of a scan is pressed.
LEMMA ScanTells ==
    ASSUME NEW w, SdkShape(w), w.active # NoPayload, ~ w.scanning,
           From(w.fn, w.screen, "scan") # {}, TellsOnce(w), TellsAtLast(w),
           NEW c, c = Callback(IF ModalOf(w.fn).nested THEN "nested" ELSE "scan",
                               w.screen, w.active),
           NEW m, MoreBy(m, Drop(w, Of(w, {"wait"})), {c})
    PROVE  LET v == [m EXCEPT !.scanning = TRUE]
           IN  SdkShape(v) /\ Kept(v, w) /\ TellsOn(v, w)
<1> DEFINE v == [m EXCEPT !.scanning = TRUE]
           a == w.active
<1>1. /\ SdkShape(m) /\ Kept(m, w) /\ m.screen = w.screen
      /\ \A t : Copies(m.timers, t)
              = (IF t \in Of(w, {"wait"}) THEN 0 ELSE Copies(w.timers, t))
                    + (IF t = c THEN 1 ELSE 0)
  <2> DEFINE d == Drop(w, Of(w, {"wait"}))
  <2>1. /\ Kept(d, w) /\ d.screen = w.screen
        /\ \A t : Copies(d.timers, t) = IF t \in Of(w, {"wait"}) THEN 0
                                        ELSE Copies(w.timers, t)
    BY DropFacts
  <2>2. MoreBy(m, d, {c})
    OBVIOUS
  <2> HIDE DEF d
  <2> QED
    BY <2>1, <2>2 DEF MoreBy, Kept
<1>2. SdkShape(v) /\ Kept(v, m) /\ v.screen = m.screen /\ v.timers = m.timers /\ v.scanning
  BY <1>1, ScanningFacts
<1> HIDE DEF v
<1>3. /\ c.do = (IF ModalOf(w.fn).nested THEN "nested" ELSE "scan")
      /\ c.at = w.screen /\ c.for = a
  BY DEF Callback
<1>4. Kept(v, w) /\ v.screen = w.screen
  BY <1>1, <1>2 DEF Kept
<1>5. v.active = a /\ v.fn = w.fn /\ v.shown = w.shown /\ v.told = w.told
  BY <1>4 DEF Kept
<1>6. \A t : Copies(w.timers, t) \in Nat
  BY CopiesFacts
<1>7. \A t : t.do # "wait" /\ t # c => Copies(v.timers, t) = Copies(w.timers, t)
  BY <1>1, <1>2, <1>6, OfFacts
<1>8. \A t : t.do # "wait" => Copies(v.timers, t)
                                  = Copies(w.timers, t) + (IF t = c THEN 1 ELSE 0)
  BY <1>1, <1>2, OfFacts
<1>9. SameOf(v, w, {"verified"})
  BY <1>3, <1>7 DEF SameOf
<1>10. \A p : c.do # "nested" \/ p # a => SameTold(v, w, p)
  BY <1>3, <1>5, <1>7 DEF SameTold, TellKinds
<1>11. TellsAtLast(v)
  <2>1. Telling(w, a) # {} => Telling(v, a) # {}
    <3> SUFFICES ASSUME NEW t \in Telling(w, a)
                 PROVE  t \in Telling(v, a)
      OBVIOUS
    <3>1. Copies(w.timers, t) > 0 /\ t.do \in TellKinds /\ t.for = a
      BY TellingFacts
    <3>2. /\ Copies(v.timers, t) = Copies(w.timers, t) + (IF t = c THEN 1 ELSE 0)
          /\ Copies(w.timers, t) \in Nat
      BY <1>6, <1>8, <3>1 DEF TellKinds
    <3>3. Copies(v.timers, t) > 0
      BY <3>1, <3>2
    <3> QED
      BY <1>2, <3>1, <3>3, TellingFacts
  <2> QED
    BY <1>2, <1>4, <1>5, <2>1, AtLastKept
<1>12. Keeps(v, w)
  BY <1>2, <1>5, <1>10, FreshSame DEF Keeps, Fresh
<1>13. TellsOnce(v)
  <2> SUFFICES ASSUME w.fn \notin Twice
               PROVE  /\ OneTimer(v) /\ \A p \in Payloads : ToldOnce(v, p)
                      /\ Of(v, {"nested"}) = {} => Silent(v, a)
    BY <1>5 DEF TellsOnce
  <2>1. w.fn \in Functions
    BY DEF SdkShape
  <2>2. OneTimer(w) /\ \A p \in Payloads : ToldOnce(w, p)
    BY DEF TellsOnce
  <2>3. \A t \in Of(w, ModalTimers) : t.do = "wait"
    BY <2>2 DEF OneTimer
  <2>4. Silent(w, a)
    <3>1. Of(w, {"nested"}) = {}
      BY <2>3 DEF Of, ModalTimers
    <3>2. w.screen \notin LastScreens(w.fn)
      BY <2>1, ScreensOrderly
    <3> QED
      BY <3>1, <3>2 DEF TellsOnce
  <2>5. \A t : t.do \in ModalTimers /\ t # c => Copies(v.timers, t) = 0
    <3> SUFFICES ASSUME NEW t, t.do \in ModalTimers, t # c
                 PROVE  Copies(v.timers, t) = 0
      OBVIOUS
    <3>1. CASE t.do = "wait"
      <4>1. t \in Of(w, {"wait"}) \/ Copies(w.timers, t) = 0
        BY <1>6, <3>1, OfFacts
      <4>2. Copies(v.timers, t)
              = (IF t \in Of(w, {"wait"}) THEN 0 ELSE Copies(w.timers, t)) + 0
        BY <1>1, <1>2
      <4> QED
        BY <4>1, <4>2
    <3>2. CASE t.do # "wait"
      <4>1. Copies(w.timers, t) = 0
        BY <1>6, <2>3, <3>2, OfFacts
      <4> QED
        BY <1>7, <3>2, <4>1
    <3> QED
      BY <3>1, <3>2
  <2>6. Copies(v.timers, c) = 1
    <3>1. Copies(w.timers, c) = 0
      BY <1>3, <1>6, <2>3, OfFacts DEF ModalTimers
    <3> QED
      BY <1>3, <1>8, <3>1
  <2>7. OneTimer(v)
    <3>1. \A t \in Of(v, ModalTimers) : t = c
      <4>1. \A t \in Of(v, ModalTimers) : Copies(v.timers, t) > 0 /\ t.do \in ModalTimers
        BY <1>2, OfFacts
      <4> QED
        BY <2>5, <4>1
    <3> QED
      BY <1>2, <1>3, <1>4, <1>5, <2>6, <3>1 DEF OneTimer
  <2>8. ASSUME NEW p \in Payloads
        PROVE  ToldOnce(v, p)
    <3>1. CASE c.do # "nested" \/ p # a
      BY <1>2, <1>10, <2>2, <3>1, SameToldFacts
    <3>2. CASE p = a
      <4>1. \A t \in Telling(v, a) : t = c
        <5> SUFFICES ASSUME NEW t \in Telling(v, a), t # c
                     PROVE  FALSE
          OBVIOUS
        <5>1. Copies(v.timers, t) > 0 /\ t.do \in TellKinds /\ t.for = a
          BY <1>2, TellingFacts
        <5>2. Copies(w.timers, t) > 0
          BY <1>7, <5>1 DEF TellKinds
        <5>3. t \in Telling(w, a)
          BY <5>1, <5>2, TellingFacts
        <5> QED
          BY <2>4, <5>3 DEF Silent
      <4>2. v.told[a] = 0
        BY <1>5, <2>4 DEF Silent
      <4> QED
        BY <2>6, <3>2, <4>1, <4>2 DEF ToldOnce
    <3> QED
      BY <3>1, <3>2
  <2>9. Of(v, {"nested"}) = {} => Silent(v, a)
    <3> SUFFICES ASSUME Of(v, {"nested"}) = {}
                 PROVE  Silent(v, a)
      OBVIOUS
    <3>1. c.do # "nested"
      <4>1. Copies(v.timers, c) > 0
        BY <2>6
      <4> QED
        BY <1>2, <4>1, OfFacts
    <3> QED
      BY <1>2, <1>10, <2>4, <3>1, SameToldFacts
  <2> QED
    BY <2>7, <2>8, <2>9
<1> QED
  BY <1>2, <1>4, <1>9, <1>11, <1>12, <1>13 DEF TellsOn, v

\* A button tells, which only a modal that tells twice has.
LEMMA ButtonTells ==
    ASSUME NEW w, SdkShape(w), w.active # NoPayload, TellsOnce(w), TellsAtLast(w),
           From(w.fn, w.screen, "tell") # {}
    PROVE  TellsOn(Tells(w, w.active), w)
<1> DEFINE a == w.active
           v == Tells(w, a)
<1>1. a \in Payloads /\ w.fn \in Functions
  BY DEF SdkShape
<1>2. /\ SdkShape(v) /\ Same(v, w, {"told"}) /\ v.told[a] = w.told[a] + 1
      /\ w.told[a] \in Nat
  BY <1>1, TellsFacts DEF SdkShape
<1> HIDE DEF v
<1>3. w.fn \in Twice
  BY <1>1, ScreensOrderly
<1>4. /\ v.active = w.active /\ v.fn = w.fn /\ v.screen = w.screen /\ v.shown = w.shown
      /\ v.timers = w.timers
  BY <1>2 DEF Same
<1>5. v.told[v.active] > 0
  BY <1>2, <1>4
<1>6. TellsAtLast(v) /\ TellsOnce(v)
  BY <1>2, <1>3, <1>4, <1>5, AtLastKept DEF TellsOnce
<1>7. Keeps(v, w) /\ SameOf(v, w, {"verified"})
  BY <1>3, <1>4 DEF Keeps, Fresh, SameOf
<1> QED
  BY <1>6, <1>7 DEF TellsOn, v

\* A timer of the host's has ended; nothing tells of its payload any more.
LEMMA HostTimerEnds ==
    ASSUME NEW w, SdkShape(w), NEW t \in Of(w, {"tell", "orphan"}), TellsOnce(w)
    PROVE  LET u == Ended(w, t)
           IN  /\ SdkShape(u) /\ Kept(u, w) /\ u.screen = w.screen
               /\ t.for \in Payloads /\ t \in Telling(w, t.for)
               /\ \A p : p # t.for => SameTold(u, w, p)
               /\ SameOf(u, w, {"verified"}) /\ TellsOnce(u)
               /\ w.fn \notin Twice =>
                     /\ Silent(u, t.for)
                     /\ \/ w.active # t.for \/ Of(u, {"nested"}) # {}
                        \/ w.screen \in LastScreens(w.fn)
<1> DEFINE u == Ended(w, t)
<1>1. t \in BagToSet(w.timers) /\ t.do \in {"tell", "orphan"} /\ t.for \in Payloads
  BY OfFacts DEF Of
<1>2. /\ SdkShape(u) /\ Kept(u, w) /\ u.screen = w.screen /\ u.scanning = w.scanning
  BY <1>1, EndedFacts
<1>3. \A p : p # t.for => SameTold(u, w, p)
  BY <1>1, EndedSame
<1>4. /\ SameOf(u, w, {"verified"}) /\ SameOf(u, w, ModalTimers)
      /\ SameOf(u, w, {"nested"})
  BY <1>1, EndedSameOf DEF ModalTimers
<1>5. t \in Telling(w, t.for)
  BY <1>1, OfFacts, TellingFacts, CopiesFacts DEF TellKinds, BagToSet
<1>6. w.fn \notin Twice => Silent(u, t.for)
  BY <1>1, TellEnds DEF TellKinds, TellsOnce
<1> HIDE DEF u
<1>7. u.active = w.active /\ u.fn = w.fn
  BY <1>2 DEF Kept
<1>8. Of(u, ModalTimers) = Of(w, ModalTimers) /\ Of(u, {"nested"}) = Of(w, {"nested"})
  BY <1>2, <1>4, SameOfFacts
<1>9. ASSUME w.fn \notin Twice
      PROVE  /\ OneTimer(u) /\ \A p \in Payloads : ToldOnce(u, p)
             /\ \/ w.active # t.for \/ Of(u, {"nested"}) # {}
                \/ w.screen \in LastScreens(w.fn)
             /\ /\ w.active # NoPayload /\ Of(u, {"nested"}) = {}
                /\ w.screen \notin LastScreens(w.fn)
                => Silent(u, w.active)
  <2>1. /\ OneTimer(w) /\ \A p \in Payloads : ToldOnce(w, p)
        /\ /\ w.active # NoPayload /\ Of(w, {"nested"}) = {}
           /\ w.screen \notin LastScreens(w.fn)
           => Silent(w, w.active)
    BY <1>9 DEF TellsOnce
  <2>2. \A c \in Of(u, ModalTimers) : Copies(u.timers, c) = Copies(w.timers, c)
    BY <1>2, <1>4, OfFacts DEF SameOf
  <2>3. OneTimer(u)
    BY <1>2, <1>7, <1>8, <2>1, <2>2 DEF OneTimer
  <2>4. ASSUME NEW p \in Payloads
        PROVE  ToldOnce(u, p)
    <3>1. CASE p = t.for
      BY <1>6, <1>9, <3>1 DEF Silent, ToldOnce
    <3>2. CASE p # t.for
      BY <1>2, <1>3, <2>1, <3>2, SameToldFacts
    <3> QED
      BY <3>1, <3>2
  <2>5. \/ w.active # t.for \/ Of(u, {"nested"}) # {}
        \/ w.screen \in LastScreens(w.fn)
    <3>1. ~ Silent(w, t.for)
      BY <1>5 DEF Silent
    <3>2. t.for # NoPayload
      BY <1>1 DEF Payloads, NoPayload
    <3> QED
      BY <1>8, <2>1, <3>1, <3>2
  <2>6. /\ w.active # NoPayload /\ Of(u, {"nested"}) = {}
        /\ w.screen \notin LastScreens(w.fn)
        => Silent(u, w.active)
    BY <1>2, <1>3, <1>8, <2>1, <2>5, SameToldFacts
  <2> QED
    BY <2>3, <2>4, <2>5, <2>6
<1>10. TellsOnce(u)
  BY <1>2, <1>7, <1>9 DEF TellsOnce
<1> QED
  BY <1>1, <1>2, <1>3, <1>4, <1>5, <1>6, <1>9, <1>10 DEF u

\* onSuccess is called by a timer.
LEMMA TimerTells ==
    ASSUME NEW w, SdkShape(w), NEW t \in Of(w, {"tell", "orphan"}), TellsOnce(w),
           TellsAtLast(w)
    PROVE  TellsOn(Tells(Ended(w, t), t.for), w)
<1> DEFINE u == Ended(w, t)
           v == Tells(u, t.for)
<1>1. /\ SdkShape(u) /\ Kept(u, w) /\ u.screen = w.screen
      /\ t.for \in Payloads /\ t \in Telling(w, t.for)
      /\ \A p : p # t.for => SameTold(u, w, p)
      /\ SameOf(u, w, {"verified"}) /\ TellsOnce(u)
      /\ w.fn \notin Twice =>
            /\ Silent(u, t.for)
            /\ \/ w.active # t.for \/ Of(u, {"nested"}) # {}
               \/ w.screen \in LastScreens(w.fn)
  BY HostTimerEnds
<1> HIDE DEF u
<1>2. /\ SdkShape(v) /\ Same(v, u, {"told"}) /\ v.told[t.for] = u.told[t.for] + 1
      /\ \A q \in Payloads \ {t.for} : v.told[q] = u.told[q]
      /\ u.told[t.for] \in Nat
  BY <1>1, TellsFacts DEF SdkShape
<1> HIDE DEF v
<1>3. /\ v.active = w.active /\ v.fn = w.fn /\ v.screen = w.screen /\ v.shown = w.shown
      /\ v.scanning = u.scanning /\ v.timers = u.timers
      /\ u.active = w.active /\ u.fn = w.fn
  BY <1>1, <1>2 DEF Same, Kept
<1>4. /\ SameOf(v, w, {"verified"}) /\ SameOf(v, u, ModalTimers)
      /\ SameOf(v, u, {"nested"})
  BY <1>1, <1>3 DEF SameOf
<1>5. \A p \in Payloads : p # t.for => SameTold(v, w, p) /\ SameTold(v, u, p)
  BY <1>1, <1>2, <1>3 DEF SameTold
<1>6. TellsAtLast(v)
  <2>1. CASE w.active = t.for
    BY <1>1, <1>2, <1>3, <2>1, AtLastKept
  <2>2. CASE w.active \in Payloads /\ w.active # t.for
    <3>1. SameTold(v, w, w.active)
      BY <1>5, <2>2
    <3>2. v.told[w.active] = w.told[w.active] /\ Telling(v, w.active) = Telling(w, w.active)
      BY <1>2, <3>1, SameToldFacts DEF SameTold
    <3> QED
      BY <1>2, <1>3, <3>2, AtLastKept
  <2>3. CASE w.active \notin Payloads
    BY <1>2, <1>3, <2>3, AtLastKept
  <2> QED
    BY <2>1, <2>2, <2>3
<1>7. ASSUME w.fn \notin Twice
      PROVE  /\ OneTimer(v) /\ \A p \in Payloads : ToldOnce(v, p)
             /\ /\ v.active # NoPayload /\ Of(v, {"nested"}) = {}
                /\ v.screen \notin LastScreens(v.fn)
                => Silent(v, v.active)
  <2>1. /\ OneTimer(u) /\ \A p \in Payloads : ToldOnce(u, p)
        /\ /\ u.active # NoPayload /\ Of(u, {"nested"}) = {}
           /\ u.screen \notin LastScreens(u.fn)
           => Silent(u, u.active)
    BY <1>1, <1>3, <1>7 DEF TellsOnce
  <2>2. Of(v, ModalTimers) = Of(u, ModalTimers) /\ Of(v, {"nested"}) = Of(u, {"nested"})
    BY <1>3 DEF Of
  <2>3. OneTimer(v)
    BY <1>1, <1>3, <2>1, <2>2 DEF OneTimer
  <2>4. ASSUME NEW p \in Payloads
        PROVE  ToldOnce(v, p)
    <3>1. CASE p # t.for
      BY <1>1, <1>2, <1>5, <2>1, <3>1, SameToldFacts
    <3>2. CASE p = t.for
      <4>1. u.told[p] = 0 /\ Telling(u, p) = {}
        BY <1>1, <1>7, <3>2 DEF Silent
      <4>2. Telling(v, p) = {}
        <5>1. \A k : k \notin Telling(v, p)
          BY <1>1, <1>2, <1>3, <4>1, TellingFacts
        <5> QED
          BY <5>1
      <4>3. v.told[p] = 1
        BY <1>2, <3>2, <4>1
      <4> QED
        BY <4>2, <4>3 DEF ToldOnce
    <3> QED
      BY <3>1, <3>2
  <2>5. ASSUME v.active # NoPayload, Of(v, {"nested"}) = {},
               v.screen \notin LastScreens(v.fn)
        PROVE  Silent(v, v.active)
    <3>1. Silent(u, u.active)
      BY <1>1, <1>3, <2>1, <2>2, <2>5
    <3>2. v.active # t.for /\ v.active \in Payloads
      BY <1>1, <1>2, <1>3, <1>7, <2>2, <2>5 DEF SdkShape
    <3> QED
      BY <1>1, <1>2, <1>3, <1>5, <3>1, <3>2, SameToldFacts
  <2> QED
    BY <2>3, <2>4, <2>5
<1>8. TellsOnce(v)
  BY <1>3, <1>7 DEF TellsOnce
<1>9. Keeps(v, w)
  <2> SUFFICES ASSUME NEW q \in Payloads, Fresh(w, q)
               PROVE  Fresh(v, q)
    BY DEF Keeps
  <2>1. w.fn \notin Twice => q # t.for
    BY <1>1 DEF Fresh, Silent
  <2> QED
    BY <1>2, <1>3, <1>5, <2>1, FreshSame
<1> QED
  BY <1>4, <1>6, <1>8, <1>9 DEF TellsOn, u, v

\* The scan of a nested modal that is gone starts the timer that tells.
LEMMA OrphanTells ==
    ASSUME NEW w, SdkShape(w), NEW t \in Of(w, {"tell", "orphan"}), TellsOnce(w),
           TellsAtLast(w), NEW c, c.do = "tell", c.for = t.for, NEW v,
           MoreBy(v, Ended(w, t), {c}), t.do = "orphan"
    PROVE  TellsOn(v, w)
<1> DEFINE u == Ended(w, t)
<1>1. /\ SdkShape(u) /\ Kept(u, w) /\ u.screen = w.screen
      /\ t.for \in Payloads /\ t \in Telling(w, t.for)
      /\ \A p : p # t.for => SameTold(u, w, p)
      /\ SameOf(u, w, {"verified"}) /\ TellsOnce(u)
      /\ w.fn \notin Twice =>
            /\ Silent(u, t.for)
            /\ \/ w.active # t.for \/ Of(u, {"nested"}) # {}
               \/ w.screen \in LastScreens(w.fn)
  BY HostTimerEnds
<1>2. MoreBy(v, u, {c})
  OBVIOUS
<1> HIDE DEF u
<1>3. SdkShape(v) /\ Kept(v, u) /\ v.screen = u.screen
  BY <1>2 DEF MoreBy
<1>4. /\ v.active = w.active /\ v.fn = w.fn /\ v.shown = w.shown /\ v.told = w.told
      /\ u.active = w.active /\ u.fn = w.fn
  BY <1>1, <1>3 DEF Kept
<1>5. /\ TellsOnce(v) /\ SameOf(v, u, {"verified"})
      /\ \A p : p # t.for => SameTold(v, u, p)
      /\ Telling(v, t.for) # {}
  BY <1>1, <1>2, <1>4, TellAdded
<1>6. \A p : p # t.for => SameTold(v, w, p)
  BY <1>1, <1>5 DEF SameTold
<1>7. TellsAtLast(v)
  <2>1. CASE w.active = t.for
    <3>1. v.told[v.active] = w.told[v.active] /\ Telling(v, v.active) # {}
      BY <1>4, <1>5, <2>1
    <3> QED
      BY <1>1, <1>3, <1>4, <3>1, AtLastKept
  <2>2. CASE w.active # t.for
    <3>1. v.told[v.active] = w.told[v.active] /\ Telling(v, v.active) = Telling(w, v.active)
      BY <1>3, <1>4, <1>6, <2>2, SameToldFacts
    <3> QED
      BY <1>1, <1>3, <1>4, <3>1, AtLastKept
  <2> QED
    BY <2>1, <2>2
<1>8. Keeps(v, w)
  <2> SUFFICES ASSUME NEW q \in Payloads, Fresh(w, q)
               PROVE  Fresh(v, q)
    BY DEF Keeps
  <2>1. w.fn \notin Twice => q # t.for
    BY <1>1 DEF Fresh, Silent
  <2> QED
    BY <1>3, <1>4, <1>6, <2>1, FreshSame
<1>9. SameOf(v, w, {"verified"})
  BY <1>1, <1>5 DEF SameOf
<1> QED
  BY <1>5, <1>7, <1>8, <1>9 DEF TellsOn

\* A modal takes a payload that waited, or begins for it.
LEMMA ActivateTells ==
    ASSUME NEW v, NEW w, SdkShape(w), NEW p \in Payloads, Activated(v, w, p),
           TellsOnce(w), Fresh(w, p)
    PROVE  /\ TellsOnce(v) /\ TellsAtLast(v) /\ SameOf(v, w, {"verified"})
           /\ \A q \in Payloads : Fresh(w, q) /\ q # p => Fresh(v, q)
<1>1. /\ SdkShape(v) /\ v.active = p /\ v.told = w.told /\ p # NoPayload
  BY DEF Activated, Payloads, NoPayload
<1>2. CASE w.active # NoPayload
  <2>1. /\ v.screen = w.screen /\ v.scanning = w.scanning /\ v.fn = w.fn
        /\ v.timers = w.timers /\ v.shown = w.shown
    BY <1>2 DEF Activated
  <2>2. \A q : SameTold(v, w, q)
    BY <1>1, <2>1 DEF SameTold
  <2>3. \A q : /\ Silent(w, q) => Silent(v, q)
               /\ ToldOnce(w, q) => ToldOnce(v, q)
    BY <1>1, <2>2, SameToldFacts
  <2>4. OneTimer(w) => OneTimer(v)
    BY <2>1 DEF OneTimer, Of
  <2>5. TellsOnce(v)
    BY <1>1, <2>1, <2>3, <2>4 DEF TellsOnce, Fresh
  <2>6. TellsAtLast(v)
    BY <1>1, <2>1 DEF TellsAtLast, Fresh
  <2>7. ASSUME NEW q \in Payloads, Fresh(w, q), q # p
        PROVE  Fresh(v, q)
    BY <1>1, <2>1, <2>3, <2>7 DEF Fresh
  <2> QED
    BY <2>1, <2>5, <2>6, <2>7 DEF SameOf
<1>3. CASE w.active = NoPayload
  <2>1. /\ v.fn \in Functions /\ w.fn \in {"none", v.fn}
        /\ v.shown = w.shown \cup {p}
        /\ \A t : Copies(v.timers, t) = Copies(w.timers, t)
                      + (IF t \in Begun(v, v.screen) THEN 1 ELSE 0)
    BY <1>3 DEF Activated
  <2>2. v.fn \notin Twice => w.fn \notin Twice
    BY <2>1 DEF Twice
  <2>3. Of(w, ModalTimers) = {}
    BY <1>3 DEF SdkShape
  <2>4. v.fn \notin Twice => Silent(w, p) /\ \A q \in Payloads : ToldOnce(w, q)
    BY <2>2 DEF Fresh, TellsOnce
  <2>5. /\ TellsOnce(v) /\ TellsAtLast(v) /\ SameOf(v, w, {"verified"})
        /\ \A q : q # v.active => SameTold(v, w, q)
    BY <1>1, <2>1, <2>3, <2>4, BegunTells
  <2>6. ASSUME NEW q \in Payloads, Fresh(w, q), q # p
        PROVE  Fresh(v, q)
    <3>1. Silent(w, q) => Silent(v, q)
      BY <1>1, <2>5, <2>6, SameToldFacts
    <3> QED
      BY <1>1, <2>1, <2>2, <2>6, <3>1 DEF Fresh
  <2> QED
    BY <2>5, <2>6
<1> QED
  BY <1>2, <1>3

\* A modal is gone: what its nested scan was to tell is told by its orphan.
LEMMA UnmountTells ==
    ASSUME NEW w, SdkShape(w), TellsOnce(w)
    PROVE  TellsOn(Unmount(w), w)
<1> DEFINE v == Unmount(w)
<1>1. /\ SdkShape(v) /\ v.active = NoPayload /\ v.fn = w.fn
      /\ v.told = w.told /\ v.shown = w.shown
      /\ \A t : Copies(v.timers, t)
              = (IF t \in Of(w, ModalTimers) THEN 0 ELSE Copies(w.timers, t))
                    + (IF t \in Orphans(w) THEN 1 ELSE 0)
  BY UnmountFacts
<1> HIDE DEF v
<1>2. \A t : Copies(w.timers, t) \in Nat /\ Copies(v.timers, t) \in Nat
  BY <1>1, CopiesFacts
<1>3. \A o \in Orphans(w) : o.do = "orphan"
                           /\ \E t \in Of(w, {"nested"}) : o = Callback("orphan", t.at, t.for)
  BY DEF Orphans, Callback
<1>4. \A t : t.do \notin ModalTimers /\ t.do # "orphan" =>
                 Copies(v.timers, t) = Copies(w.timers, t)
  <2>1. \A t : t.do \notin ModalTimers => t \notin Of(w, ModalTimers)
    BY DEF Of
  <2> QED
    BY <1>1, <1>2, <1>3, <2>1
<1>5. SameOf(v, w, {"verified"})
  BY <1>4 DEF SameOf, ModalTimers
<1>6. Of(v, ModalTimers) = {}
  BY <1>1 DEF SdkShape
<1>7. TellsAtLast(v)
  BY <1>1 DEF TellsAtLast
<1>8. \A p : Telling(w, p) = {} => Telling(v, p) = {}
  <2> SUFFICES ASSUME NEW p, Telling(w, p) = {}, NEW t \in Telling(v, p)
               PROVE  FALSE
    OBVIOUS
  <2>1. Copies(v.timers, t) > 0 /\ t.do \in TellKinds /\ t.for = p
    BY <1>1, TellingFacts
  <2>2. Copies(w.timers, t) = 0
    BY <1>2, <2>1, TellingFacts
  <2>3. t \in Orphans(w)
    BY <1>1, <2>1, <2>2
  <2>4. PICK n \in Of(w, {"nested"}) : t = Callback("orphan", n.at, n.for)
    BY <1>3, <2>3
  <2>5. n.for = p /\ n \in Telling(w, p)
    BY <2>1, <2>4, OfFacts, TellingFacts, CallbackFacts DEF TellKinds
  <2> QED
    BY <2>5
<1>9. Keeps(v, w)
  <2>1. \A q \in Payloads : q # NoPayload
    BY DEF Payloads, NoPayload
  <2> QED
    BY <1>1, <1>8, <2>1 DEF Keeps, Fresh, Silent
<1>10. TellsOnce(v)
  <2> SUFFICES ASSUME w.fn \notin Twice, NEW p \in Payloads
               PROVE  ToldOnce(v, p)
    <3>1. w.fn \notin Twice => OneTimer(v)
      BY <1>6 DEF OneTimer
    <3> QED
      BY <1>1, <3>1 DEF TellsOnce
  <2>1. ToldOnce(w, p) /\ OneTimer(w)
    BY DEF TellsOnce
  <2>2. CASE \A n \in Of(w, {"nested"}) : n.for # p
    <3>1. \A o \in Orphans(w) : o.for # p
      BY <1>3, <2>2, CallbackFacts
    <3>2. \A t : t.do \in TellKinds /\ t.for = p => t \notin Of(w, ModalTimers)
      BY <2>2, OfFacts DEF TellKinds, ModalTimers
    <3>3. SameTold(v, w, p)
      BY <1>1, <1>2, <3>1, <3>2 DEF SameTold
    <3> QED
      BY <1>1, <2>1, <3>3, SameToldFacts
  <2>3. ASSUME NEW n \in Of(w, {"nested"}), n.for = p
        PROVE  ToldOnce(v, p)
    <3> DEFINE o == Callback("orphan", n.at, p)
    <3>1. o.do = "orphan" /\ o.for = p
      BY DEF Callback
    <3>2. n \in Telling(w, p) /\ n.do = "nested" /\ n \in Of(w, ModalTimers)
      BY <2>3, OfFacts, TellingFacts DEF TellKinds, ModalTimers
    <3>3. \A t \in Telling(w, p) : t = n
      BY <2>1, <3>2 DEF ToldOnce
    <3>4. Orphans(w) = {o}
      <4>1. \A m \in Of(w, {"nested"}) : m = n
        <5>1. \A m \in Of(w, {"nested"}) : m \in Of(w, ModalTimers)
          BY OfFacts DEF ModalTimers
        <5> QED
          BY <2>1, <3>2, <5>1 DEF OneTimer
      <4> QED
        BY <2>3, <4>1 DEF Orphans
    <3> HIDE DEF o
    <3>5. \A t \in Telling(v, p) : t = o
      <4> SUFFICES ASSUME NEW t \in Telling(v, p), t # o
                   PROVE  FALSE
        OBVIOUS
      <4>1. Copies(v.timers, t) > 0 /\ t.do \in TellKinds /\ t.for = p
        BY <1>1, TellingFacts
      <4>2. t \notin Of(w, ModalTimers) /\ Copies(w.timers, t) > 0
        BY <1>1, <1>2, <3>4, <4>1
      <4>3. t = n
        BY <3>3, <4>1, <4>2, TellingFacts
      <4> QED
        BY <3>2, <4>2, <4>3
    <3>6. Copies(v.timers, o) = 1
      <4>1. o \notin Telling(w, p)
        BY <3>1, <3>2, <3>3
      <4>2. Copies(w.timers, o) = 0
        BY <1>2, <3>1, <4>1, TellingFacts DEF TellKinds
      <4> QED
        BY <1>1, <3>4, <4>2
    <3>7. v.told[p] = 0
      BY <1>1, <2>1, <3>2 DEF ToldOnce
    <3> QED
      BY <3>5, <3>6, <3>7 DEF ToldOnce
  <2> QED
    BY <2>2, <2>3
<1> QED
  BY <1>5, <1>7, <1>9, <1>10 DEF TellsOn, v

-----------------------------------------------------------------------------
(* What the host is told: payloads that wait, and fetches.                 *)

\* The page has moved on from w to v: what waited waits, but for x, which a
\* modal has taken; what is pending is as before, or nothing, or a new launch.
Onward(v, w, x) ==
    /\ w.launches <= v.launches /\ v.active <= v.launches
    /\ \A t : t.do = "verified" => Copies(v.timers, t) <= Copies(w.timers, t)
    /\ \A q \in Payloads : Fresh(w, q) /\ q # x => Fresh(v, q)
    /\ x # NoPayload =>
          /\ x <= v.launches /\ v.pending # x
          /\ \A t \in Of(v, {"verified"}) : t.for # x
    /\ \/ /\ v.pending = w.pending /\ v.gateNo = w.gateNo
          /\ w.gate = "verified" => v.gate = "verified"
       \/ v.pending = NoPayload
       \/ w.launches < v.pending /\ v.pending <= v.launches

\* Launches are numbers from one on.
LEMMA Numbers ==
    /\ NoPayload = 0 /\ \A p \in Payloads : p \in Nat /\ p > 0
    /\ \A w : SdkShape(w) =>
           w.launches \in Nat /\ w.gateNo \in Nat /\ w.pending \in Nat /\ w.active \in Nat
<1>1. NoPayload = 0 /\ \A p \in Payloads : p \in Nat /\ p > 0
  BY SdkAssumption DEF Payloads, NoPayload, SdkAssumption
<1>2. ASSUME NEW w, SdkShape(w)
      PROVE  /\ w.launches \in Nat /\ w.gateNo \in Nat
             /\ w.pending \in Nat /\ w.active \in Nat
  <2>1. /\ w.launches \in 0..MaxLaunches /\ w.gateNo \in Nat
        /\ w.pending \in Payloads \cup {NoPayload} /\ w.active \in Payloads \cup {NoPayload}
    BY <1>2 DEF SdkShape
  <2> QED
    BY <1>1, <2>1, SdkAssumption DEF SdkAssumption
<1> QED
  BY <1>1, <1>2

LEMMA VerifiedKept ==
    ASSUME NEW v, NEW w, SdkShape(v), SdkShape(w), NEW x, Onward(v, w, x)
    PROVE  \A t \in Of(v, {"verified"}) :
              /\ t \in Of(w, {"verified"}) /\ t.for \in Payloads /\ t.for # x
              /\ Copies(w.timers, t) = 1 => Copies(v.timers, t) = 1
<1> SUFFICES ASSUME NEW t \in Of(v, {"verified"})
             PROVE  /\ t \in Of(w, {"verified"}) /\ t.for \in Payloads /\ t.for # x
                    /\ Copies(w.timers, t) = 1 => Copies(v.timers, t) = 1
  OBVIOUS
<1>1. Copies(v.timers, t) > 0 /\ t.do = "verified" /\ t.for \in Payloads
  BY OfFacts
<1>2. /\ Copies(v.timers, t) \in Nat /\ Copies(w.timers, t) \in Nat
      /\ Copies(v.timers, t) <= Copies(w.timers, t)
  BY <1>1, CopiesFacts DEF Onward
<1>3. t \in Of(w, {"verified"})
  BY <1>1, <1>2, OfFacts
<1>4. t.for # x
  BY <1>1 DEF Onward, Payloads, NoPayload
<1> QED
  BY <1>1, <1>2, <1>3, <1>4

LEMMA WaitingKept ==
    ASSUME NEW v, NEW w, SdkShape(v), SdkShape(w), NEW x \in Payloads \cup {NoPayload},
           Onward(v, w, x), Waiting(w)
    PROVE  Waiting(v)
<1>1. /\ v.launches \in Nat /\ w.launches \in Nat /\ v.pending \in Nat /\ x \in Nat
      /\ \A p \in Payloads : p \in Nat /\ p > 0
      /\ NoPayload = 0
  BY Numbers
<1>2. /\ w.launches <= v.launches /\ v.active <= v.launches
      /\ \A q \in Payloads : Fresh(w, q) /\ q # x => Fresh(v, q)
      /\ x # NoPayload => x <= v.launches /\ v.pending # x
  BY DEF Onward
<1>3. \/ /\ v.pending = w.pending /\ v.gateNo = w.gateNo
         /\ w.gate = "verified" => v.gate = "verified"
      \/ v.pending = NoPayload
      \/ w.launches < v.pending /\ v.pending <= v.launches
  BY DEF Onward
<1>4. /\ w.pending <= w.launches
      /\ \A p \in Payloads : p > w.launches \/ p = w.pending => Fresh(w, p)
  BY DEF Waiting
<1>5. v.pending <= v.launches
  BY <1>1, <1>2, <1>3, <1>4
<1>6. ASSUME NEW p \in Payloads, p > v.launches \/ p = v.pending
      PROVE  Fresh(v, p)
  <2>1. p # x
    BY <1>1, <1>2, <1>6
  <2>2. p > w.launches \/ p = w.pending
    BY <1>1, <1>2, <1>3, <1>6
  <2> QED
    BY <1>2, <1>4, <2>1, <2>2
<1>7. \A t \in Of(v, {"verified"}) :
         /\ t \in Of(w, {"verified"}) /\ t.for \in Payloads /\ t.for # x
         /\ Copies(w.timers, t) = 1 => Copies(v.timers, t) = 1
  BY VerifiedKept
<1>8. \A t, u \in Of(v, {"verified"}) : t.for = u.for => t = u
  BY <1>7 DEF Waiting
<1>9. ASSUME NEW t \in Of(v, {"verified"})
      PROVE  /\ Copies(v.timers, t) = 1 /\ t.for <= v.launches /\ Fresh(v, t.for)
             /\ t.for = v.pending => v.gate = "verified"
  <2>1. /\ Copies(w.timers, t) = 1 /\ t.for <= w.launches /\ Fresh(w, t.for)
        /\ t.for = w.pending => w.gate = "verified"
    BY <1>7, <1>9 DEF Waiting
  <2>2. Copies(v.timers, t) = 1 /\ Fresh(v, t.for) /\ t.for \in Payloads
    BY <1>2, <1>7, <1>9, <2>1
  <2> DEFINE n == t.for
  <2>3. n \in Nat /\ n > 0 /\ n <= w.launches
    BY <2>1, <2>2, Numbers
  <2> HIDE DEF n
  <2>4. n <= v.launches /\ n # NoPayload /\ ~ (w.launches < n)
    BY <1>1, <1>2, <2>3
  <2>5. n = v.pending => v.gate = "verified"
    BY <1>3, <2>1, <2>4 DEF n
  <2> QED
    BY <2>2, <2>4, <2>5 DEF n
<1> QED
  BY <1>2, <1>5, <1>6, <1>8, <1>9 DEF Waiting

LEMMA FetchKept ==
    ASSUME NEW v, NEW w, SdkShape(v), SdkShape(w), NEW x \in Payloads \cup {NoPayload},
           Onward(v, w, x), NEW l, NEW h, FetchOK(l, h, w),
           l \in Verifying => h.pending \in Payloads /\ h.pending # x,
           l \in GateLabels /\ h.gate = v.gateNo => v.submitting /\ v.gate = StepOf(l)
    PROVE  FetchOK(l, h, v)
<1> SUFFICES ASSUME l \in Verifying
             PROVE  /\ h.pending <= v.launches /\ Fresh(v, h.pending)
                    /\ \A t \in Of(v, {"verified"}) : t.for # h.pending
                    /\ h.pending = v.pending => h.gate = v.gateNo
  BY DEF FetchOK
<1>1. /\ v.launches \in Nat /\ w.launches \in Nat /\ v.pending \in Nat
      /\ h.pending \in Nat /\ h.pending > 0 /\ NoPayload = 0 /\ h.pending # x
      /\ h.pending \in Payloads
  BY Numbers
<1>2. /\ h.pending <= w.launches /\ Fresh(w, h.pending)
      /\ \A t \in Of(w, {"verified"}) : t.for # h.pending
      /\ h.pending = w.pending => h.gate = w.gateNo
  BY DEF FetchOK
<1>3. h.pending <= v.launches
  BY <1>1, <1>2 DEF Onward
<1>4. Fresh(v, h.pending)
  BY <1>1, <1>2 DEF Onward
<1>5. \A t \in Of(v, {"verified"}) : t.for # h.pending
  BY <1>2, VerifiedKept
<1>6. h.pending = v.pending => h.gate = v.gateNo
  BY <1>1, <1>2 DEF Onward
<1> QED
  BY <1>3, <1>4, <1>5, <1>6

\* What the first invariant says of a fetch.
LEMMA FetchFacts ==
    ASSUME OperationsInv, service = "SDK", NEW r \in Requests
    PROVE  /\ pc[r] \in Verifying => held[r].pending \in Payloads
           /\ pc[r] \in GateLabels =>
                 /\ held[r] \in SdkHeld /\ held[r].gate <= world.gateNo
                 /\ held[r].gate = world.gateNo => world.gate # "closed"
<1>1. SdkRequestOK(pc[r], held[r], row, world) /\ SdkShape(world)
  BY SdkFacts
<1>2. GateLabels \subseteq SdkLabels /\ Verifying \subseteq SdkLabels
  BY DEF GateLabels, Verifying, SdkLabels
<1>3. pc[r] \in SdkLabels => held[r] \in SdkHeld /\ held[r].gate <= world.gateNo
  BY <1>1 DEF SdkRequestOK
<1>4. pc[r] \in Verifying => held[r].pending \in Payloads
  <2> SUFFICES ASSUME pc[r] \in Verifying
               PROVE  held[r].pending \in Payloads
    OBVIOUS
  <2>1. held[r].pending # NoPayload
    BY <1>1 DEF SdkRequestOK, Verifying
  <2>2. held[r].pending \in Payloads \cup {NoPayload}
    BY <1>2, <1>3 DEF SdkHeld
  <2> QED
    BY <2>1, <2>2
<1>5. pc[r] \in GateLabels /\ held[r].gate = world.gateNo => world.gate # "closed"
  BY <1>1 DEF SdkRequestOK
<1> QED
  BY <1>2, <1>3, <1>4, <1>5

\* The page moves on: no fetch is sent and none answered.
LEMMA PageToldInv ==
    ASSUME OperationsInv, HostToldInv, NEW v, InPage(v), SdkShape(v),
           TellsOnce(v), TellsAtLast(v), NEW x \in Payloads \cup {NoPayload},
           Onward(v, world, x),
           \A r \in Requests : pc[r] \in Verifying => held[r].pending # x,
           \/ v.gateNo > world.gateNo
           \/ /\ v.gateNo = world.gateNo /\ v.submitting = world.submitting
              /\ world.gate # "closed" => v.gate = world.gate
    PROVE  HostToldInv'
<1>1. /\ service = "SDK" /\ service' = service /\ world' = v
      /\ pc' = pc /\ held' = held
  BY DEF InPage, Outside
<1>2. SdkShape(world) /\ PageOK(world)
  BY <1>1, SdkFacts DEF HostToldInv
<1>3. PageOK(v)
  BY <1>2, WaitingKept DEF PageOK
<1>4. ASSUME NEW r \in Requests
      PROVE  FetchOK(pc[r], held[r], v)
  <2>1. FetchOK(pc[r], held[r], world)
    BY <1>1 DEF HostToldInv
  <2>2. /\ pc[r] \in Verifying => held[r].pending \in Payloads
        /\ pc[r] \in GateLabels =>
              /\ held[r] \in SdkHeld /\ held[r].gate <= world.gateNo
              /\ held[r].gate = world.gateNo => world.gate # "closed"
    BY <1>1, FetchFacts
  <2>3. ASSUME pc[r] \in GateLabels, held[r].gate = v.gateNo
        PROVE  v.submitting /\ v.gate = StepOf(pc[r])
    <3>1. v.gateNo \in Nat /\ world.gateNo \in Nat
      BY <1>2 DEF SdkShape
    <3>2. held[r].gate <= world.gateNo
      BY <2>2, <2>3
    <3>3. /\ v.gateNo = world.gateNo /\ v.submitting = world.submitting
          /\ world.gate # "closed" => v.gate = world.gate
      BY <2>3, <3>1, <3>2
    <3>4. world.submitting /\ world.gate = StepOf(pc[r]) /\ world.gate # "closed"
      BY <2>1, <2>2, <2>3, <3>3 DEF FetchOK
    <3> QED
      BY <3>3, <3>4
  <2> QED
    BY <1>2, <2>1, <2>2, <2>3, FetchKept
<1>5. \A q, r \in Requests : q # r => Apart(pc[q], held[q], pc[r], held[r])
  BY <1>1 DEF HostToldInv
<1> QED
  BY <1>1, <1>3, <1>4, <1>5 DEF HostToldInv

\* A step that leaves the gate alone.
LEMMA ModalToldInv ==
    ASSUME OperationsInv, HostToldInv, NEW v, InPage(v), SdkShape(v),
           TellsOn(v, world), v.active = world.active, v.launches = world.launches,
           v.gate = world.gate, v.gateNo = world.gateNo, v.submitting = world.submitting,
           v.pending = world.pending
    PROVE  HostToldInv'
<1>1. service = "SDK" /\ SdkShape(world) /\ PageOK(world)
  BY SdkFacts DEF HostToldInv, InPage
<1>2. world.launches \in Nat /\ world.active <= world.launches
  BY <1>1 DEF SdkShape, PageOK, Waiting
<1>3. \A t : t.do = "verified" => Copies(v.timers, t) <= Copies(world.timers, t)
  <2>1. \A t : Copies(v.timers, t) \in Nat
    BY CopiesFacts
  <2> QED
    BY <2>1 DEF TellsOn, SameOf
<1>4. Onward(v, world, NoPayload)
  BY <1>2, <1>3 DEF Onward, TellsOn, Keeps
<1>5. \A r \in Requests : pc[r] \in Verifying => held[r].pending # NoPayload
  BY <1>1, FetchFacts DEF Payloads, NoPayload
<1>6. TellsOnce(v) /\ TellsAtLast(v)
  BY DEF TellsOn
<1> QED
  BY <1>4, <1>5, <1>6, PageToldInv

-----------------------------------------------------------------------------
(* What the host is told: the page.                                        *)

LEMMA ModalClickTold ==
    ASSUME OperationsInv, HostToldInv, ModalClick
    PROVE  HostToldInv'
<1>1. PICK e \in From(world.fn, world.screen, "click") : InPage(Enter(world, e.to))
  BY DEF ModalClick
<1>2. service = "SDK" /\ world.active # NoPayload
  BY DEF ModalClick
<1>3. SdkShape(world) /\ TellsOnce(world)
  BY <1>2, SdkFacts DEF HostToldInv, PageOK
<1> DEFINE w == Enter(world, e.to)
<1>4. SdkShape(w) /\ Kept(w, world) /\ TellsOn(w, world)
  BY <1>2, <1>3, ClickTells
<1>5. InPage(w)
  BY <1>1
<1> HIDE DEF w
<1> QED
  BY <1>4, <1>5, ModalToldInv DEF Kept

LEMMA ModalScanTold ==
    ASSUME OperationsInv, HostToldInv, ModalScan
    PROVE  HostToldInv'
<1> DEFINE do == IF ModalOf(world.fn).nested THEN "nested" ELSE "scan"
           d == Drop(world, Of(world, {"wait"}))
           c == Callback(do, world.screen, world.active)
           m == More(d, c)
           w == [m EXCEPT !.scanning = TRUE]
<1>1. /\ service = "SDK" /\ world.active # NoPayload /\ ~ world.scanning
      /\ From(world.fn, world.screen, "scan") # {}
  BY DEF ModalScan
<1>2. SdkShape(world) /\ TellsOnce(world) /\ TellsAtLast(world)
  BY <1>1, SdkFacts DEF HostToldInv, PageOK
<1>3. SdkShape(d) /\ Kept(d, world) /\ d.screen = world.screen
  BY <1>2, DropFacts
<1>4. InPage([Start(d, do) EXCEPT !.scanning = TRUE])
  BY DEF ModalScan
<1>5. c.for \in Payloads /\ d.active # NoPayload
  BY <1>1, <1>2, <1>3, CallbackFacts DEF Kept, SdkShape
<1>6. Start(d, do) = m
  <2> HIDE DEF d
  <2>1. d.active = world.active
    BY <1>3 DEF Kept
  <2> QED
    BY <1>3, <2>1, AddIsMore
<1>7. MoreBy(m, d, {c})
  <2> HIDE DEF c, d
  <2> QED
    BY <1>3, <1>5, MoreFacts
<1>8. InPage(w)
  BY <1>4, <1>6
<1>9. SdkShape(w) /\ Kept(w, world) /\ TellsOn(w, world)
  <2> HIDE DEF m
  <2> QED
    BY <1>1, <1>2, <1>7, ScanTells
<1> HIDE DEF w
<1> QED
  BY <1>8, <1>9, ModalToldInv DEF Kept

LEMMA ModalTellTold ==
    ASSUME OperationsInv, HostToldInv, ModalTell
    PROVE  HostToldInv'
<1> DEFINE w == Tells(world, world.active)
<1>1. /\ service = "SDK" /\ world.active # NoPayload
      /\ From(world.fn, world.screen, "tell") # {}
  BY DEF ModalTell
<1>2. SdkShape(world) /\ TellsOnce(world) /\ TellsAtLast(world)
  BY <1>1, SdkFacts DEF HostToldInv, PageOK
<1>3. /\ SdkShape(w) /\ Same(w, world, {"told"})
      /\ w = [world EXCEPT !.told[world.active] = @ + 1]
  BY <1>1, <1>2, TellsFacts DEF SdkShape
<1>4. TellsOn(w, world)
  BY <1>1, <1>2, ButtonTells
<1>5. InPage(w)
  BY <1>3 DEF ModalTell
<1> HIDE DEF w
<1> QED
  BY <1>3, <1>4, <1>5, ModalToldInv DEF Same

LEMMA ModalTimerFiresTold ==
    ASSUME OperationsInv, HostToldInv, ModalTimerFires
    PROVE  HostToldInv'
<1>1. service = "SDK"
  BY DEF ModalTimerFires
<1>2. SdkShape(world) /\ TellsOnce(world) /\ TellsAtLast(world)
  BY <1>1, SdkFacts DEF HostToldInv, PageOK
<1>3. PICK t \in Of(world, {"wait", "scan", "face", "nested"}) :
         LET w == Ended(world, t)
         IN  \/ /\ t.do = "face"
                /\ InPage([Start(w, "scan") EXCEPT !.scanning = TRUE])
             \/ /\ t.do = "wait"
                /\ \E e \in From(w.fn, t.at, "wait") : InPage(Enter(w, e.to))
             \/ /\ t.do = "scan"
                /\ \E e \in From(w.fn, t.at, "scan") :
                      InPage(IF e.to = t.at THEN [w EXCEPT !.scanning = FALSE]
                             ELSE Enter(w, e.to))
             \/ /\ t.do = "nested"
                /\ \E e \in From(w.fn, t.at, "scan") :
                      InPage([Enter(w, e.to) EXCEPT !.timers =
                                @ (+) Timer("tell", e.to, t.for)])
  BY DEF ModalTimerFires
<1> DEFINE w == Ended(world, t)
<1>4. t \in Of(world, ModalTimers)
  BY <1>3 DEF ModalTimers
<1>5. /\ SdkShape(w) /\ Kept(w, world) /\ t.for \in Payloads /\ world.active \in Payloads
      /\ w.screen = world.screen
  BY <1>2, <1>4, ModalTimerEnds, OfFacts
<1>6. w.active = world.active /\ w.active # NoPayload /\ w.fn = world.fn
  BY <1>5, Numbers DEF Kept
<1> HIDE DEF w
<1>7. \/ t.do = "face" /\ InPage([Start(w, "scan") EXCEPT !.scanning = TRUE])
      \/ /\ t.do \in {"wait", "scan"}
         /\ \E e \in From(w.fn, t.at, t.do) : InPage(Enter(w, e.to))
      \/ t.do = "scan" /\ InPage([w EXCEPT !.scanning = FALSE])
      \/ /\ t.do = "nested"
         /\ \E e \in From(w.fn, t.at, "scan") :
               InPage([Enter(w, e.to) EXCEPT !.timers = @ (+) Timer("tell", e.to, t.for)])
  BY <1>3 DEF w
<1>8. CASE t.do = "face" /\ InPage([Start(w, "scan") EXCEPT !.scanning = TRUE])
  <2> DEFINE c == Callback("scan", w.screen, w.active)
             m == More(w, c)
             v == [m EXCEPT !.scanning = TRUE]
  <2>1. InPage(v)
    <3>1. Start(w, "scan") = m
      BY <1>5, AddIsMore
    <3> QED
      BY <1>8, <3>1
  <2>2. c.for \in Payloads /\ c.do = "scan"
    BY <1>5, <1>6, CallbackFacts
  <2> HIDE DEF c
  <2>3. MoreBy(m, w, {c})
    BY <1>5, <1>6, <2>2, MoreFacts
  <2> HIDE DEF m
  <2>4. SdkShape(v) /\ Kept(v, world) /\ TellsOn(v, world)
    <3>1. MoreBy(m, Ended(world, t), {c})
      BY <2>3 DEF w
    <3> QED
      BY <1>2, <1>4, <1>8, <2>2, <3>1, FaceTells
  <2> HIDE DEF v
  <2> QED
    BY <2>1, <2>4, ModalToldInv DEF Kept
<1>9. ASSUME t.do \in {"wait", "scan"},
             NEW e \in From(w.fn, t.at, t.do), InPage(Enter(w, e.to))
      PROVE  HostToldInv'
  <2> DEFINE v == Enter(w, e.to)
  <2>1. e.to \in Screens(world.fn)
    BY <1>6, <1>9 DEF From, Screens
  <2>2. SdkShape(v) /\ Kept(v, world) /\ TellsOn(v, world)
    BY <1>2, <1>4, <1>9, <2>1, FiresTells DEF w
  <2>3. InPage(v)
    BY <1>9
  <2> HIDE DEF v
  <2> QED
    BY <2>2, <2>3, ModalToldInv DEF Kept
<1>10. CASE t.do = "scan" /\ InPage([w EXCEPT !.scanning = FALSE])
  <2> DEFINE v == [w EXCEPT !.scanning = FALSE]
  <2>1. SdkShape(v) /\ Kept(v, world) /\ TellsOn(v, world)
    BY <1>2, <1>4, <1>10, ScanEndsTells DEF w
  <2>2. InPage(v)
    BY <1>10
  <2> HIDE DEF v
  <2> QED
    BY <2>1, <2>2, ModalToldInv DEF Kept
<1>11. ASSUME t.do = "nested", NEW e \in From(w.fn, t.at, "scan"),
              InPage([Enter(w, e.to) EXCEPT !.timers = @ (+) Timer("tell", e.to, t.for)])
       PROVE  HostToldInv'
  <2> DEFINE n == Enter(w, e.to)
             v == More(n, Callback("tell", e.to, t.for))
  <2>1. SdkShape(n)
    <3>1. e.to \in Screens(w.fn)
      BY <1>11 DEF From, Screens
    <3> QED
      BY <1>5, <1>6, <3>1, EnterFacts
  <2>2. SdkShape(v) /\ Kept(v, world) /\ TellsOn(v, world)
    BY <1>2, <1>4, <1>6, <1>11, NestedTells DEF w
  <2>3. InPage(v)
    <3> HIDE DEF n
    <3>1. InPage([n EXCEPT !.timers = @ (+) Timer("tell", e.to, t.for)])
      BY <1>11 DEF n
    <3> QED
      BY <2>1, <3>1, AddIsMore
  <2> HIDE DEF v
  <2> QED
    BY <2>2, <2>3, ModalToldInv DEF Kept
<1> QED
  BY <1>7, <1>8, <1>9, <1>10, <1>11

LEMMA HostTimerFiresTold ==
    ASSUME OperationsInv, HostToldInv, HostTimerFires
    PROVE  HostToldInv'
<1>1. service = "SDK"
  BY DEF HostTimerFires
<1>2. SdkShape(world) /\ TellsOnce(world) /\ TellsAtLast(world)
  BY <1>1, SdkFacts DEF HostToldInv, PageOK
<1>3. PICK t \in Of(world, {"tell", "orphan"}) :
         IF t.do = "tell" THEN InPage([Ended(world, t) EXCEPT !.told[t.for] = @ + 1])
         ELSE InPage([Ended(world, t) EXCEPT !.timers = @ (+) Timer("tell", "done", t.for)])
  BY DEF HostTimerFires
<1> DEFINE w == Ended(world, t)
           c == Callback("tell", "done", t.for)
<1>4. t.do \in {"tell", "orphan"}
  BY <1>2, <1>3, OfFacts
<1>5. SdkShape(w) /\ Kept(w, world) /\ t.for \in Payloads
  BY <1>2, <1>3, HostTimerEnds
<1>6. c.for = t.for /\ c.do = "tell"
  BY CallbackFacts
<1>7. \/ InPage([w EXCEPT !.told[t.for] = @ + 1])
      \/ t.do = "orphan" /\ InPage([w EXCEPT !.timers = @ (+) Timer("tell", "done", t.for)])
  BY <1>3, <1>4
<1> HIDE DEF w
<1>8. InPage(Tells(w, t.for)) \/ (t.do = "orphan" /\ InPage(More(w, c)))
  <2>1. [w EXCEPT !.told[t.for] = @ + 1] = Tells(w, t.for)
    BY <1>5, TellsFacts
  <2>2. [w EXCEPT !.timers = @ (+) Timer("tell", "done", t.for)] = More(w, c)
    BY <1>5, AddIsMore
  <2> QED
    BY <1>7, <2>1, <2>2
<1>9. CASE InPage(Tells(w, t.for))
  <2> DEFINE v == Tells(w, t.for)
  <2>1. SdkShape(v) /\ Same(v, w, {"told"})
    BY <1>5, TellsFacts
  <2>2. TellsOn(v, world)
    BY <1>2, <1>3, TimerTells DEF w
  <2>3. InPage(v)
    BY <1>9
  <2> HIDE DEF v
  <2> QED
    BY <1>5, <2>1, <2>2, <2>3, ModalToldInv DEF Same, Kept
<1>10. CASE t.do = "orphan" /\ InPage(More(w, c))
  <2> DEFINE m == More(w, c)
  <2> HIDE DEF c
  <2>1. MoreBy(m, w, {c})
    BY <1>5, <1>6, MoreFacts DEF ModalTimers
  <2>2. InPage(m)
    BY <1>10
  <2> HIDE DEF m
  <2>3. TellsOn(m, world)
    <3>1. MoreBy(m, Ended(world, t), {c})
      BY <2>1 DEF w
    <3> QED
      BY <1>2, <1>3, <1>6, <1>10, <3>1, OrphanTells
  <2> QED
    BY <1>5, <2>1, <2>2, <2>3, ModalToldInv DEF MoreBy, Kept
<1> QED
  BY <1>8, <1>9, <1>10

LEMMA SdkLaunchTold ==
    ASSUME OperationsInv, HostToldInv, SdkLaunch
    PROVE  HostToldInv'
<1> DEFINE n == world.launches + 1
           w == [world EXCEPT !.launches = n]
<1>1. service = "SDK" /\ world.launches < MaxLaunches
  BY DEF SdkLaunch
<1>2. SdkShape(world) /\ TellsOnce(world) /\ TellsAtLast(world) /\ Waiting(world)
  BY <1>1, SdkFacts DEF HostToldInv, PageOK
<1>3. n \in 0..MaxLaunches /\ n \in Payloads /\ n \in Nat /\ world.launches < n
  BY <1>1, <1>2, SdkAssumption DEF SdkShape, Payloads, SdkAssumption
<1>4. /\ world.copy = "verified" => \E v \in Activate(w, w.launches) : InPage(v)
      /\ world.copy # "verified" =>
             InPage([w EXCEPT !.pending = w.launches,
                              !.gate = IF w.gate = "closed" THEN "identity" ELSE w.gate])
  <2>1. w = [world EXCEPT !.launches = @ + 1]
    BY <1>2 DEF SdkShape
  <2> DEFINE u == [world EXCEPT !.launches = @ + 1]
  <2>2. /\ world.copy = "verified" => \E v \in Activate(u, u.launches) : InPage(v)
        /\ world.copy # "verified" =>
               InPage([u EXCEPT !.pending = u.launches,
                                !.gate = IF @ = "closed" THEN "identity" ELSE @])
    BY DEF SdkLaunch
  <2>3. [u EXCEPT !.pending = u.launches, !.gate = IF @ = "closed" THEN "identity" ELSE @]
         = [u EXCEPT !.pending = u.launches,
                     !.gate = IF u.gate = "closed" THEN "identity" ELSE u.gate]
    BY <1>2 DEF SdkShape
  <2> HIDE DEF u
  <2>4. u = w
    BY <2>1 DEF u
  <2> QED
    BY <2>2, <2>3, <2>4
<1>5. /\ world.launches \in Nat /\ world.pending \in Nat /\ world.active \in Nat
      /\ world.pending <= world.launches /\ world.active <= world.launches
      /\ Fresh(world, n) /\ n # NoPayload
      /\ \A t \in Of(world, {"verified"}) : t.for <= world.launches /\ t.for \in Nat
  <2>1. \A t \in Of(world, {"verified"}) : t.for <= world.launches /\ t.for \in Nat
    BY <1>2, OfFacts, Numbers DEF Waiting
  <2>2. n # NoPayload
    BY <1>3, Numbers
  <2> HIDE DEF n
  <2> QED
    BY <1>2, <1>3, <2>1, <2>2, Numbers DEF Waiting
<1> HIDE DEF n
<1>6. SdkShape(w) /\ Same(w, world, {"launches"}) /\ w.launches = n
  BY <1>2, <1>3, LaunchesFacts
<1> HIDE DEF w
<1>7. PageSame(w, world) /\ SameOf(w, world, {"verified"})
  BY <1>6 DEF Same, PageSame, SameOf
<1>8. TellsOnce(w) /\ TellsAtLast(w) /\ Keeps(w, world)
  BY <1>2, <1>6, <1>7, PageSameTells
<1>9. CASE world.copy = "verified"
  <2>1. PICK v \in Activate(w, n) : InPage(v)
    BY <1>4, <1>6, <1>9
  <2>2. Activated(v, w, n)
    BY <1>3, <1>6, <2>1, ActivateFacts
  <2>3. /\ SdkShape(v) /\ v.gate = world.gate /\ v.gateNo = world.gateNo
        /\ v.submitting = world.submitting /\ v.pending = world.pending
        /\ v.active = n /\ v.launches = n
        /\ Of(v, {"verified"}) = Of(world, {"verified"})
    BY <1>6, <2>2 DEF Activated, Same, Of
  <2>4. /\ TellsOnce(v) /\ TellsAtLast(v) /\ SameOf(v, w, {"verified"})
        /\ \A q \in Payloads : Fresh(w, q) /\ q # n => Fresh(v, q)
    BY <1>3, <1>5, <1>6, <1>8, <2>2, ActivateTells DEF Keeps
  <2>5. \A t : t.do = "verified" => Copies(v.timers, t) <= Copies(world.timers, t)
    <3>1. \A t : Copies(v.timers, t) \in Nat
      BY <2>3, CopiesFacts
    <3> QED
      BY <1>7, <2>4, <3>1 DEF SameOf
  <2>6. Onward(v, world, n)
    BY <1>3, <1>5, <1>8, <2>3, <2>4, <2>5 DEF Onward, Keeps
  <2>7. ASSUME NEW r \in Requests, pc[r] \in Verifying
        PROVE  held[r].pending # n
    <3>1. held[r].pending <= world.launches
      BY <1>1, <2>7 DEF HostToldInv, FetchOK
    <3>2. held[r].pending \in Payloads
      BY <1>1, <2>7, FetchFacts
    <3> QED
      BY <1>3, <1>5, <3>1
  <2> QED
    BY <1>3, <2>1, <2>3, <2>4, <2>6, <2>7, PageToldInv
<1>10. CASE world.copy # "verified"
  <2> DEFINE g == IF w.gate = "closed" THEN "identity" ELSE w.gate
             u == [w EXCEPT !.pending = n]
             v == [u EXCEPT !.gate = g]
  <2>1. InPage(v)
    BY <1>4, <1>6, <1>10
  <2>2. g \in GateSteps /\ (w.gate # "closed" => g = w.gate)
    BY <1>6 DEF SdkShape, GateSteps
  <2> HIDE DEF g
  <2>3. SdkShape(u) /\ Same(u, w, {"pending"}) /\ u.pending = n
    BY <1>3, <1>6, PendingFacts
  <2> HIDE DEF u
  <2>4. SdkShape(v) /\ Same(v, u, {"gate"}) /\ v.gate = g /\ v.gateNo = u.gateNo
    BY <2>2, <2>3, GateFacts
  <2> HIDE DEF v
  <2>5. /\ v.gateNo = world.gateNo /\ v.submitting = world.submitting /\ v.pending = n
        /\ (world.gate # "closed" => v.gate = world.gate)
        /\ v.launches = n /\ v.active = world.active /\ v.timers = world.timers
    BY <1>6, <2>2, <2>3, <2>4 DEF Same
  <2>6. PageSame(v, w)
    BY <2>3, <2>4 DEF Same, PageSame, SameOf
  <2>7. TellsOnce(v) /\ TellsAtLast(v) /\ Keeps(v, w)
    BY <1>6, <1>8, <2>4, <2>6, PageSameTells
  <2>8. \A t : t.do = "verified" => Copies(v.timers, t) <= Copies(world.timers, t)
    <3>1. \A t : Copies(v.timers, t) \in Nat
      BY <2>4, CopiesFacts
    <3> QED
      BY <2>5, <3>1
  <2>9. Onward(v, world, NoPayload)
    BY <1>3, <1>5, <1>8, <2>5, <2>7, <2>8 DEF Onward, Keeps
  <2>10. \A r \in Requests : pc[r] \in Verifying => held[r].pending # NoPayload
    BY <1>1, FetchFacts, Numbers
  <2> QED
    BY <2>1, <2>4, <2>5, <2>7, <2>9, <2>10, PageToldInv
<1> QED
  BY <1>9, <1>10

\* The gate is closed after a step u of the page that leaves it alone.
LEMMA GateClosesTold ==
    ASSUME OperationsInv, HostToldInv, NEW u, SdkShape(u), InPage(CloseGate(u)),
           TellsOn(u, world), u.active \in {world.active, NoPayload},
           u.launches = world.launches, u.gate = world.gate, u.gateNo = world.gateNo,
           u.submitting = world.submitting, u.pending = world.pending
    PROVE  HostToldInv'
<1> DEFINE v == CloseGate(u)
<1>1. service = "SDK" /\ InPage(v)
  BY DEF InPage
<1>2. SdkShape(world) /\ Waiting(world)
  BY <1>1, SdkFacts DEF HostToldInv, PageOK
<1>3. /\ SdkShape(v) /\ v.gate = "closed"
      /\ v.gateNo = (IF world.gate = "closed" THEN world.gateNo ELSE world.gateNo + 1)
      /\ v.launches = world.launches /\ v.active \in {world.active, NoPayload}
      /\ world.gate # "closed" => v.pending = NoPayload
      /\ world.gate = "closed" => v.pending = world.pending
                                  /\ v.submitting = world.submitting
      /\ v.active = u.active /\ v.fn = u.fn /\ v.told = u.told /\ v.shown = u.shown
      /\ v.screen = u.screen /\ v.scanning = u.scanning /\ v.timers = u.timers
  BY CloseGateFacts
<1> HIDE DEF v
<1>4. PageSame(v, u)
  BY <1>3 DEF PageSame, SameOf
<1>5. TellsOnce(v) /\ TellsAtLast(v) /\ Keeps(v, u)
  BY <1>3, <1>4, PageSameTells DEF TellsOn
<1>6. \A q \in Payloads : Fresh(world, q) => Fresh(v, q)
  BY <1>5 DEF Keeps, TellsOn
<1>7. \A t : t.do = "verified" => Copies(v.timers, t) <= Copies(world.timers, t)
  <2>1. \A t : Copies(v.timers, t) \in Nat
    BY <1>3, CopiesFacts
  <2> QED
    BY <1>3, <2>1 DEF TellsOn, SameOf
<1>8. /\ world.launches \in Nat /\ world.gateNo \in Nat /\ NoPayload = 0
      /\ world.active <= world.launches
  BY <1>2, Numbers DEF Waiting
<1>9. v.active <= v.launches /\ world.launches <= v.launches
  BY <1>3, <1>8
<1>10. Onward(v, world, NoPayload)
  BY <1>3, <1>6, <1>7, <1>9 DEF Onward
<1>11. \A r \in Requests : pc[r] \in Verifying => held[r].pending # NoPayload
  BY <1>1, FetchFacts, Numbers
<1>12. \/ v.gateNo > world.gateNo
       \/ /\ v.gateNo = world.gateNo /\ v.submitting = world.submitting
          /\ world.gate # "closed" => v.gate = world.gate
  BY <1>3, <1>8
<1> QED
  BY <1>1, <1>3, <1>5, <1>10, <1>11, <1>12, PageToldInv

LEMMA ClosesTold ==
    ASSUME OperationsInv, HostToldInv, SdkClose \/ GateAbort
    PROVE  HostToldInv'
<1>1. service = "SDK"
  BY DEF SdkClose, GateAbort
<1>2. SdkShape(world) /\ TellsOnce(world) /\ TellsAtLast(world)
  BY <1>1, SdkFacts DEF HostToldInv, PageOK
<1>3. CASE SdkClose
  <2> DEFINE u == Unmount(world)
  <2>1. InPage(CloseGate(u))
    BY <1>3 DEF SdkClose
  <2>2. /\ SdkShape(u) /\ u.gate = world.gate /\ u.gateNo = world.gateNo
        /\ u.active = NoPayload /\ u.launches = world.launches
        /\ u.submitting = world.submitting /\ u.pending = world.pending
    BY <1>2, UnmountFacts
  <2>3. TellsOn(u, world)
    BY <1>2, UnmountTells
  <2> HIDE DEF u
  <2> QED
    BY <2>1, <2>2, <2>3, GateClosesTold
<1>4. CASE GateAbort
  <2>1. InPage(CloseGate(world))
    BY <1>4 DEF GateAbort
  <2>2. TellsOn(world, world)
    BY <1>2 DEF TellsOn, Keeps, SameOf
  <2> QED
    BY <1>2, <2>1, <2>2, GateClosesTold
<1> QED
  BY <1>3, <1>4

LEMMA GateOpensTold ==
    ASSUME OperationsInv, HostToldInv, GateOpens
    PROVE  HostToldInv'
<1>1. service = "SDK"
  BY DEF GateOpens
<1>2. SdkShape(world) /\ TellsOnce(world) /\ TellsAtLast(world) /\ Waiting(world)
  BY <1>1, SdkFacts DEF HostToldInv, PageOK
<1>3. PICK t \in Of(world, {"verified"}) :
         \E v \in Activate([CloseGate(Ended(world, t)) EXCEPT !.copy = "verified"], t.for) :
             InPage([v EXCEPT !.pending = NoPayload])
  BY DEF GateOpens
<1> DEFINE e == Ended(world, t)
           g == CloseGate(e)
           w == [g EXCEPT !.copy = "verified"]
<1>4. PICK v \in Activate(w, t.for) : InPage([v EXCEPT !.pending = NoPayload])
  BY <1>3
<1>5. /\ t \in BagToSet(world.timers) /\ t.for \in Payloads /\ t.do = "verified"
  BY <1>2, <1>3 DEF Of, SdkShape
<1>6. /\ Copies(world.timers, t) = 1 /\ Fresh(world, t.for) /\ t.for <= world.launches
      /\ \A k \in Of(world, {"verified"}) : k.for = t.for => k = t
  BY <1>2, <1>3 DEF Waiting
<1>7. /\ SdkShape(e) /\ Kept(e, world) /\ e.screen = world.screen
      /\ e.scanning = world.scanning
      /\ \A k : Copies(world.timers, k) = Copies(e.timers, k) + (IF k = t THEN 1 ELSE 0)
  BY <1>2, <1>5, EndedFacts
<1>8. SameOf(e, world, ModalTimers) /\ SameOf(e, world, TellKinds)
  BY <1>2, <1>5, EndedSameOf DEF ModalTimers, TellKinds
<1> HIDE DEF e
<1>9. /\ SdkShape(g) /\ g.gate = "closed"
      /\ g.gateNo = (IF e.gate = "closed" THEN e.gateNo ELSE e.gateNo + 1)
      /\ g.active = e.active /\ g.launches = e.launches /\ g.fn = e.fn
      /\ g.told = e.told /\ g.shown = e.shown /\ g.screen = e.screen
      /\ g.scanning = e.scanning /\ g.timers = e.timers
      /\ e.gate = "closed" => g.submitting = e.submitting
  BY <1>7, CloseGateFacts
<1> HIDE DEF g
<1>10. SdkShape(w) /\ Same(w, g, {"copy"})
  BY <1>9, CopyFacts
<1> HIDE DEF w
<1>11. PageSame(w, world) /\ w.timers = e.timers /\ w.launches = world.launches
  BY <1>7, <1>8, <1>9, <1>10 DEF PageSame, SameOf, Same, Kept
<1>12. TellsOnce(w) /\ TellsAtLast(w) /\ Keeps(w, world)
  BY <1>2, <1>10, <1>11, PageSameTells
<1>13. Activated(v, w, t.for)
  BY <1>4, <1>5, <1>10, ActivateFacts
<1>14. /\ SdkShape(v) /\ v.active = t.for /\ v.launches = world.launches
       /\ v.gate = w.gate /\ v.gateNo = w.gateNo /\ v.submitting = w.submitting
  BY <1>11, <1>13 DEF Activated
<1>15. /\ TellsOnce(v) /\ TellsAtLast(v) /\ SameOf(v, w, {"verified"})
       /\ \A q \in Payloads : Fresh(w, q) /\ q # t.for => Fresh(v, q)
  BY <1>5, <1>6, <1>10, <1>12, <1>13, ActivateTells DEF Keeps
<1> DEFINE u == [v EXCEPT !.pending = NoPayload]
<1>16. SdkShape(u) /\ Same(u, v, {"pending"}) /\ u.pending = NoPayload /\ InPage(u)
  BY <1>4, <1>14, PendingFacts
<1> HIDE DEF u
<1>17. PageSame(u, v)
  BY <1>16 DEF PageSame, SameOf, Same
<1>18. TellsOnce(u) /\ TellsAtLast(u) /\ Keeps(u, v)
  BY <1>14, <1>15, <1>16, <1>17, PageSameTells
<1>19. \A k : k.do = "verified" => Copies(u.timers, k) = Copies(e.timers, k)
  BY <1>11, <1>15, <1>16 DEF SameOf, Same
<1>20. \A k : Copies(e.timers, k) \in Nat /\ Copies(world.timers, k) \in Nat
  BY <1>2, <1>7, CopiesFacts
<1>21. \A k : k.do = "verified" => Copies(u.timers, k) <= Copies(world.timers, k)
  BY <1>7, <1>19, <1>20
<1>22. \A k \in Of(u, {"verified"}) : k.for # t.for
  <2> SUFFICES ASSUME NEW k \in Of(u, {"verified"}), k.for = t.for
               PROVE  FALSE
    OBVIOUS
  <2>1. Copies(u.timers, k) > 0 /\ k.do = "verified"
    BY <1>16, OfFacts
  <2>2. Copies(e.timers, k) > 0 /\ Copies(world.timers, k) > 0
    BY <1>7, <1>19, <1>20, <2>1
  <2>3. k = t
    BY <1>2, <1>6, <2>1, <2>2, OfFacts
  <2>4. Copies(world.timers, t) = Copies(e.timers, t) + 1
    BY <1>7
  <2> QED
    BY <1>6, <1>20, <2>2, <2>3, <2>4
<1>23. /\ u.active = t.for /\ u.launches = world.launches /\ world.launches \in Nat
       /\ t.for # NoPayload
  BY <1>2, <1>5, <1>14, <1>16, Numbers DEF Same
<1>24. Onward(u, world, t.for)
  <2>1. u.active <= u.launches /\ world.launches <= u.launches
    BY <1>6, <1>23
  <2>2. \A q \in Payloads : Fresh(world, q) /\ q # t.for => Fresh(u, q)
    BY <1>12, <1>15, <1>18 DEF Keeps
  <2> QED
    BY <1>6, <1>16, <1>21, <1>22, <1>23, <2>1, <2>2 DEF Onward
<1>25. \A r \in Requests : pc[r] \in Verifying => held[r].pending # t.for
  BY <1>1, <1>3 DEF HostToldInv, FetchOK
<1>26. world.gateNo \in Nat /\ e.gateNo = world.gateNo /\ e.gate = world.gate
       /\ e.submitting = world.submitting
  BY <1>2, <1>7, Numbers DEF Kept
<1>27. \/ u.gateNo > world.gateNo
       \/ /\ u.gateNo = world.gateNo /\ u.submitting = world.submitting
          /\ world.gate # "closed" => u.gate = world.gate
  BY <1>9, <1>10, <1>14, <1>16, <1>26 DEF Same
<1> QED
  BY <1>5, <1>16, <1>18, <1>24, <1>25, <1>27, PageToldInv

LEMMA SdkPageTold ==
    ASSUME OperationsInv, HostToldInv, SdkPage
    PROVE  HostToldInv'
BY SdkLaunchTold, ClosesTold, ModalClickTold, ModalScanTold, ModalTellTold,
   ModalTimerFiresTold, HostTimerFiresTold, GateOpensTold DEF SdkPage

-----------------------------------------------------------------------------
(* What the host is told: requests.                                        *)

\* Request r goes on to a label, and the page is v.
TurnTo(r, label, loaded, v) ==
    /\ service = "SDK" /\ service' = service /\ world' = v
    /\ Proceed(r, label, loaded)

LEMMA TurnIs ==
    ASSUME NEW r, NEW label, NEW loaded, NEW v, NEW rw, service = "SDK",
           \/ Step(r, label, loaded, rw, v)
           \/ loaded = held[r] /\ Fault(r, label, v)
    PROVE  TurnTo(r, label, loaded, v)
BY DEF Step, Fault, TurnTo

LEMMA TurnTold ==
    ASSUME OperationsInv, HostToldInv, NEW r \in Requests, NEW label, NEW loaded, NEW v,
           TurnTo(r, label, loaded, v), PageOK(v),
           label \in GateLabels => FetchOK(label, loaded, v),
           \A q \in Requests \ {r} :
              /\ FetchOK(pc[q], held[q], v)
              /\ label \in GateLabels =>
                    /\ Apart(label, loaded, pc[q], held[q])
                    /\ Apart(pc[q], held[q], label, loaded)
    PROVE  HostToldInv'
<1> DEFINE h == IF label = "idle" THEN NoValue ELSE loaded
<1>1. /\ service = "SDK" /\ service' = service /\ world' = v
      /\ pc' = [pc EXCEPT ![r] = label] /\ held' = [held EXCEPT ![r] = h]
  BY DEF TurnTo, Proceed
<1>2. "idle" \notin GateLabels /\ Verifying \subseteq GateLabels
  BY DEF GateLabels, SdkLabels, Verifying
<1>3. label \in GateLabels => h = loaded
  BY <1>2
<1> HIDE DEF h
<1>4. pc \in [Requests -> {"idle"} \cup LabelsOf(service)]
      /\ held \in [Requests -> OHeld(service) \cup {NoValue}]
  BY DEF OperationsInv, Typed
<1>5. /\ pc'[r] = label /\ held'[r] = h
      /\ \A q \in Requests \ {r} : pc'[q] = pc[q] /\ held'[q] = held[q]
  BY <1>1, <1>4
<1>6. FetchOK(label, h, v)
  BY <1>2, <1>3 DEF FetchOK
<1>7. \A q \in Requests : FetchOK(pc'[q], held'[q], v)
  BY <1>5, <1>6
<1>8. \A q \in Requests \ {r} : Apart(label, h, pc[q], held[q])
                               /\ Apart(pc[q], held[q], label, h)
  BY <1>2, <1>3 DEF Apart
<1>9. \A p, q \in Requests \ {r} : p # q => Apart(pc[p], held[p], pc[q], held[q])
  BY <1>1 DEF HostToldInv
<1>10. \A p, q \in Requests : p # q => Apart(pc'[p], held'[p], pc'[q], held'[q])
  <2> SUFFICES ASSUME NEW p \in Requests, NEW q \in Requests, p # q
               PROVE  Apart(pc'[p], held'[p], pc'[q], held'[q])
    OBVIOUS
  <2>1. CASE p = r
    BY <1>5, <1>8, <2>1
  <2>2. CASE q = r
    BY <1>5, <1>8, <2>2
  <2>3. CASE p # r /\ q # r
    BY <1>5, <1>9, <2>3
  <2> QED
    BY <2>1, <2>2, <2>3
<1> QED
  BY <1>1, <1>7, <1>10 DEF HostToldInv

\* v is the page but for what its gate shows, which is not closed again.
LEMMA StillTold ==
    ASSUME OperationsInv, HostToldInv, service = "SDK", NEW v, SdkShape(v),
           PageSame(v, world), v.timers = world.timers, v.launches = world.launches,
           v.pending = world.pending, v.gateNo = world.gateNo,
           world.gate = "verified" => v.gate = "verified"
    PROVE  PageOK(v) /\ Onward(v, world, NoPayload)
<1>1. SdkShape(world) /\ TellsOnce(world) /\ TellsAtLast(world) /\ Waiting(world)
  BY SdkFacts DEF HostToldInv, PageOK
<1>2. TellsOnce(v) /\ TellsAtLast(v) /\ Keeps(v, world)
  BY <1>1, PageSameTells
<1>3. \A t : Copies(v.timers, t) <= Copies(world.timers, t)
  <2>1. \A t : Copies(v.timers, t) \in Nat
    BY CopiesFacts
  <2> QED
    BY <2>1
<1>4. v.active <= v.launches /\ world.launches <= v.launches
  BY <1>1, Numbers DEF Waiting, PageSame
<1>5. Onward(v, world, NoPayload)
  BY <1>2, <1>3, <1>4 DEF Onward, Keeps
<1> QED
  BY <1>1, <1>2, <1>5, WaitingKept DEF PageOK

\* A fetch that the gate has not heard of is as it was.
LEMMA OtherKept ==
    ASSUME OperationsInv, HostToldInv, service = "SDK", NEW v, SdkShape(v),
           Onward(v, world, NoPayload), NEW q \in Requests,
           \/ pc[q] \in GateLabels => held[q].gate # v.gateNo
           \/ /\ v.gateNo = world.gateNo /\ v.gate = world.gate
              /\ world.submitting => v.submitting
    PROVE  FetchOK(pc[q], held[q], v)
<1>1. SdkShape(world) /\ FetchOK(pc[q], held[q], world)
  BY SdkFacts DEF HostToldInv
<1>2. pc[q] \in Verifying => held[q].pending \in Payloads /\ held[q].pending # NoPayload
  BY FetchFacts, Numbers
<1>3. pc[q] \in GateLabels /\ held[q].gate = v.gateNo =>
          v.submitting /\ v.gate = StepOf(pc[q])
  BY <1>1 DEF FetchOK
<1> QED
  BY <1>1, <1>2, <1>3, FetchKept

\* A step that shows nothing at the gate; the fetch it goes on with, if it is
\* one, is that which the request had.
LEMMA QuietTurnTold ==
    ASSUME OperationsInv, HostToldInv, service = "SDK", NEW r \in Requests, NEW label,
           NEW loaded, NEW v, SdkShape(v), Same(v, world, {"copy"}),
           TurnTo(r, label, loaded, v),
           label \in GateLabels =>
              /\ pc[r] \in GateLabels /\ loaded = held[r] /\ StepOf(label) = StepOf(pc[r])
              /\ label \in Verifying => pc[r] \in Verifying
    PROVE  HostToldInv'
<1>1. PageSame(v, world)
  BY DEF Same, PageSame, SameOf
<1>2. /\ v.timers = world.timers /\ v.launches = world.launches
      /\ v.pending = world.pending /\ v.gateNo = world.gateNo /\ v.gate = world.gate
      /\ v.submitting = world.submitting
  BY DEF Same
<1>3. PageOK(v) /\ Onward(v, world, NoPayload)
  BY <1>1, <1>2, StillTold
<1>4. \A q \in Requests : FetchOK(pc[q], held[q], v)
  BY <1>2, <1>3, OtherKept
<1>5. label \in GateLabels => FetchOK(label, loaded, v)
  BY <1>4 DEF FetchOK
<1>6. ASSUME NEW q \in Requests \ {r}, label \in GateLabels
      PROVE  Apart(label, loaded, pc[q], held[q]) /\ Apart(pc[q], held[q], label, loaded)
  <2>1. Apart(pc[r], held[r], pc[q], held[q]) /\ Apart(pc[q], held[q], pc[r], held[r])
    BY DEF HostToldInv
  <2> QED
    BY <1>6, <2>1 DEF Apart
<1> QED
  BY <1>3, <1>4, <1>5, <1>6, TurnTold

LEMMA SdkCheckTold ==
    ASSUME OperationsInv, HostToldInv, NEW r \in Requests, service = "SDK",
           SdkCheck(r) \/ SdkCheckStatus(r) \/ SdkChecked(r) \/ SdkCheckFails(r)
    PROVE  HostToldInv'
<1>1. SdkShape(world) /\ Same(world, world, {"copy"})
  BY SdkFacts DEF Same
<1>2. \A c \in {"loading", "verified", "other"} :
         LET v == [world EXCEPT !.copy = c]
         IN  SdkShape(v) /\ Same(v, world, {"copy"})
  BY <1>1, CopyFacts
<1>3. {"idle", "sdk_check", "sdk_checked"} \cap GateLabels = {}
  BY DEF GateLabels, SdkLabels
<1>4. CASE SdkCheck(r)
  <2> DEFINE v == [world EXCEPT !.copy = "loading"]
  <2>1. Step(r, "sdk_check", Sent, row, v)
    BY <1>4 DEF SdkCheck
  <2>2. TurnTo(r, "sdk_check", Sent, v)
    BY <2>1, TurnIs
  <2>3. SdkShape(v) /\ Same(v, world, {"copy"})
    BY <1>2
  <2> HIDE DEF v
  <2> QED
    BY <1>3, <2>2, <2>3, QuietTurnTold
<1>5. CASE SdkCheckStatus(r)
  <2> DEFINE h == [held[r] EXCEPT !.verified = row.status = "VERIFIED"]
  <2>1. Step(r, "sdk_checked", h, row, world)
    BY <1>5 DEF SdkCheckStatus
  <2> HIDE DEF h
  <2>2. TurnTo(r, "sdk_checked", h, world)
    BY <2>1, TurnIs
  <2> QED
    BY <1>1, <1>3, <2>2, QuietTurnTold
<1>6. CASE SdkChecked(r)
  <2> DEFINE c == IF held[r].verified THEN "verified" ELSE "other"
             v == [world EXCEPT !.copy = c]
  <2>1. Step(r, "idle", held[r], row, v)
    BY <1>6 DEF SdkChecked, Act
  <2>2. c \in {"loading", "verified", "other"}
    OBVIOUS
  <2> HIDE DEF c
  <2>3. SdkShape(v) /\ Same(v, world, {"copy"})
    BY <1>2, <2>2
  <2> HIDE DEF v
  <2>4. TurnTo(r, "idle", held[r], v)
    BY <2>1, TurnIs
  <2> QED
    BY <1>3, <2>3, <2>4, QuietTurnTold
<1>7. CASE SdkCheckFails(r)
  <2> DEFINE v == [world EXCEPT !.copy = "other"]
  <2>1. Fault(r, "idle", v)
    BY <1>7 DEF SdkCheckFails
  <2>2. SdkShape(v) /\ Same(v, world, {"copy"})
    BY <1>2
  <2> HIDE DEF v
  <2>3. TurnTo(r, "idle", held[r], v)
    BY <2>1, TurnIs
  <2> QED
    BY <1>3, <2>2, <2>3, QuietTurnTold
<1> QED
  BY <1>4, <1>5, <1>6, <1>7

\* A fetch at the server, and one that dies.
LEMMA ServerTold ==
    ASSUME OperationsInv, HostToldInv, NEW r \in Requests, service = "SDK",
           \/ SdkRegister(r) \/ SdkCaptureBiometric(r) \/ SdkVerify(r)
           \/ SdkNotCaptured(r) \/ Die(r)
    PROVE  HostToldInv'
<1>1. SdkShape(world) /\ Same(world, world, {"copy"})
  BY SdkFacts DEF Same
<1>2. PICK label \in {"sdk_registered", "sdk_captured", "sdk_verified", "idle"} :
         /\ TurnTo(r, label, held[r], world)
         /\ label = "sdk_registered" => pc[r] = "sdk_register"
         /\ label = "sdk_captured" => pc[r] = "sdk_biometric"
         /\ label = "sdk_verified" => pc[r] = "sdk_verify"
  BY TurnIs DEF SdkRegister, SdkCaptureBiometric, SdkVerify, SdkNotCaptured, Die, Save
<1>3. label \in GateLabels =>
         /\ pc[r] \in GateLabels /\ StepOf(label) = StepOf(pc[r])
         /\ label \in Verifying => pc[r] \in Verifying
  BY <1>2 DEF GateLabels, SdkLabels, StepOf, Verifying
<1> QED
  BY <1>1, <1>2, <1>3, QuietTurnTold

\* The gate sends a fetch only when it waits for none.
LEMMA GateSendsTold ==
    ASSUME OperationsInv, HostToldInv, NEW r \in Requests,
           \/ GateSubmitIdentity(r) \/ GateScanBiometric(r) \/ GateSubmitCbn(r)
    PROVE  HostToldInv'
<1> DEFINE v == [world EXCEPT !.submitting = TRUE]
<1>1. PICK label \in {"sdk_register", "sdk_biometric", "sdk_verify"} :
          /\ service = "SDK" /\ world.gate = StepOf(label) /\ ~ world.submitting
          /\ Step(r, label, Sent, row, v)
  BY DEF GateSubmitIdentity, GateScanBiometric, GateSubmitCbn, GateSends, StepOf, Verifying
<1>2. SdkRowOK(row, world) /\ SdkShape(world) /\ Waiting(world)
  BY <1>1, SdkFacts DEF HostToldInv, PageOK
<1>3. SdkShape(v) /\ Same(v, world, {"submitting"}) /\ v.submitting = TRUE
  BY <1>2, SubmittingFacts
<1>4. TurnTo(r, label, Sent, v)
  BY <1>1, TurnIs
<1> HIDE DEF v
<1>5. Sent.gate = world.gateNo /\ Sent.pending = world.pending
  BY DEF Sent
<1>6. /\ PageSame(v, world) /\ v.timers = world.timers /\ v.launches = world.launches
      /\ v.pending = world.pending /\ v.gateNo = world.gateNo /\ v.gate = world.gate
  BY <1>3 DEF Same, PageSame, SameOf
<1>7. PageOK(v) /\ Onward(v, world, NoPayload)
  BY <1>1, <1>3, <1>6, StillTold
<1>8. \A q \in Requests : FetchOK(pc[q], held[q], v)
  BY <1>1, <1>3, <1>6, <1>7, OtherKept
<1>9. StepOf(label) # "closed" /\ (label \in Verifying => StepOf(label) = "cbn")
  BY DEF StepOf, Verifying
<1>10. world.pending \in Payloads
  BY <1>1, <1>2, <1>9 DEF SdkRowOK, SdkShape
<1>11. FetchOK(label, Sent, v)
  <2>1. world.pending <= world.launches /\ Fresh(world, world.pending)
    BY <1>2, <1>10 DEF Waiting
  <2>2. Fresh(v, world.pending)
    BY <1>10, <2>1, Numbers, <1>7 DEF Onward
  <2>3. label \in Verifying => \A t \in Of(v, {"verified"}) : t.for # world.pending
    BY <1>1, <1>2, <1>6, <1>9 DEF Waiting, Of
  <2> QED
    BY <1>1, <1>3, <1>5, <1>6, <2>1, <2>2, <2>3 DEF FetchOK
<1>12. ASSUME NEW q \in Requests \ {r}
       PROVE  Apart(label, Sent, pc[q], held[q]) /\ Apart(pc[q], held[q], label, Sent)
  <2>1. FetchOK(pc[q], held[q], world)
    BY <1>1 DEF HostToldInv
  <2>2. pc[q] \in GateLabels => held[q].gate # world.gateNo
    BY <1>1, <2>1 DEF FetchOK
  <2>3. Verifying \subseteq GateLabels
    BY DEF Verifying, GateLabels, SdkLabels
  <2>4. pc[q] \in Verifying => held[q].pending # world.pending
    BY <2>1, <2>2, <2>3 DEF FetchOK
  <2> QED
    BY <1>5, <2>2, <2>4 DEF Apart
<1> QED
  BY <1>4, <1>7, <1>8, <1>11, <1>12, TurnTold

\* The gate takes an answer, or it is gone.
LEMMA GateMovesTold ==
    ASSUME OperationsInv, HostToldInv, service = "SDK", NEW r \in Requests,
           pc[r] \in GateLabels, NEW step \in GateSteps \ {"closed"},
           step = "verified" => Believed(row)
    PROVE  LET v == GateMoves(r, step)
           IN  /\ SdkShape(v) /\ PageOK(v) /\ Onward(v, world, NoPayload)
               /\ Same(v, world, {"gate", "submitting"}) /\ v.gateNo = world.gateNo
               /\ held[r].gate = world.gateNo => v.gate = step
               /\ \A q \in Requests \ {r} : FetchOK(pc[q], held[q], v)
<1> DEFINE v == GateMoves(r, step)
<1>1. SdkRowOK(row, world) /\ SdkShape(world) /\ FetchOK(pc[r], held[r], world)
  BY SdkFacts DEF HostToldInv
<1>2. held[r].gate = world.gateNo => world.gate # "closed"
  BY FetchFacts
<1>3. /\ SdkRowOK(row, v) /\ v.gateNo = world.gateNo
      /\ Same(v, world, {"gate", "submitting"})
      /\ held[r].gate = world.gateNo => v.gate = step
      /\ held[r].gate # world.gateNo => v = world
  BY <1>1, <1>2, GateMovesFacts
<1> HIDE DEF v
<1>4. SdkShape(v)
  BY <1>3 DEF SdkRowOK
<1>5. /\ PageSame(v, world) /\ v.timers = world.timers /\ v.launches = world.launches
      /\ v.pending = world.pending
  BY <1>3 DEF Same, PageSame, SameOf
<1>6. world.gate = "verified" => v.gate = "verified"
  <2>1. StepOf(pc[r]) # "verified"
    BY DEF StepOf, Verifying, GateLabels, SdkLabels
  <2> QED
    BY <1>1, <1>3, <2>1 DEF FetchOK
<1>7. PageOK(v) /\ Onward(v, world, NoPayload)
  BY <1>3, <1>4, <1>5, <1>6, StillTold
<1>8. ASSUME NEW q \in Requests \ {r}
      PROVE  FetchOK(pc[q], held[q], v)
  <2>1. CASE held[r].gate # world.gateNo
    BY <1>3, <1>4, <1>7, <2>1, OtherKept
  <2>2. CASE held[r].gate = world.gateNo
    <3>1. Apart(pc[r], held[r], pc[q], held[q])
      BY DEF HostToldInv
    <3>2. pc[q] \in GateLabels => held[q].gate # v.gateNo
      BY <1>3, <2>2, <3>1 DEF Apart
    <3> QED
      BY <1>4, <1>7, <3>2, OtherKept
  <2> QED
    BY <2>1, <2>2
<1> QED
  BY <1>3, <1>4, <1>7, <1>8 DEF v

LEMMA GateAnsweredTold ==
    ASSUME OperationsInv, HostToldInv, service = "SDK", NEW r \in Requests,
           \/ GateRegistered(r) \/ GateCaptured(r)
           \/ GateNotRegistered(r) \/ GateNotVerified(r)
    PROVE  HostToldInv'
<1>1. PICK step \in {"identity", "biometric", "cbn", "pending"} :
         TurnTo(r, "idle", held[r], GateMoves(r, step)) /\ pc[r] \in GateLabels
  BY TurnIs DEF GateRegistered, GateCaptured, GateNotRegistered, GateNotVerified, Act,
                GateLabels, SdkLabels
<1>2. /\ PageOK(GateMoves(r, step))
      /\ \A q \in Requests \ {r} : FetchOK(pc[q], held[q], GateMoves(r, step))
  BY <1>1, GateMovesTold DEF GateSteps
<1>3. "idle" \notin GateLabels
  BY DEF GateLabels, SdkLabels
<1> QED
  BY <1>1, <1>2, <1>3, TurnTold

\* The last step is shown, and its timer is for what was sent with it.
LEMMA GateVerifiedTold ==
    ASSUME OperationsInv, HostToldInv, service = "SDK", NEW r \in Requests, GateVerified(r)
    PROVE  HostToldInv'
<1> DEFINE p == held[r].pending
           c == Callback("verified", "gate", p)
           g == GateMoves(r, "verified")
           v == More(g, c)
<1>1. /\ pc[r] \in Verifying /\ pc[r] \in GateLabels /\ pc[r] = "sdk_verified"
      /\ TurnTo(r, "idle", held[r], [g EXCEPT !.timers = @ (+) Timer("verified", "gate", p)])
  BY TurnIs DEF GateVerified, Act, Verifying, GateLabels, SdkLabels
<1>2. Believed(row) /\ SdkShape(world)
  BY <1>1, SdkFacts DEF SdkRequestOK
<1>3. /\ SdkShape(g) /\ PageOK(g) /\ Onward(g, world, NoPayload)
      /\ Same(g, world, {"gate", "submitting"}) /\ g.gateNo = world.gateNo
      /\ held[r].gate = world.gateNo => g.gate = "verified"
      /\ \A q \in Requests \ {r} : FetchOK(pc[q], held[q], g)
  BY <1>1, <1>2, GateMovesTold DEF GateSteps
<1> HIDE DEF g
<1>4. c.for = p /\ c.do = "verified"
  BY CallbackFacts
<1>5. /\ p \in Payloads /\ p <= world.launches /\ Fresh(world, p)
      /\ \A t \in Of(world, {"verified"}) : t.for # p
      /\ p = world.pending => held[r].gate = world.gateNo
  BY <1>1, FetchFacts DEF HostToldInv, FetchOK
<1>6. TurnTo(r, "idle", held[r], v)
  BY <1>1, <1>3, AddIsMore
<1> HIDE DEF c, p
<1>7. MoreBy(v, g, {c})
  BY <1>3, <1>4, <1>5, MoreFacts DEF ModalTimers
<1> HIDE DEF v
<1>8. /\ SdkShape(v) /\ Kept(v, g) /\ v.screen = g.screen /\ v.scanning = g.scanning
      /\ \A t : Copies(v.timers, t) = Copies(g.timers, t) + (IF t = c THEN 1 ELSE 0)
  BY <1>7 DEF MoreBy
<1>9. \A t : Copies(v.timers, t) \in Nat /\ Copies(g.timers, t) \in Nat
  BY <1>3, <1>8, CopiesFacts
<1>10. \A t : t # c => Copies(v.timers, t) = Copies(g.timers, t)
  BY <1>8, <1>9
<1>11. PageSame(v, g)
  BY <1>4, <1>8, <1>10 DEF PageSame, SameOf, Kept, ModalTimers, TellKinds
<1>12. TellsOnce(v) /\ TellsAtLast(v) /\ Keeps(v, g)
  BY <1>3, <1>8, <1>11, PageSameTells DEF PageOK
<1>13. g.timers = world.timers /\ g.launches = world.launches /\ g.pending = world.pending
  BY <1>3 DEF Same
<1>14. /\ v.launches = g.launches /\ v.pending = g.pending /\ v.gate = g.gate
       /\ v.active = g.active /\ v.gateNo = g.gateNo /\ v.submitting = g.submitting
  BY <1>8 DEF Kept
<1>15. \A t \in Of(v, {"verified"}) : t = c \/ t \in Of(g, {"verified"})
  <2>1. \A t \in Of(v, {"verified"}) : Copies(v.timers, t) > 0 /\ t.do = "verified"
    BY <1>8, OfFacts
  <2> QED
    BY <1>3, <1>10, <2>1, OfFacts
<1>16. \A t \in Of(g, {"verified"}) : t.for # p
  BY <1>5, <1>13 DEF Of
<1>17. Waiting(v)
  <2>1. Waiting(g)
    BY <1>3 DEF PageOK
  <2>2. v.active <= v.launches /\ v.pending <= v.launches
    BY <1>14, <2>1 DEF Waiting
  <2>3. \A q \in Payloads : q > v.launches \/ q = v.pending => Fresh(v, q)
    BY <1>12, <1>14, <2>1 DEF Waiting, Keeps
  <2>4. \A t, u \in Of(v, {"verified"}) : t.for = u.for => t = u
    BY <1>4, <1>15, <1>16, <2>1 DEF Waiting
  <2>5. ASSUME NEW t \in Of(v, {"verified"})
        PROVE  /\ Copies(v.timers, t) = 1 /\ t.for <= v.launches /\ Fresh(v, t.for)
               /\ t.for = v.pending => v.gate = "verified"
    <3>1. CASE t # c
      <4>1. t \in Of(g, {"verified"}) /\ t.for \in Payloads
        BY <1>3, <1>15, <3>1, OfFacts
      <4> QED
        BY <1>10, <1>12, <1>14, <2>1, <3>1, <4>1 DEF Waiting, Keeps
    <3>2. CASE t = c
      <4>1. c \notin Of(g, {"verified"})
        BY <1>4, <1>16
      <4>2. Copies(g.timers, c) = 0
        BY <1>3, <1>4, <1>9, <4>1, OfFacts
      <4>3. Copies(v.timers, c) = 1
        BY <1>8, <4>2
      <4>4. Fresh(g, p)
        BY <1>3, <1>5, Numbers DEF Onward
      <4>5. Fresh(v, p)
        BY <1>5, <1>12, <4>4 DEF Keeps
      <4> QED
        BY <1>3, <1>4, <1>5, <1>13, <1>14, <3>2, <4>3, <4>5
    <3> QED
      BY <3>1, <3>2
  <2> QED
    BY <2>2, <2>3, <2>4, <2>5 DEF Waiting
<1>18. PageOK(v)
  BY <1>12, <1>17 DEF PageOK
<1>19. ASSUME NEW q \in Requests \ {r}
       PROVE  FetchOK(pc[q], held[q], v)
  <2>1. FetchOK(pc[q], held[q], g)
    BY <1>3
  <2>2. pc[q] \in Verifying => held[q].pending # p /\ held[q].pending \in Payloads
    BY <1>1, FetchFacts DEF HostToldInv, Apart, p
  <2>3. pc[q] \in Verifying => \A t \in Of(v, {"verified"}) : t.for # held[q].pending
    BY <1>4, <1>15, <2>1, <2>2 DEF FetchOK
  <2> QED
    BY <1>12, <1>14, <2>1, <2>2, <2>3 DEF FetchOK, Keeps
<1>20. "idle" \notin GateLabels
  BY DEF GateLabels, SdkLabels
<1> QED
  BY <1>6, <1>18, <1>19, <1>20, TurnTold

\* An administrator turns the profile, not the page.
LEMMA UnmovedTold ==
    ASSUME HostToldInv, UNCHANGED <<service, world, pc, held>>
    PROVE  HostToldInv'
<1>1. service' = service /\ world' = world /\ pc' = pc /\ held' = held
  OBVIOUS
<1> QED
  BY <1>1 DEF HostToldInv

LEMMA SdkTold ==
    ASSUME OperationsInv, HostToldInv, NEW r \in Requests, service = "SDK",
           SdkCall(r) \/ SdkGoOn(r) \/ SdkFails(r) \/ Die(r)
    PROVE  HostToldInv'
<1>1. CASE AdminVerify(r) \/ AdminSuspend(r)
  <2>1. UNCHANGED <<service, world, pc, held>>
    BY <1>1 DEF AdminVerify, AdminSuspend, Once
  <2> QED
    BY <2>1, UnmovedTold
<1> QED
  BY <1>1, SdkCheckTold, ServerTold, GateSendsTold, GateAnsweredTold, GateVerifiedTold
     DEF SdkCall, SdkGoOn, SdkFails

LEMMA TerminalKeeps ==
    ASSUME NEW r,
           TerminalCall(r) \/ TerminalGoOn(r) \/ TerminalTimePasses \/ TerminalDailyLock
    PROVE  service' = service
<1>1. CASE TerminalCall(r)
  BY <1>1 DEF TerminalCall, TerminalBind, TerminalHeartbeat, TerminalAlreadyOperational,
     TerminalAttemptUnlock, TerminalFindInactive, Begin, Once
<1>2. CASE TerminalGoOn(r)
  BY <1>2 DEF TerminalGoOn, TerminalRunGates, TerminalUnlock, TerminalCountFailure,
     ReportStealthCapture, TerminalResetCount, TerminalInactivityLock, Save, Act, Step
<1> QED
  BY <1>1, <1>2 DEF TerminalTimePasses, TerminalDailyLock, Outside

LEMMA VerifyKeeps ==
    ASSUME NEW r, VerifyCall(r) \/ VerifyGoOn(r) \/ VerifyTimePasses
    PROVE  service' = service
<1>1. CASE VerifyCall(r)
  BY <1>1 DEF VerifyCall, VerifyEnroll, VerifyConfirm, MirrorNibssYes, Begin
<1>2. CASE VerifyGoOn(r)
  BY <1>2 DEF VerifyGoOn, VerifyCreateTfan, SecondWatch, VerifyAppendLedger,
     VerifyCheckFailureRate, MirrorGate, MirrorAnswer, Save, Act, Step
<1> QED
  BY <1>1, <1>2 DEF VerifyTimePasses, Outside

LEMMA BankKeeps ==
    ASSUME NEW r, BankCall(r) \/ BankGoOn(r)
    PROVE  service' = service
BY DEF BankCall, BankAdvance, BankPushManually, BankGoOn, BankSetStatus, BankPushNext,
   BankCountPushes, Begin, Save, Step

LEMMA RegulatoryKeeps ==
    ASSUME NEW r,
           \/ RegulatoryCall(r) \/ RegulatoryGoOn(r)
           \/ LicenceTimePasses \/ BalanceChanges
    PROVE  service' = service
<1>1. CASE RegulatoryCall(r)
  BY <1>1 DEF RegulatoryCall, ListLicenses, ConfirmRenewal, ScanRedFlags,
     ResolveRedFlag, Begin, Once
<1>2. CASE RegulatoryGoOn(r)
  BY <1>2 DEF RegulatoryGoOn, LicenceUpdate, LicenceRenew, LicenceResolveFlags,
     FlagTrigger, FlagRaise, Save, Step
<1> QED
  BY <1>1, <1>2 DEF LicenceTimePasses, BalanceChanges, Outside

LEMMA VaultKeeps ==
    ASSUME NEW r, VaultCall(r) \/ VaultGoOn(r) \/ VaultTimePasses
    PROVE  service' = service
<1>1. CASE VaultCall(r)
  BY <1>1 DEF VaultCall, ApplyAsPartner, ApprovePartner, SuspendPartner, CreateVault,
     RunFlip, Begin, Once
<1>2. CASE VaultGoOn(r)
  BY <1>2 DEF VaultGoOn, BankCreateVault, VaultCreated, VaultCountCreated,
     FlipFindPartner, BankFlips, BankFlipFails, FlipCountFailure, VaultFlipped,
     VaultCountFlipped, Save, Act, Pass, Fault, Step
<1> QED
  BY <1>1, <1>2 DEF VaultTimePasses, Outside

LEMMA ProofKeeps ==
    ASSUME NEW r, ProofCall(r) \/ ProofGoOn(r) \/ ProofTimePasses
    PROVE  service' = service
<1>1. CASE ProofCall(r)
  BY <1>1 DEF ProofCall, PerformLiveYesGate, AuthorizeExecutionOperation, Begin, Once
<1>2. CASE ProofGoOn(r)
  BY <1>2 DEF ProofGoOn, VerifyPassive, GateAnswers, Save, Act, Pass, Step
<1> QED
  BY <1>1, <1>2 DEF ProofTimePasses, Outside

LEMMA AnchorKeeps ==
    ASSUME NEW r, AnchorCall(r) \/ AnchorGoOn(r) \/ AnchorTimePasses
    PROVE  service' = service
<1>1. CASE AnchorCall(r)
  BY <1>1 DEF AnchorCall, RegisterAnchor, GetAnchor, CheckOnline, CheckOffline, Near,
     Begin, Once
<1>2. CASE AnchorGoOn(r)
  BY <1>2 DEF AnchorGoOn, UpsertAnchor, FreshToken, Act, Step
<1> QED
  BY <1>1, <1>2 DEF AnchorTimePasses, Outside

LEMMA OtherCalls ==
    ASSUME NEW r,
           \/ TerminalCall(r) \/ VerifyCall(r) \/ BankCall(r) \/ RegulatoryCall(r)
           \/ VaultCall(r) \/ ProofCall(r) \/ AnchorCall(r)
           \/ TerminalTimePasses \/ TerminalDailyLock \/ VerifyTimePasses
           \/ LicenceTimePasses \/ BalanceChanges \/ VaultTimePasses
           \/ ProofTimePasses \/ AnchorTimePasses
    PROVE  service # "SDK"
<1>1. CASE TerminalCall(r) \/ VerifyCall(r) \/ BankCall(r)
  BY <1>1 DEF TerminalCall, TerminalBind, TerminalHeartbeat, TerminalAlreadyOperational,
     TerminalAttemptUnlock, TerminalFindInactive, VerifyCall, VerifyEnroll,
     VerifyConfirm, MirrorNibssYes, BankCall, BankAdvance, BankPushManually
<1>2. CASE RegulatoryCall(r) \/ VaultCall(r)
  BY <1>2 DEF RegulatoryCall, ListLicenses, ConfirmRenewal, ScanRedFlags,
     ResolveRedFlag, VaultCall, ApplyAsPartner, ApprovePartner, SuspendPartner,
     CreateVault, RunFlip
<1>3. CASE ProofCall(r) \/ AnchorCall(r)
  BY <1>3 DEF ProofCall, PerformLiveYesGate, AuthorizeExecutionOperation, AnchorCall,
     RegisterAnchor, GetAnchor, CheckOnline, CheckOffline
<1> QED
  BY <1>1, <1>2, <1>3 DEF TerminalTimePasses, TerminalDailyLock, VerifyTimePasses,
     LicenceTimePasses, BalanceChanges, VaultTimePasses, ProofTimePasses,
     AnchorTimePasses

LEMMA OtherKeeps ==
    ASSUME service # "SDK", NEW r,
           \/ TerminalCall(r) \/ VerifyCall(r) \/ BankCall(r) \/ RegulatoryCall(r)
           \/ VaultCall(r) \/ SdkCall(r) \/ ProofCall(r) \/ AnchorCall(r)
           \/ OGoOn(r) \/ Die(r)
           \/ TerminalTimePasses \/ TerminalDailyLock \/ VerifyTimePasses
           \/ LicenceTimePasses \/ BalanceChanges \/ VaultTimePasses
           \/ SdkPage \/ ProofTimePasses \/ AnchorTimePasses
    PROVE  service' = service
<1>1. ~ SdkCall(r)
  BY DEF SdkCall, SdkCheck, GateSubmitIdentity, GateScanBiometric, GateSubmitCbn,
     GateSends, AdminVerify, AdminSuspend
<1>2. ~ SdkPage
  BY DEF SdkPage, SdkLaunch, SdkClose, GateAbort, ModalClick, ModalScan, ModalTell,
     ModalTimerFires, HostTimerFires, GateOpens
<1>3. CASE Die(r)
  BY <1>3 DEF Die, Fault
<1>4. CASE OGoOn(r)
  BY <1>4, TerminalKeeps, VerifyKeeps, BankKeeps, RegulatoryKeeps, VaultKeeps,
     ProofKeeps, AnchorKeeps DEF OGoOn
<1> QED
  BY <1>1, <1>2, <1>3, <1>4, TerminalKeeps, VerifyKeeps, BankKeeps, RegulatoryKeeps,
     VaultKeeps, ProofKeeps, AnchorKeeps

LEMMA HostToldNext ==
    ASSUME OperationsInv, HostToldInv, [ONext]_fvars
    PROVE  HostToldInv'
<1>1. CASE UNCHANGED fvars
  BY <1>1, UnmovedTold DEF fvars
<1>2. CASE service = "SDK" /\ ONext
  <2>1. ASSUME NEW r \in Requests,
               SdkCall(r) \/ SdkGoOn(r) \/ SdkFails(r) \/ Die(r)
        PROVE  HostToldInv'
    BY <1>2, <2>1, SdkTold
  <2>2. ASSUME NEW r \in Requests, OGoOn(r)
        PROVE  SdkGoOn(r)
    BY <1>2, <2>2 DEF OGoOn
  <2> QED
    BY <1>2, <2>1, <2>2, OtherCalls, SdkPageTold DEF ONext
<1>3. CASE service # "SDK" /\ ONext
  <2>1. service' = service
    BY <1>3, OtherKeeps DEF ONext
  <2> QED
    BY <1>3, <2>1 DEF HostToldInv
<1> QED
  BY <1>1, <1>2, <1>3

LEMMA HostToldInit ==
    ASSUME OInit
    PROVE  HostToldInv
<1> SUFFICES ASSUME service = "SDK"
             PROVE  /\ PageOK(world)
                    /\ \A r \in Requests : FetchOK(pc[r], held[r], world)
                    /\ \A q, r \in Requests : q # r => Apart(pc[q], held[q], pc[r], held[r])
  BY DEF HostToldInv
<1>1. world = SdkNothing /\ \A r \in Requests : pc[r] = "idle"
  BY DEF OInit, Nothing, FrameInit
<1>2. /\ world.active = NoPayload /\ world.pending = NoPayload /\ world.launches = 0
      /\ world.fn = "none" /\ world.shown = {} /\ world.gate = "closed"
      /\ world.told = [p \in Payloads |-> 0] /\ world.timers = EmptyBag
  BY <1>1 DEF SdkNothing
<1>3. \A dos : Of(world, dos) = {}
  BY <1>2 DEF Of, EmptyBag, SetToBag, BagToSet
<1>4. \A p \in Payloads : Silent(world, p) /\ Telling(world, p) = {}
  BY <1>2, <1>3 DEF Silent, Telling
<1>5. TellsOnce(world)
  <2>1. OneTimer(world)
    BY <1>3 DEF OneTimer
  <2>2. \A p \in Payloads : ToldOnce(world, p)
    BY <1>2, <1>4 DEF ToldOnce
  <2> QED
    BY <1>2, <2>1, <2>2 DEF TellsOnce
<1>6. TellsAtLast(world)
  BY <1>2 DEF TellsAtLast
<1>7. Waiting(world)
  <2>1. \A p \in Payloads : p # NoPayload
    BY DEF Payloads, NoPayload
  <2>2. \A p \in Payloads : Fresh(world, p)
    BY <1>2, <1>4, <2>1 DEF Fresh
  <2> QED
    BY <1>2, <1>3, <2>2 DEF Waiting, NoPayload
<1>8. \A r \in Requests : FetchOK(pc[r], held[r], world)
  BY <1>1 DEF FetchOK, GateLabels, SdkLabels, Verifying
<1>9. \A q, r \in Requests : Apart(pc[q], held[q], pc[r], held[r])
  BY <1>1 DEF Apart, GateLabels, SdkLabels, Verifying
<1> QED
  BY <1>5, <1>6, <1>7, <1>8, <1>9 DEF PageOK

\* The second inductive invariant, which rests on the first.
THEOREM HostToldKept == OSpec => []HostToldInv
<1>1. OInit => HostToldInv
  BY HostToldInit
<1>2. OperationsInv /\ HostToldInv /\ [ONext]_fvars => HostToldInv'
  BY HostToldNext
<1> QED
  BY <1>1, <1>2, OperationsKept, PTL DEF OSpec

LEMMA BooksSaid ==
    ASSUME OperationsInv
    PROVE  /\ service = "BANK" =>
                 /\ row.pushCount <= row.pushes
                 /\ Settled => row.pushCount = row.pushes
           /\ service = "VERIFY" /\ Settled => row.mirrored = world.answered
           /\ service = "VAULT" /\ Settled =>
                 /\ row.totalVaultsCreated = Len(row.vaults)
                 /\ world.nubans = Len(row.vaults)
                 /\ row.totalVaultsFlipped >= Cardinality(ActiveOf(row))
<1> DEFINE n == [k \in Kinds |-> Cardinality(InHand(k))]
           u == n["uncounted"]
<1>1. /\ \A k \in Kinds : n[k] \in Nat
      /\ Balanced(row, world, faults, n)
  BY FS_CardinalityType DEF OperationsInv, Counted
<1>2. Settled => /\ n["uncounted"] = 0 /\ n["unrecorded"] = 0 /\ n["flips"] = 0
                 /\ faults = 0
  <2> SUFFICES ASSUME Settled
               PROVE  /\ n["uncounted"] = 0 /\ n["unrecorded"] = 0 /\ n["flips"] = 0
                      /\ faults = 0
    OBVIOUS
  <2>1. \A k \in Kinds : InHand(k) = {}
    BY DEF Settled, Busy, InHand
  <2>2. Cardinality({}) = 0
    BY FS_EmptySet
  <2> QED
    BY <2>1, <2>2 DEF Kinds, Settled
<1>3. n["uncounted"] \in Nat
  BY <1>1 DEF Kinds
<1> HIDE DEF n
<1>4. ASSUME service = "BANK"
      PROVE  /\ row.pushCount <= row.pushes
             /\ Settled => row.pushCount = row.pushes
  <2>1. row.pushCount \in Nat /\ row.pushes \in Nat
    BY <1>4 DEF OperationsInv, Typed, ORows, BankRows
  <2>2. /\ row.pushCount + u <= row.pushes
        /\ faults = 0 => row.pushCount + u = row.pushes
    BY <1>1, <1>4 DEF Balanced
  <2> QED
    BY <1>2, <1>3, <2>1, <2>2
<1>5. ASSUME service = "VERIFY", Settled
      PROVE  row.mirrored = world.answered
  <2>1. world.answered \in Nat
    BY <1>5 DEF OperationsInv, Typed, OWorld, VerifyWorlds
  <2>2. row.mirrored = world.answered + u
    BY <1>1, <1>2, <1>5 DEF Balanced
  <2> QED
    BY <1>2, <1>5, <2>1, <2>2
<1>6. ASSUME service = "VAULT", Settled
      PROVE  /\ row.totalVaultsCreated = Len(row.vaults)
             /\ world.nubans = Len(row.vaults)
             /\ row.totalVaultsFlipped >= Cardinality(ActiveOf(row))
  <2>1. /\ row.vaults \in Seq(VaultRecords) /\ row.totalVaultsCreated \in Nat
        /\ row.totalVaultsFlipped \in Nat
    BY <1>6 DEF OperationsInv, Typed, ORows, VaultRows
  <2>2. Len(row.vaults) \in Nat
    BY <2>1, LenProperties
  <2>3. /\ world.nubans = Len(row.vaults) + n["unrecorded"]
        /\ Len(row.vaults) = row.totalVaultsCreated + n["uncounted"]
        /\ row.totalVaultsFlipped + n["flips"] >= Cardinality(ActiveOf(row))
    BY <1>1, <1>2, <1>6 DEF Balanced
  <2> QED
    BY <1>2, <1>6, <2>1, <2>2, <2>3
<1> QED
  BY <1>4, <1>5, <1>6

\* A quiet service whose requests never overlapped counted each flip once.
LEMMA FlipsSaid ==
    ASSUME OperationsInv, service = "VAULT", Settled, ~ overlapped
    PROVE  row.totalVaultsFlipped = Cardinality(ActiveOf(row))
<1>1. VaultSoloOK("idle", NoValue, row, faults) /\ faults = 0
  BY SoloHolds DEF SoloOK, Settled
<1>2. row.totalVaultsFlipped \in Nat
  BY DEF OperationsInv, Typed, ORows, VaultRows
<1> QED
  BY <1>1, <1>2 DEF VaultSoloOK

LEMMA ToldSaid ==
    ASSUME OperationsInv, HostToldInv, service = "SDK", NEW p \in Payloads
    PROVE  /\ world.told[p] <= 1 \/ world.fn \in Twice
           /\ /\ world.active = p /\ world.screen \in ModalOf(world.fn).ends
              /\ p \in world.shown
              => world.told[p] > 0 \/ Pending(p)
<1>1. TellsOnce(world) /\ TellsAtLast(world)
  BY DEF HostToldInv, PageOK
<1>2. world.told[p] <= 1 \/ world.fn \in Twice
  BY <1>1 DEF TellsOnce, ToldOnce
<1>3. p # NoPayload
  BY DEF Payloads, NoPayload
<1>4. Telling(world, p) # {} => Pending(p)
  BY DEF Telling, Of, Pending
<1> QED
  BY <1>1, <1>2, <1>3, <1>4 DEF TellsAtLast

LEMMA CountsSaid ==
    ASSUME OperationsInv, HostToldInv
    PROVE  CountsHonest
<1>1. ActiveVaults = ActiveOf(row)
  BY DEF ActiveVaults, ActiveOf
<1>2. ASSUME service = "VAULT", Settled,
             row.totalVaultsFlipped > Cardinality(ActiveVaults)
      PROVE  overlapped
  <2>1. row.totalVaultsFlipped \in Nat
    BY <1>2 DEF OperationsInv, Typed, ORows, VaultRows
  <2>2. ~ overlapped => row.totalVaultsFlipped = Cardinality(ActiveVaults)
    BY <1>1, <1>2, FlipsSaid
  <2> QED
    BY <1>2, <2>1, <2>2
<1>3. CASE service = "SDK"
  BY <1>3, ToldSaid DEF CountsHonest, Twice
<1>4. CASE service # "SDK"
  BY <1>1, <1>2, <1>4, BooksSaid DEF CountsHonest
<1> QED
  BY <1>3, <1>4

\* A bank's count of pushes is never ahead of its push rows; once all is quiet
\* and nothing failed it equals them, a partner's counters equal the vaults in
\* the table and at the bank, and every Yes mirrored is answered; and the host
\* is told of a launch at most once by most functions, and of one that stands
\* on its last screen it is told, or a timer that will tell is running.
THEOREM CountsAreHonest == OSpec => []CountsHonest
<1>1. OperationsInv /\ HostToldInv => CountsHonest
  BY CountsSaid
<1> QED
  BY <1>1, OperationsKept, HostToldKept, PTL

=============================================================================
