--------------------------- MODULE LocationAnchors ---------------------------
(***************************************************************************)
(* A customer's location anchor and the 10-metre rule of withdrawals,      *)
(* apps/api/src/bepwg: the anchor is registered and moved; tokens signed   *)
(* with its place let a terminal apply the rule without a network, for     *)
(* OFFLINE_CACHE_TTL_HOURS.  The server keeps no copy of a token, and a    *)
(* new anchor takes none back.                                             *)
(*                                                                         *)
(* One customer is followed: a token of another is refused.  Distance on   *)
(* the sphere is distance on a line here.  The encrypted blob kept beside  *)
(* the anchor is written with it and read by no service.                   *)
(***************************************************************************)
EXTENDS ServiceFrame, Integers

CONSTANTS
    Places,     \* where the anchor is put, in metres along a line
    Devices,    \* where terminals are
    Radius,     \* PROXIMITY_RADIUS_M
    CacheTtl,   \* OFFLINE_CACHE_TTL_HOURS, in ticks of the clock
    MaxHours    \* bound: ticks of the clock

ASSUME AnchorAssumption ==
    /\ Places \cup Devices \subseteq Nat /\ Radius \in Nat
    /\ CacheTtl \in Nat /\ MaxHours \in Nat

NoPlace == -1

AnchorRows == [place : Places \cup {NoPlace}]     \* NoPlace without a row
AnchorEmpty == [place |-> NoPlace]

Tokens == [place : Places, until : Nat]

AnchorWorlds ==
    [now : Nat,
     tokens : SUBSET Tokens,            \* handed out
     was : [Places -> Nat \cup {-1}],   \* when each place was last the anchor
     passed : {NoValue} \cup            \* a withdrawal within the radius, this tick
                  [device : Devices, way : {"online", "offline"}],
     slow : BOOLEAN]                    \* the clock ticked between read and token

AnchorNothing ==
    [now |-> 0, tokens |-> {}, was |-> [p \in Places |-> -1], passed |-> NoValue,
     slow |-> FALSE]

Signed(place) == [place |-> place, until |-> world.now + CacheTtl]

Handed(w, token) == [w EXCEPT !.tokens = @ \cup {token}]

\* The token is signed before the row is written, and answered after.
RegisterAnchor(r) ==
    service = "ANCHOR" /\ \E p \in Places : Begin(r, "anchor_upsert", Signed(p))

UpsertAnchor(r) ==
    LET place == held[r].place IN
    /\ pc[r] = "anchor_upsert"
    /\ Step(r, "idle", NoValue, [row EXCEPT !.place = place],
            Handed([world EXCEPT !.was[place] = world.now], held[r]))

\* A fresh token is signed with the row as it was read.
GetAnchor(r) ==
    /\ service = "ANCHOR" /\ row.place # NoPlace
    /\ Begin(r, "anchor_mint", [place |-> row.place, until |-> world.now])

FreshToken(r) ==
    pc[r] = "anchor_mint" /\ Act(r, Handed(world, Signed(held[r].place)), "idle")

CheckProximity(device, place) ==
    device - place <= Radius /\ place - device <= Radius

Near(r, device, way) ==
    Once(r, row, [world EXCEPT !.passed = [device |-> device, way |-> way]])

\* A withdrawal with a network: without an anchor none is near.
CheckOnline(r) ==
    /\ service = "ANCHOR" /\ row.place # NoPlace
    /\ \E d \in Devices : CheckProximity(d, row.place) /\ Near(r, d, "online")

\* A withdrawal that shows a token: in time, and near the place it names.
CheckOffline(r) ==
    /\ service = "ANCHOR"
    /\ \E t \in world.tokens, d \in Devices :
          world.now <= t.until /\ CheckProximity(d, t.place) /\ Near(r, d, "offline")

AnchorTimePasses ==
    /\ service = "ANCHOR" /\ world.now < MaxHours
    /\ Outside(row, [world EXCEPT
          !.now = @ + 1, !.passed = NoValue,
          !.was = [p \in Places |-> IF row.place = p THEN world.now + 1 ELSE @[p]],
          !.slow = @ \/ \E r \in Requests : pc[r] = "anchor_mint"])

AnchorLabels == {"anchor_upsert", "anchor_mint"}

AnchorCall(r) ==
    RegisterAnchor(r) \/ GetAnchor(r) \/ CheckOnline(r) \/ CheckOffline(r)

AnchorGoOn(r) == UpsertAnchor(r) \/ FreshToken(r)

-----------------------------------------------------------------------------
\* Whatever requests overlap or die, and however the anchor moves: a withdrawal
\* found within the radius is made near a place that is the anchor now or, by
\* a token, was at most its lifetime ago.  A token whose place was read long
\* before it was signed is the exception.
PassedNearAnchor ==
    service = "ANCHOR" /\ world.passed # NoValue =>
        \E p \in Places :
            /\ CheckProximity(world.passed.device, p)
            /\ world.was[p] >= 0
            /\ \/ world.was[p] + (IF world.passed.way = "online" THEN 0 ELSE CacheTtl)
                     >= world.now
               \/ world.passed.way = "offline" /\ world.slow
=============================================================================
