-------------------------- MODULE RegulatoryWatch ---------------------------
(***************************************************************************)
(* Bank licences and dedicated accounts, apps/api/src/rscc.  A licence's   *)
(* status follows its end date only when somebody lists the licences; a    *)
(* low dedicated account is flagged, once, when somebody asks for a scan.  *)
(*                                                                         *)
(* Dates are abstracted to how far away the end is, balances to whether    *)
(* they are below the projected payout.                                    *)
(***************************************************************************)
EXTENDS ServiceFrame

LicenceStatuses == {"ACTIVE", "EXPIRING_SOON", "SUSPENDED"}
Ends == {"far", "soon", "past"}

LicenceRows ==
    [status : LicenceStatuses, licenseEndDate : Ends,
     apiAccessRestricted : BOOLEAN,
     expiring : BOOLEAN]     \* an unresolved LICENSE_EXPIRING flag

ComputeStatus(end) ==
    CASE end = "far" -> "ACTIVE" [] end = "soon" -> "EXPIRING_SOON"
      [] end = "past" -> "SUSPENDED"

\* seedLicenses: no other code raises the flag.
LicenceSeeds ==
    {[status |-> ComputeStatus(end), licenseEndDate |-> end,
      apiAccessRestricted |-> end = "past", expiring |-> end # "far"] : end \in Ends}

LicenceTimePasses ==
    /\ service = "LICENCE" /\ row.licenseEndDate # "past"
    /\ Outside([row EXCEPT !.licenseEndDate =
                  IF row.licenseEndDate = "far" THEN "soon" ELSE "past"], world)

\* listLicenses: the status is computed from the row it read.
ListLicenses(r) ==
    /\ service = "LICENCE" /\ row.status # ComputeStatus(row.licenseEndDate)
    /\ Begin(r, "lic_update", ComputeStatus(row.licenseEndDate))

LicenceUpdate(r) ==
    /\ pc[r] = "lic_update"
    /\ Save(r, [row EXCEPT !.status = held[r],
                           !.apiAccessRestricted = held[r] = "SUSPENDED"], "idle")

ConfirmRenewal(r) == service = "LICENCE" /\ Begin(r, "lic_renew", NoValue)

LicenceRenew(r) ==
    /\ pc[r] = "lic_renew"
    /\ Save(r, [row EXCEPT !.status = "ACTIVE", !.licenseEndDate = "far",
                           !.apiAccessRestricted = FALSE], "lic_resolve")

LicenceResolveFlags(r) ==
    pc[r] = "lic_resolve" /\ Save(r, [row EXCEPT !.expiring = FALSE], "idle")

-----------------------------------------------------------------------------
\* One bank's dedicated account and its LOW_DEDICATED_ACCOUNT flags.
FlagRows ==
    [low : BOOLEAN, redFlagTriggered : BOOLEAN, open : Nat, resolved : Nat]

FlagEmpty ==
    [low |-> FALSE, redFlagTriggered |-> FALSE, open |-> 0, resolved |-> 0]

\* External: no code under src writes the balance after the seed.
BalanceChanges ==
    /\ service = "FLAGS"
    /\ Outside([row EXCEPT !.low = ~ @], world)

\* checkAndTriggerRedFlags: the scan marks the balance, then raises the flag.
ScanRedFlags(r) ==
    /\ service = "FLAGS" /\ ~ row.redFlagTriggered /\ row.low
    /\ Begin(r, "flag_trigger", NoValue)

FlagTrigger(r) ==
    /\ pc[r] = "flag_trigger"
    /\ Save(r, [row EXCEPT !.redFlagTriggered = TRUE], "flag_raise")

FlagRaise(r) ==
    pc[r] = "flag_raise" /\ Save(r, [row EXCEPT !.open = @ + 1], "idle")

\* Variation: resolving a resolved flag counts again.
MutResolveRedFlag(r) ==
    /\ service = "FLAGS" /\ row.open + row.resolved > 0
    /\ Once(r, [row EXCEPT !.open = @ - 1, !.resolved = @ + 1], world)

\* A flag may be resolved again; the balance's mark stays.
ResolveRedFlag(r) ==
    /\ service = "FLAGS"
    /\ \/ row.open > 0
          /\ Once(r, [row EXCEPT !.open = @ - 1, !.resolved = @ + 1], world)
       \/ row.resolved > 0 /\ Once(r, row, world)

RegulatoryLabels ==
    {"lic_update", "lic_renew", "lic_resolve", "flag_trigger", "flag_raise"}

RegulatoryCall(r) ==
    ListLicenses(r) \/ ConfirmRenewal(r) \/ ScanRedFlags(r) \/ ResolveRedFlag(r)

RegulatoryGoOn(r) ==
    \/ LicenceUpdate(r) \/ LicenceRenew(r) \/ LicenceResolveFlags(r)
    \/ FlagTrigger(r) \/ FlagRaise(r)
=============================================================================
