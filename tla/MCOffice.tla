------------------------------ MODULE MCOffice ------------------------------
(***************************************************************************)
(* MCSubscription, and beside it five parts of the system that share no    *)
(* state with it in these models: a behaviour is one of one part, and the  *)
(* others rest.                                                            *)
(***************************************************************************)
EXTENDS MCSubscription, EntitlementCache, DocumentNumbers, Quotations, Fees, NotificationSweep

VARIABLE part

paperVars == <<numberVars, quotationVars, feesVars>>
officeVars == <<part, vars, cacheVars, paperVars, sweepVars>>

OfficeInit ==
  /\ part \in {"subscription", "cache", "numbers", "quotation", "fees", "notifications"}
  /\ Init /\ CacheInit /\ NumbersInit /\ QuotationInit /\ FeesInit /\ SweepInit
  /\ part # "cache" => driver = "memory"
  /\ part # "quotation" => quotation.total = 1
  /\ part # "notifications" => audience = [r \in Rows |-> {}]

SubscriptionPart ==
  part = "subscription" /\ Next /\ UNCHANGED <<part, cacheVars, paperVars, sweepVars>>
CachePart ==
  part = "cache" /\ CacheNext /\ UNCHANGED <<part, vars, paperVars, sweepVars>>
NumbersPart ==
  /\ part = "numbers" /\ NumbersNext
  /\ UNCHANGED <<part, vars, cacheVars, quotationVars, feesVars, sweepVars>>
QuotationPart ==
  /\ part = "quotation" /\ QuotationNext
  /\ UNCHANGED <<part, vars, cacheVars, numberVars, feesVars, sweepVars>>
FeesPart ==
  /\ part = "fees" /\ FeesNext
  /\ UNCHANGED <<part, vars, cacheVars, numberVars, quotationVars, sweepVars>>
NotificationsPart ==
  part = "notifications" /\ SweepNext /\ UNCHANGED <<part, vars, cacheVars, paperVars>>

OfficeNext ==
  \/ SubscriptionPart \/ CachePart
  \/ NumbersPart \/ QuotationPart \/ FeesPart \/ NotificationsPart

OfficeSpec == OfficeInit /\ [][OfficeNext]_officeVars

(* Rows of fees are used in order, their names meaning nothing; and one    *)
(* mishap befalls the sweeps, of either kind.                              *)
FirstFee == CHOOSE f \in Fees : TRUE
SmallOffice ==
  /\ (\E f \in Fees : fee[f].status # "absent") => fee[FirstFee].status # "absent"
  /\ deaths + throws <= 1

(* The rows of the part that is awake, its counters and what its handlers  *)
(* hold keep their types.                                                  *)
OfficeTypes ==
  CASE part = "subscription" -> TypeOK
    [] part = "cache" -> CacheTypeOK
    [] part = "numbers" -> NumbersTypeOK
    [] part = "quotation" -> QuotationTypeOK
    [] part = "fees" -> FeesTypeOK
    [] part = "notifications" -> SweepTypeOK
=============================================================================
