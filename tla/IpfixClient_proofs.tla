------------------------- MODULE IpfixClient_proofs -------------------------
(***************************************************************************)
(* Proofs about the composed IPFIX client: every stream runs at the rate  *)
(* last requested for it, across profile loads and generator commands,    *)
(* and a rejected profile command keeps the running profile.              *)
(***************************************************************************)
EXTENDS IpfixClient, TLAPS

(* A rate command and its request apply the same update to the streams of *)
(* one generator, so equal tables stay equal.                              *)
LEMMA SetAndRequest ==
  ASSUME NEW g, NEW tr, NEW r, rate = asked,
         G!ServerSetGenState(g, tr, r), G!Request(g, tr, r)
  PROVE  rate' = asked'
  BY DEF G!ServerSetGenState, G!Request

(* Every generator command keeps the rate table equal to the requests.    *)
LEMMA GenStep ==
  ASSUME rate = asked, G!Next
  PROVE  rate' = asked'
<1>1. ASSUME NEW g, NEW tr, NEW r, G!SetGenRate(g, tr, r), G!Request(g, tr, r)
      PROVE  rate' = asked'
  BY <1>1, SetAndRequest DEF G!SetGenRate
<1>2. ASSUME NEW g, NEW r, G!SetDataRateLine(g, r),
             G!Request(g, G!Unchanged, r)
      PROVE  rate' = asked'
  BY <1>2, SetAndRequest DEF G!SetDataRateLine, G!SetGenRate
<1>3. ASSUME NEW g, NEW tr, G!SetTemplateRateLine(g, tr),
             G!Request(g, tr, G!Unchanged)
      PROVE  rate' = asked'
  BY <1>3, SetAndRequest DEF G!SetTemplateRateLine, G!SetGenRate
<1>4. ASSUME rate' = rate, asked' = asked PROVE rate' = asked'
  BY <1>4
<1>5. QED
  BY <1>1, <1>2, <1>3, <1>4
     DEF G!Next, G!EnableGenerator, G!EnableDisableGenLine,
         G!EnableIpfix, G!EnableDisableLine

(* Every step of the composed client keeps the rate table equal to the    *)
(* requests: a load replaces both by the profile's rates.                  *)
LEMMA RatesStep ==
  ASSUME RatesFollowRequests, [Next]_vars
  PROVE  RatesFollowRequests'
<1>1. CASE ProfileCommand
  BY <1>1 DEF ProfileCommand, ProfileEffect, FreshGens, genVars,
              RatesFollowRequests, G!RatesFollowRequests
<1>2. CASE GenCommand
  BY <1>2, GenStep DEF GenCommand, RatesFollowRequests, G!RatesFollowRequests
<1>3. CASE UNCHANGED vars
  BY <1>3 DEF vars, genVars, RatesFollowRequests, G!RatesFollowRequests
<1>4. QED
  BY <1>1, <1>2, <1>3 DEF Next

(* For every set of generators and rates, whatever the profile commands   *)
(* and their failures, every stream of the current client runs at the     *)
(* rate its profile set or a later command asked for it.                  *)
THEOREM RatesSafety == Spec => []RatesFollowRequests
<1>1. Init => RatesFollowRequests
  BY DEF Init, G!Init, RatesFollowRequests, G!RatesFollowRequests
<1>2. RatesFollowRequests /\ [Next]_vars => RatesFollowRequests'
  BY RatesStep
<1>3. QED
  BY <1>1, <1>2, PTL DEF Spec

(* Every client-side check of ipfix_push and ipfix_load_profile_cfg runs    *)
(* before remove_profile, so a command that ends rejected installed nothing. *)
LEMMA RejectStep ==
  ASSUME P!Next, outcome' = "rejected"
  PROVE  installed' = installed
<1>1. ASSUME NEW q, P!RemoveThenLoad(q) PROVE outcome' # "rejected"
  BY <1>1 DEF P!RemoveThenLoad
<1>2. QED
  BY <1>1 DEF P!Next, P!IpfixPush, P!IpfixLoadProfileCfg, P!Reject

LEMMA RejectKeepsStep ==
  ASSUME [Next]_vars
  PROVE  [outcome' = "rejected" => installed' = installed]_P!vars
<1>1. CASE ProfileCommand
  BY <1>1, RejectStep DEF ProfileCommand
<1>2. CASE ~ProfileCommand
  BY <1>2 DEF Next, GenCommand, vars, P!vars
<1>3. QED
  BY <1>1, <1>2

(* For every value of the constants, a rejected profile command leaves the *)
(* server's profile as it was.                                              *)
THEOREM RejectKeeps == Spec => RejectKeepsProfile
  BY RejectKeepsStep, PTL DEF Spec, RejectKeepsProfile, P!RejectKeepsProfile
=============================================================================
