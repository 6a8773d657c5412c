---------------------------- MODULE IpfixClient -----------------------------
(***************************************************************************)
(* The profile commands of ProfileLoad composed with the generator        *)
(* commands of IpfixGen.  Loading a profile makes the server create the   *)
(* client and its generators afresh (spec.md section 3: generators are    *)
(* created at profile load and destroyed with their client).  While no    *)
(* profile is installed there is no client: the server answers a          *)
(* generator command with an error and nothing changes, which is a        *)
(* stuttering step here.                                                   *)
(***************************************************************************)
EXTENDS Naturals

CONSTANTS Gens, Rates,
          HttpUrls, UdpUrls, BadUrls, CfgFiles, ValidCfgs, RpcMayFail,
          NoProfile

VARIABLES rate, genOn, ipfixOn, asked, installed, outcome

G == INSTANCE IpfixGen
P == INSTANCE ProfileLoad

genVars == <<rate, genOn, ipfixOn, asked>>
vars == <<genVars, installed, outcome>>

(* The generator table the server builds for a loaded profile: the        *)
(* profile's rates and flags, and nothing asked of it yet.                *)
FreshGens ==
  /\ rate' \in [Gens -> [G!Kinds -> Rates]]
  /\ genOn' \in [Gens -> BOOLEAN]
  /\ ipfixOn' \in BOOLEAN
  /\ asked' = rate'

(* What a profile command does to the generators: a completed load        *)
(* replaces them; any other outcome leaves the table as it was (after a  *)
(* failed load it belongs to no client and is unreachable).               *)
ProfileEffect ==
  IF outcome' = "loaded" THEN FreshGens ELSE UNCHANGED genVars

Init ==
  /\ P!Init
  /\ G!Init

(* ipfix_push or ipfix_load_profile_cfg, with its effect on the server.   *)
ProfileCommand ==
  /\ P!Next
  /\ ProfileEffect

(* A generator command reaches a generator only while a client exists.   *)
GenCommand ==
  /\ installed # NoProfile
  /\ G!Next
  /\ UNCHANGED <<installed, outcome>>

Next == ProfileCommand \/ GenCommand

Spec == Init /\ [][Next]_vars

-----------------------------------------------------------------------------
TypeOK == G!TypeOK /\ P!TypeOK

(* Across profile loads, failed loads and generator commands, every      *)
(* stream of the current client runs at the rate its profile set or the  *)
(* rate a later command asked for it; the 0.0 placeholders of the console *)
(* rate commands never reach a stream.                                    *)
RatesFollowRequests == G!RatesFollowRequests

(* ProfileLoad's checks-before-remove, in the composed system: a command *)
(* that fails a client-side check leaves the server's profile as it was. *)
RejectKeepsProfile == P!RejectKeepsProfile
=============================================================================
