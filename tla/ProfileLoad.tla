---------------------------- MODULE ProfileLoad -----------------------------
(***************************************************************************)
(* The two IPFIX console commands that replace the client profile of the  *)
(* EMU server (src/trex/emu/emu_plugins/emu_plugin_ipfix.py):             *)
(*   ipfix_push (lines 504-568) builds a directory-export profile from a  *)
(*     destination URL and optional HTTP header-fields file;              *)
(*   ipfix_load_profile_cfg (lines 570-591) builds a profile from a JSON   *)
(*     configuration file.                                                 *)
(* Both build the new profile first, raising or returning on a bad input, *)
(* and then call remove_profile() and load_profile() on the EMU client.   *)
(* A console runs one command at a time, so each command is one action.   *)
(***************************************************************************)
EXTENDS Naturals

CONSTANTS
  HttpUrls,    \* destination URLs the factory turns into HTTP exporter params
  UdpUrls,     \* destination URLs that give UDP exporter params
  BadUrls,     \* URLs for which create_obj_from_dst_url returns None
  CfgFiles,    \* profile configuration files named on the command line
  ValidCfgs,   \* those from which IpfixProfileJsonConfig builds a profile
  RpcMayFail,  \* whether remove_profile / load_profile may raise
  NoProfile    \* the server runs no profile

Urls == HttpUrls \cup UdpUrls \cup BadUrls

(* --header_fields_json_file: not given, an existing file, a missing one.  *)
HeaderArgs == {"none", "present", "missing"}

(* The exporter type get_type() reports for the params built from a URL.   *)
ExpType(u) == IF u \in HttpUrls THEN "http" ELSE "udp"

(* The profile ipfix_push loads (lines 537-562): directory export is set  *)
(* for every type; the HTTP branch adds the retry parameters and the      *)
(* header fields, the UDP branch the packet wait time.  Both set the      *)
(* directory parameters.                                                   *)
PushProfile(u, h) ==
  [kind    |-> "push",
   url     |-> u,
   fromDir |-> TRUE,
   retry   |-> ExpType(u) = "http",
   header  |-> ExpType(u) = "http" /\ h = "present",
   udpWait |-> ExpType(u) = "udp"]

(* The profile IpfixProfileJsonConfig(f).get_profile() returns.            *)
CfgProfile(f) == [kind |-> "cfg", file |-> f]

Profiles ==
  {PushProfile(u, h) : u \in HttpUrls \cup UdpUrls, h \in {"none", "present"}}
  \cup {CfgProfile(f) : f \in ValidCfgs}

Outcomes == {"none", "rejected", "remove_failed", "load_failed", "loaded"}

VARIABLES
  installed,   \* the profile the EMU server runs, or NoProfile
  outcome      \* ghost: how the last command ended

vars == <<installed, outcome>>

-----------------------------------------------------------------------------
Init ==
  /\ installed \in Profiles \cup {NoProfile}
  /\ outcome = "none"

(* remove_profile(); load_profile(p) (lines 567-568 and 590-591).  If     *)
(* remove raises nothing has changed; if load raises the old profile is   *)
(* already gone.  ipfix_push calls profile.get_profile() between the two  *)
(* (line 568); that method is not in src/, and if it raised the outcome   *)
(* would be the same as a failed load.                                     *)
RemoveThenLoad(p) ==
  \/ /\ installed' = p
     /\ outcome' = "loaded"
  \/ /\ RpcMayFail
     /\ installed' = installed
     /\ outcome' = "remove_failed"
  \/ /\ RpcMayFail
     /\ installed' = NoProfile
     /\ outcome' = "load_failed"

(* A command that raises or returns before remove_profile.                 *)
Reject ==
  /\ outcome' = "rejected"
  /\ UNCHANGED installed

(* A mutant of IpfixPush: the header-fields file is opened after the old  *)
(* profile has been removed.                                               *)
PushRemoveFirst(u, h) ==
  IF u \in BadUrls THEN Reject
  ELSE IF h = "missing"
    THEN /\ installed' = NoProfile
         /\ outcome' = "rejected"
    ELSE RemoveThenLoad(PushProfile(u, h))

(* ipfix_push (lines 504-568): no exporter params for the URL (525-526)   *)
(* or a missing header-fields file (530-535) raise TRexError first.       *)
IpfixPush(u, h) ==
  IF u \in BadUrls \/ h = "missing"
    THEN Reject
    ELSE RemoveThenLoad(PushProfile(u, h))

(* ipfix_load_profile_from_cfg_file (lines 570-591): a ValueError while   *)
(* building the profile is printed and the command returns (583-585).     *)
IpfixLoadProfileCfg(f) ==
  IF f \in ValidCfgs
    THEN RemoveThenLoad(CfgProfile(f))
    ELSE Reject

Next ==
  \/ \E u \in Urls, h \in HeaderArgs : IpfixPush(u, h)
  \/ \E f \in CfgFiles : IpfixLoadProfileCfg(f)

Spec == Init /\ [][Next]_vars

-----------------------------------------------------------------------------
TypeOK ==
  /\ installed \in Profiles \cup {NoProfile}
  /\ outcome \in Outcomes

(* A command the client rejects (bad URL, missing header file, invalid    *)
(* configuration) leaves the server's profile as it was: every check of   *)
(* ipfix_push and ipfix_load_profile_cfg runs before remove_profile.       *)
RejectKeepsProfile ==
  [][outcome' = "rejected" => installed' = installed]_vars

(* The commands replace the profile atomically (spec.md section 7): every *)
(* step installs a profile a command can build, or changes nothing.        *)
Store == INSTANCE ProfileStore WITH installed <- installed

AtomicReplace == Store!StoreSpec
=============================================================================
