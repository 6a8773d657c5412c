------------------------------ MODULE IpfixGen ------------------------------
(***************************************************************************)
(* The IPFIX generator commands of one EMU client                          *)
(* (src/trex/emu/emu_plugins/emu_plugin_ipfix.py): set_gen_rate and its    *)
(* two console wrappers ipfix_set_data_rate / ipfix_set_template_rate,     *)
(* enable_generator and ipfix_enable_gen / ipfix_disable_gen, enable_ipfix *)
(* and ipfix_enable / ipfix_disable.  Each client method checks its        *)
(* argument types and sends exactly one RPC; what the RPC does to the      *)
(* generator table happens in the server, which is not in src/ and is     *)
(* modelled from spec.md (section 4.1: a rate of 0 leaves that rate as it  *)
(* is; enable toggles one generator).                                      *)
(*                                                                         *)
(* enable_ipfix's docstring (line 236) says it "enable/disable[s] all      *)
(* generators and the exporter"; the RPC it sends, ipfix_c_set_state,      *)
(* carries only the client key and the flag.  The model follows spec.md:  *)
(* a client-wide flag beside the per-generator ones, which it leaves as   *)
(* they are.                                                               *)
(***************************************************************************)
CONSTANTS
  Gens,       \* generator names of the client (model values)
  Rates       \* the non-zero rates a command may carry, in pps

(* The two record streams of a generator, each with its own rate.          *)
Kinds == {"tmpl", "data"}

(* The float 0.0 a rate argument uses for "keep the current rate".        *)
Unchanged == 0

VARIABLES
  rate,       \* rate[g][k]: the server's configured rate of stream k of g
  genOn,      \* genOn[g]: the generator's enabled flag
  ipfixOn,    \* the client's IPFIX state (ipfix_c_set_state)
  asked       \* ghost: asked[g][k], the rate last requested for stream k

vars == <<rate, genOn, ipfixOn, asked>>

-----------------------------------------------------------------------------
(* Generators, their rates and their flags come from the loaded profile;  *)
(* nothing has been asked of them but what the profile says.              *)
Init ==
  /\ rate \in [Gens -> [Kinds -> Rates]]
  /\ genOn \in [Gens -> BOOLEAN]
  /\ ipfixOn \in BOOLEAN
  /\ asked = rate

(* The server's handling of ipfix_c_set_gen_state with template_rate tr   *)
(* and rate r (spec.md 4.1): a 0 leaves that stream's rate as it is.      *)
ServerSetGenState(g, tr, r) ==
  rate' = [rate EXCEPT ![g] =
             [tmpl |-> IF tr = Unchanged THEN @.tmpl ELSE tr,
              data |-> IF r = Unchanged THEN @.data ELSE r]]

(* set_gen_rate (lines 178-205): verify the argument types, then one      *)
(* ipfix_c_set_gen_state carrying both rates as given.                    *)
SetGenRate(g, tr, r) ==
  /\ ServerSetGenState(g, tr, r)
  /\ UNCHANGED <<genOn, ipfixOn>>

(* A mutant of SetDataRateLine: the new rate is passed for both streams.   *)
SetDataRateBoth(g, r) == SetGenRate(g, r, r)

(* ipfix_set_data_rate (lines 378-394): template_rate=0.0, rate=target.    *)
SetDataRateLine(g, r) == SetGenRate(g, Unchanged, r)

(* ipfix_set_template_rate (lines 396-412): template_rate=target, rate=0.0.*)
SetTemplateRateLine(g, tr) == SetGenRate(g, tr, Unchanged)

(* enable_generator (lines 207-230): ipfix_c_set_gen_state with enable.    *)
EnableGenerator(g, on) ==
  /\ genOn' = [genOn EXCEPT ![g] = on]
  /\ UNCHANGED <<rate, ipfixOn>>

(* ipfix_enable_gen / ipfix_disable_gen (lines 325-350).                   *)
EnableDisableGenLine(g, how) == EnableGenerator(g, how = "enable")

(* enable_ipfix (lines 232-252): ipfix_c_set_state for the whole client.   *)
EnableIpfix(on) ==
  /\ ipfixOn' = on
  /\ UNCHANGED <<rate, genOn>>

(* ipfix_enable / ipfix_disable (lines 352-376).                           *)
EnableDisableLine(how) == EnableIpfix(how = "enable")

(* Ghost: what the caller asks of the streams of g.  A console rate       *)
(* command asks for its own stream only; through set_gen_rate a caller    *)
(* asks for every stream it gives a non-zero rate.                        *)
Request(g, tr, r) ==
  asked' = [asked EXCEPT ![g] =
              [tmpl |-> IF tr = Unchanged THEN @.tmpl ELSE tr,
               data |-> IF r = Unchanged THEN @.data ELSE r]]

Next ==
  \/ \E g \in Gens, tr, r \in Rates \cup {Unchanged} :
       SetGenRate(g, tr, r) /\ Request(g, tr, r)
  \/ \E g \in Gens, r \in Rates :
       SetDataRateLine(g, r) /\ Request(g, Unchanged, r)
  \/ \E g \in Gens, tr \in Rates :
       SetTemplateRateLine(g, tr) /\ Request(g, tr, Unchanged)
  \/ \E g \in Gens, on \in BOOLEAN : EnableGenerator(g, on) /\ UNCHANGED asked
  \/ \E g \in Gens, how \in {"enable", "disable"} :
       EnableDisableGenLine(g, how) /\ UNCHANGED asked
  \/ \E on \in BOOLEAN : EnableIpfix(on) /\ UNCHANGED asked
  \/ \E how \in {"enable", "disable"} : EnableDisableLine(how) /\ UNCHANGED asked

Spec == Init /\ [][Next]_vars

-----------------------------------------------------------------------------
TypeOK ==
  /\ rate \in [Gens -> [Kinds -> Rates]]
  /\ genOn \in [Gens -> BOOLEAN]
  /\ ipfixOn \in BOOLEAN
  /\ asked \in [Gens -> [Kinds -> Rates]]

(* The 0.0 placeholders of the console rate commands (lines 394 and 412)  *)
(* never reach a stream: after any sequence of rate and enable commands   *)
(* every stream of every generator runs at the rate last requested for    *)
(* it, so setting one stream's rate neither stops nor changes the other.  *)
RatesFollowRequests == rate = asked
=============================================================================
