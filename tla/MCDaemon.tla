----------------------------- MODULE MCDaemon -----------------------------
(***************************************************************************)
(* Two interfaces, each with one of two address sets, a hairpin setting   *)
(* and one of six ConfigNetIf records: static, static with               *)
(* default_externals, a matcher, default_externals with only nat66 in a  *)
(* build without the ipv6 feature, an unsupported encapsulation, and an  *)
(* External that fails validation.  Two of them set ConstConfig options.  *)
(***************************************************************************)
EXTENDS Daemon

CONSTANTS e1, e2, x, y

\* The HashMap order is arbitrary; e1 and e2 are interchangeable here.
MCIfOrder == <<e1, e2>>

IfRec(encap, nat44, nat66, dflt, exts) ==
    [encap |-> encap, nat44 |-> nat44, nat66 |-> nat66,
     defaultExternals |-> dflt, externals |-> exts,
     bpfLogLevel |-> None, opts |-> [f \in IC!OptionFields |-> None]]

MCIfConfigs ==
    { \* bpf_log_level above the cap, and timeout_pkt_default set
      [IfRec("ethernet", TRUE, FALSE, FALSE, <<"static">>)
          EXCEPT !.bpfLogLevel = 7, !.opts["timeout_pkt_default"] = 30],
      IfRec("bareIp", TRUE, FALSE, TRUE, <<"static">>),
      \* timeout_pkt_min and allow_inbound_icmpx set
      [IfRec("unknown", TRUE, FALSE, FALSE, <<"matcher">>)
          EXCEPT !.opts["timeout_pkt_min"] = 2, !.opts["allow_inbound_icmpx"] = TRUE],
      IfRec("ethernet", FALSE, TRUE, TRUE, <<>>),
      IfRec("unsupported", TRUE, FALSE, FALSE, <<"static">>),
      IfRec("ethernet", TRUE, FALSE, FALSE, <<"static", "invalid">>) }

=============================================================================
