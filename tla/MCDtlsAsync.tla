----------------------------- MODULE MCDtlsAsync -----------------------------
(* DtlsAsync for TLC: which callbacks the two applications register,       *)
(* which functions they call and how many peers each side has in turn.     *)
EXTENDS DtlsAsync

Pair(c, s) == "client" :> c @@ "server" :> s

Psk == {"get_psk_info"}
Key == {"get_ecdsa_key", "verify_ecdsa_key"}

PskOnly == {Pair(Psk, Psk)}

(* The server sends a ServerKeyExchange, with an identity hint.            *)
PskHint == {Pair(Psk, Psk \cup {"psk_hint"})}

(* PSK with an identity hint; ECDSA with a server certificate, with both   *)
(* certificates, with a client that is asked for one and has none; no      *)
(* cipher suite in common; two offered and one of them chosen.             *)
Variants ==
  {Pair(Psk, Psk \cup {"psk_hint"}),
   Pair({"verify_ecdsa_key"}, {"get_ecdsa_key"}),
   Pair(Key, Key),
   Pair({"verify_ecdsa_key"}, Key),
   Pair(Psk, {"get_ecdsa_key"}),
   Pair(Psk \cup Key, Psk)}

UsesOf(callbacks, calls, peers) ==
  [callbacks : callbacks, calls : {calls}, peers : {peers}]

Lifecycle == Pair({"connect", "write", "close", "check_retransmit"},
                  {"write", "close", "check_retransmit"})
Restart == Pair({"connect", "close"}, {})
Renegotiation == Pair({"connect", "renegotiate", "check_retransmit"},
                      {"renegotiate", "check_retransmit"})
Ending == Pair({"connect", "renegotiate", "close"}, {"renegotiate"})

VariantUses == UsesOf(Variants, Lifecycle, 1)
RenegotiationUses == UsesOf(PskOnly, Renegotiation, 1)
SessionUses ==
  UsesOf(PskOnly, Restart, 2) \cup RenegotiationUses \cup UsesOf(PskHint, Ending, 1)
AllUses == VariantUses \cup SessionUses
=============================================================================
