----------------------------- MODULE MCDtlsFifo -----------------------------
(* DtlsFifo for TLC. *)
EXTENDS DtlsFifo

Register(c, s) == "client" :> c @@ "server" :> s
Psk == {"get_psk_info"}
Key == {"get_ecdsa_key", "verify_ecdsa_key"}

(* A PSK handshake, one with a server certificate, one with both.          *)
Variants == {Register(Psk, Psk \cup {"psk_hint"}),
             Register({"verify_ecdsa_key"}, {"get_ecdsa_key"}),
             Register(Key, Key)}
PskOnly == {Register(Psk, Psk)}

(* What the first two exchanges are made of, and the server's last flight. *)
Early == {<<"client", "client_hello">>}
         \cup {"server"} \X {"hello_verify_request", "server_hello",
                             "certificate", "server_key_exchange",
                             "certificate_request", "server_hello_done"}
Final == {"server"} \X {"ccs", "finished"}
=============================================================================
