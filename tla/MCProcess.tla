----------------------------- MODULE MCProcess ------------------------------
(* Instances of Process for TLC. *)
EXTENDS Process

(* Production without TLS; with and without the broker and authentication, *)
(* the workers, the API and the gateway; a gateway without its gRPC server *)
(* and a process without technical routes.                                 *)
Configurations ==
    {o \in Config :
        /\ o.auth = o.broker
        /\ o.addrs \in {{}, {"debug"}, {"http", "gateway", "debug"}, Addrs}
        /\ o.addrs = {} => ~o.disabled
        /\ o.unsafe => o.broker /\ ~o.disabled /\ o.addrs = Addrs}
=============================================================================
