----------------------------- MODULE ByteRelay -----------------------------
(***************************************************************************)
(* Sessions that relay bytes both ways: the TCP proxy                      *)
(* (crates/runtime/src/tcp_proxy.rs), which first looks for a TLS          *)
(* ClientHello and replays what it read, and the tunnel after an accepted  *)
(* upgrade (crates/runtime/src/http1_proxy/upgrade_relay.rs), which first  *)
(* writes what was read beyond the heads.  The two differ in what idle     *)
(* means: the TCP proxy shares one clock of activity, the tunnel waits in  *)
(* each direction by itself.                                               *)
(*                                                                         *)
(* A byte is a number.  Peers send their bytes at any pace and then close  *)
(* or fall silent; a peer in "stuck" stops reading, so that a write to it  *)
(* never returns.                                                          *)
(***************************************************************************)
EXTENDS Integers, Sequences, FiniteSets

CONSTANTS
    RelayIdleTimeout,   \* timeouts.idle_timeout
    PrefaceTimeout,     \* timeouts.preface_timeout
    MaxPreface          \* MAX_CLIENT_HELLO_PREFACE_BYTES

ASSUME RelayAssumption == RelayIdleTimeout \in Nat

VARIABLES
    session,    \* [mode, offer, pc, preface, age]
    way,        \* the state of each direction, named after its sender
    idle        \* how long no byte was relayed in either direction

relayVars == <<session, way, idle>>

Ways == {"client", "server"}

Receiver(w) == CHOOSE v \in Ways : v /= w

(* offer: mode, inspect, hello (the kind of the client's first bytes and   *)
(* how many make a ClientHello), and for each sender the bytes, how many   *)
(* of them the tunnel finds in its buffers, and whether it closes;         *)
(* stuck: the peers that do not read.                                      *)
SessionInit(offer) ==
    /\ session = [offer |-> offer, preface |-> <<>>, age |-> 0,
                  pc |-> IF offer.mode = "upgrade" THEN "replay"
                         ELSE IF offer.inspect THEN "preface" ELSE "connect"]
    /\ way = [w \in Ways |->
                [left |-> offer.bytes[w], pending |-> <<>>, delivered |-> <<>>, pc |-> "reading",
                 wait |-> RelayIdleTimeout]]
    /\ idle = 0

(* The sessions there can be: only a tunnel finds bytes in its buffers.    *)
SessionOffers ==
    {o \in [mode : {"tcp", "upgrade"}, inspect : BOOLEAN,
            hello : [kind : {"none", "plain", "tls", "malformed"}, length : Nat],
            bytes : [Ways -> Seq(Nat)], buffered : [Ways -> Nat], closes : [Ways -> BOOLEAN],
            stuck : SUBSET Ways] :
        \A w \in Ways : o.buffered[w] <= Len(o.bytes[w]) /\ (o.mode = "tcp" => o.buffered[w] = 0)}

SessionOutcomes ==
    {"completed", "idle_timeout", "relay_io", "preface_timeout", "tls_inspect", "connect_failed"}

Chunk(bytes, n) == SubSeq(bytes, 1, n)

Past(bytes, n) == SubSeq(bytes, n + 1, Len(bytes))

End(outcome) == session' = [session EXCEPT !.pc = outcome]

----------------------------------------------------------------------------
(* The TCP proxy before it relays                                          *)

(* inspect_client_hello (crates/proto-tls, external here): what the bytes  *)
(* read so far are.                                                        *)
Classified(count) ==
    IF session.offer.hello.kind = "tls" /\ count < session.offer.hello.length THEN "incomplete"
    ELSE session.offer.hello.kind

(* One read of inspect_downstream_preface; only the record of a TLS        *)
(* handshake is waited for.                                                *)
ReadPreface(n) ==
    LET preface == session.preface \o Chunk(way["client"].left, n)
    IN  /\ session.pc = "preface"
        /\ n \in 0..Len(way["client"].left)
        /\ n = 0 => way["client"].left = <<>> /\ session.offer.closes["client"]
        /\ session' = IF Classified(Len(preface)) = "malformed" THEN [session EXCEPT !.pc = "tls_inspect"]
                      ELSE IF Classified(Len(preface)) = "incomplete" /\ n > 0 /\ Len(preface) < MaxPreface
                      THEN [session EXCEPT !.preface = preface]
                      ELSE [session EXCEPT !.preface = preface, !.pc = "connect"]
        /\ way' = [way EXCEPT !["client"].left = Past(@, n)]
        /\ UNCHANGED idle

(* At the deadline the bytes that came are forwarded as they are.          *)
PrefaceDeadline ==
    /\ session.pc = "preface" /\ session.age >= PrefaceTimeout
    /\ End(IF session.preface = <<>> THEN "preface_timeout" ELSE "connect")
    /\ UNCHANGED <<way, idle>>

ConnectUpstream(reached) ==
    /\ session.pc = "connect"
    /\ End(IF ~reached THEN "connect_failed" ELSE "replay")
    /\ UNCHANGED <<way, idle>>

(* What was read before the relay starts and is owed to the other side.    *)
Owed(w) ==
    (IF w = "client" THEN session.preface ELSE <<>>) \o Chunk(way[w].left, session.offer.buffered[w])

ReplayStuck == \E w \in Ways : Receiver(w) \in session.offer.stuck /\ Owed(w) /= <<>>

(* Writes it; activity counts from then on.                                *)
Replay ==
    /\ session.pc = "replay"
    /\ ~ReplayStuck
    /\ End("relay")
    /\ way' = [w \in Ways |->
                [way[w] EXCEPT !.delivered = Owed(w), !.left = Past(@, session.offer.buffered[w])]]
    /\ idle' = 0

----------------------------------------------------------------------------
(* One direction                                                           *)
Relaying(w, pc) == session.pc = "relay" /\ way[w].pc = pc

(* How long the next read may take.                                        *)
NextWait(elapsed) ==
    IF session.offer.mode = "upgrade" THEN RelayIdleTimeout
    ELSE IF elapsed < RelayIdleTimeout THEN RelayIdleTimeout - elapsed ELSE 0

RelayRead(w, n) ==
    /\ Relaying(w, "reading")
    /\ n \in 1..Len(way[w].left)
    /\ way' = [way EXCEPT ![w].left = Past(@, n), ![w].pending = Chunk(way[w].left, n), ![w].pc = "writing"]
    /\ UNCHANGED <<session, idle>>

(* write_all returned; activity.touch.                                     *)
RelayWritten(w) ==
    /\ Relaying(w, "writing")
    /\ Receiver(w) \notin session.offer.stuck
    /\ way' = [way EXCEPT ![w].delivered = @ \o way[w].pending, ![w].pending = <<>>, ![w].pc = "reading",
                          ![w].wait = NextWait(0)]
    /\ idle' = 0
    /\ UNCHANGED session

(* The end of one direction is passed on; the session ends with the other. *)
RelayEnd(w) ==
    /\ Relaying(w, "reading")
    /\ way[w].left = <<>> /\ session.offer.closes[w]
    /\ way' = [way EXCEPT ![w].pc = "done"]
    /\ IF way[Receiver(w)].pc = "done" THEN End("completed") ELSE UNCHANGED session
    /\ UNCHANGED idle

MutantOwnWait(w) ==
    /\ Relaying(w, "reading") /\ way[w].wait = 0
    /\ End("idle_timeout") /\ UNCHANGED way
    /\ UNCHANGED idle

MutantWaitAgain(w) ==
    /\ Relaying(w, "reading") /\ way[w].wait = 0
    /\ way' = [way EXCEPT ![w].wait = RelayIdleTimeout]
    /\ UNCHANGED <<session, idle>>

(* The wait is over: the TCP proxy waits on if the other direction moved   *)
(* bytes in the meantime.                                                  *)
RelayWaited(w) ==
    /\ Relaying(w, "reading") /\ way[w].wait = 0
    /\ IF session.offer.mode = "upgrade" \/ idle >= RelayIdleTimeout
       THEN End("idle_timeout") /\ UNCHANGED way
       ELSE way' = [way EXCEPT ![w].wait = NextWait(idle)] /\ UNCHANGED session
    /\ UNCHANGED idle

RelayIoError ==
    /\ session.pc \in {"replay", "relay"}
    /\ End("relay_io")
    /\ UNCHANGED <<way, idle>>

(* Time passes; ages count no further than they matter.                    *)
RelayTick ==
    /\ session.pc \in {"preface", "relay"}
    /\ session' = [session EXCEPT !.age = IF @ < PrefaceTimeout THEN @ + 1 ELSE @]
    /\ way' = [w \in Ways |-> [way[w] EXCEPT !.wait = IF @ > 0 /\ session.pc = "relay" THEN @ - 1 ELSE @]]
    /\ idle' = IF idle < RelayIdleTimeout THEN idle + 1 ELSE idle

(* What the proxy and time do by themselves.                               *)
RelayProgress ==
    \/ PrefaceDeadline \/ ConnectUpstream(TRUE) \/ Replay \/ RelayTick
    \/ \E w \in Ways : RelayWritten(w) \/ RelayEnd(w) \/ RelayWaited(w)

(* The specification of one session, whoever the peers are and however     *)
(* many bytes a read returns.                                              *)
RelayNext ==
    \/ RelayProgress
    \/ \E n \in 0..Len(way["client"].left) : ReadPreface(n)
    \/ ConnectUpstream(FALSE)
    \/ \E w \in Ways : \E n \in 1..Len(way[w].left) : RelayRead(w, n)
    \/ RelayIoError

RelaySpec == (\E offer \in SessionOffers : SessionInit(offer)) /\ [][RelayNext]_relayVars

----------------------------------------------------------------------------
(* Properties                                                              *)

(* A session is inspecting, connecting, relaying or over.                  *)
RelayTypeOK ==
    /\ session.pc \in SessionOutcomes \cup {"preface", "connect", "replay", "relay"}
    /\ idle \in 0..RelayIdleTimeout
    /\ \A w \in Ways : way[w].pc \in {"reading", "writing", "done"} /\ way[w].wait \in 0..RelayIdleTimeout

(* Each side receives the other's bytes in order and without a gap, from   *)
(* the first byte on: the preface that was inspected and the bytes read    *)
(* beyond the heads are replayed first.                                    *)
BytesInOrder ==
    session.pc \in {"relay", "completed", "idle_timeout"} =>
        \A w \in Ways : way[w].delivered \o way[w].pending \o way[w].left = session.offer.bytes[w]

(* A session completes only when both directions ended and everything sent *)
(* was delivered: one side closing its half does not cut the other's       *)
(* (try_join of the two directions).                                       *)
CompletedWhole ==
    session.pc = "completed" =>
        \A w \in Ways : way[w].delivered = session.offer.bytes[w] /\ session.offer.closes[w]

(* The TCP proxy gives up as idle only after no byte was relayed either    *)
(* way for the whole timeout, whichever direction notices first            *)
(* (ConnectionActivity).                                                   *)
IdleMeansBothQuiet ==
    session.pc = "idle_timeout" /\ session.offer.mode = "tcp" => idle >= RelayIdleTimeout

(* The session is over, or every direction that is not is writing to a     *)
(* peer that does not read: a write has no timeout.                        *)
SessionOver ==
    \/ session.pc \in SessionOutcomes
    \/ session.pc = "replay" /\ ReplayStuck
    \/ /\ session.pc = "relay"
       /\ \A w \in Ways : way[w].pc = "writing" => Receiver(w) \in session.offer.stuck
       /\ \A w \in Ways : way[w].pc /= "reading"

(* A session relays all bytes in order and is not ended for silence while  *)
(* one of its directions is alive.                                         *)
RelaySound == RelayTypeOK /\ BytesInOrder /\ CompletedWhole /\ IdleMeansBothQuiet
=============================================================================
