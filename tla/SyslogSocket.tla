---------------------------- MODULE SyslogSocket ----------------------------
(***************************************************************************)
(* The sockets of SyslogTransport: opened by the first record that finds   *)
(* none, forgotten when they fail, ended by close(). The events of one may *)
(* come when another has taken its place. The network is external.         *)
(***************************************************************************)
EXTENDS Integers, Sequences

CONSTANTS
    Protocols,          \* "udp", "tcp"
    MAX_PENDING_TCP_BYTES,
    MessageSizes,       \* sizes of a framed message
    MaxSockets          \* bound: sockets opened

ASSUME SyslogAssumption ==
    /\ Protocols \subseteq {"udp", "tcp"}
    /\ MessageSizes \subseteq Nat /\ {MAX_PENDING_TCP_BYTES, MaxSockets} \subseteq Nat

NoSocket == 0

VARIABLES
    protocol,
    current,            \* this.udp or this.tcp
    sockets             \* every socket opened: what became of it, and what it has not sent
syslogVars == <<protocol, current, sockets>>

SyslogInit == protocol \in Protocols /\ current = NoSocket /\ sockets = <<>>

-----------------------------------------------------------------------------
\* The socket a record is written to.
Target == IF current = NoSocket THEN Len(sockets) + 1 ELSE current

WithTarget ==
    IF current # NoSocket THEN sockets
    ELSE Append(sockets, [state |-> "live", pending |-> 0])

\* A record more than the bound is dropped, on a new socket too. A datagram is
\* handed over at once.
WriteMessage(size) ==
    /\ current = NoSocket => Len(sockets) < MaxSockets
    /\ current' = Target
    /\ sockets' = IF protocol = "udp" \/ WithTarget[Target].pending + size > MAX_PENDING_TCP_BYTES
                  THEN WithTarget
                  ELSE [WithTarget EXCEPT ![Target].pending = @ + size]
    /\ UNCHANGED protocol

\* The kernel takes what was pending.
Sent(k) ==
    /\ k \in DOMAIN sockets /\ sockets[k].pending > 0 /\ sockets[k].state \in {"live", "ended"}
    /\ sockets' = [sockets EXCEPT ![k].pending = 0]
    /\ UNCHANGED <<protocol, current>>

\* Faulty: the transport forgets the socket it has, whichever failed.
ForgetAny(k) == current' = NoSocket

\* forget(), which every socket has as its listener.
Forget(k) == current' = IF current = k THEN NoSocket ELSE current

\* "error": a connection refused or reset. A TCP socket closes after that.
SocketFails(k) ==
    /\ k \in DOMAIN sockets /\ sockets[k].state \in {"live", "ended"}
    /\ sockets' = [sockets EXCEPT ![k] = [state |-> "failed", pending |-> 0]]
    /\ Forget(k)
    /\ UNCHANGED protocol

\* "close", which only a TCP socket has a listener for.
SocketCloses(k) ==
    /\ k \in DOMAIN sockets /\ sockets[k].state # "closed" /\ protocol = "tcp"
    /\ sockets' = [sockets EXCEPT ![k] = [state |-> "closed", pending |-> 0]]
    /\ Forget(k)
    /\ UNCHANGED protocol

\* close() ends the socket, which may still be sending; a later record opens another.
CloseSyslog ==
    /\ current # NoSocket
    /\ sockets' = [sockets EXCEPT ![current].state = "ended"]
    /\ current' = NoSocket
    /\ UNCHANGED protocol

SyslogNext ==
    \/ \E size \in MessageSizes : WriteMessage(size)
    \/ \E k \in 1..MaxSockets : Sent(k) \/ SocketFails(k) \/ SocketCloses(k)
    \/ CloseSyslog

-----------------------------------------------------------------------------
SyslogTypeOK ==
    /\ protocol \in Protocols /\ current \in 0..Len(sockets)
    /\ \A k \in DOMAIN sockets :
          sockets[k].state \in {"live", "ended", "failed", "closed"} /\ sockets[k].pending \in Nat

\* The socket records are written to is the only one that is neither ended nor
\* failed: one that failed is not written to again, whenever its events come. (A
\* UDP socket that failed is forgotten without being closed.) What waits in a
\* socket is bounded.
SocketsKept ==
    /\ {k \in DOMAIN sockets : sockets[k].state = "live"} = {current} \ {NoSocket}
    /\ \A k \in DOMAIN sockets : sockets[k].pending <= MAX_PENDING_TCP_BYTES
=============================================================================
