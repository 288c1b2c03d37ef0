---------------------------- MODULE WtConnection ----------------------------
(***************************************************************************)
(* A connection of sf-node over WebTransport: the address a node listens   *)
(* on and another dials, the calls of open_stream, accept_stream and close *)
(* that share the session behind a tokio Mutex, and one stream, written    *)
(* through poll_write at one end and read through poll_read, which keeps   *)
(* what did not fit into the caller's buffer, at the other. The session and*)
(* its streams are the QUIC library's: reliable, in order.                 *)
(***************************************************************************)
EXTENDS Naturals, SequencesExt

CONSTANTS
    Addresses,   \* multiaddrs somebody may listen on or dial (bound)
    Interfaces,  \* the addresses of the listener's interfaces
    Unspecified, \* 0.0.0.0 and ::
    Ephemeral,   \* the port the system chooses for port 0
    Calls,
    MaxStreams,  \* streams the remote side opens, or allows, together (bound)
    MaxBytes,    \* bytes written (bound)
    MaxChunk     \* bytes one receive asks for (8192)

ASSUME BoundsAssumption ==
    MaxStreams \in Nat /\ MaxBytes \in Nat /\ MaxChunk \in Nat \ {0}
ASSUME AddressAssumption ==
    /\ \A ma \in Addresses : Len(ma) \in Nat
    /\ \A ip \in Unspecified : ip.kind \in {"ip4", "ip6"}
    /\ Interfaces \cap Unspecified = {}

VARIABLES
    bind,      \* the socket the listening node is bound to
    reported,  \* the addresses it has reported to listen on
    dial,      \* what became of the dialling
    session,   \* the Session behind the Mutex
    call,      \* the futures of open_stream, accept_stream and close
    lock,      \* those that hold (the first) or wait for the Mutex
    incoming,  \* streams of the remote side that nobody has accepted
    credit,    \* streams it still allows
    stream,    \* whether there is a stream to write and read
    offered,   \* how many bytes poll_write has accounted for
    written,   \* the bytes the QUIC stream took, by their number
    finished,  \* the writing end called finish
    received,  \* how many bytes the reading end took from the QUIC stream
    read_buf,  \* Stream.read_buf, empty for None
    panicked,  \* poll_read panicked
    got, eof,  \* history: what the reader got, and whether it was told the end
    left, sizes \* history: bytes short writes left out; lengths of the reader's buffers

address == <<bind, reported, dial>>
mutex   == <<call, lock, incoming, credit>>
writing == <<offered, written, finished, left>>
reading == <<received, read_buf, panicked, got, eof, sizes>>
vars    == <<address, session, mutex, stream, writing, reading>>

NoSocket == [ip |-> [kind |-> "none"], port |-> 0]
Sizes    == 0..MaxBytes

(* Stream::new.                                                            *)
StreamInit ==
    /\ offered = 0 /\ written = <<>> /\ finished = FALSE /\ left = {}
    /\ received = 0 /\ read_buf = <<>> /\ panicked = FALSE
    /\ got = <<>> /\ eof = FALSE /\ sizes = {}

Init ==
    /\ bind = NoSocket /\ reported = {} /\ dial = "none"
    /\ session = "none"
    /\ call = [c \in Calls |-> "unused"] /\ lock = <<>>
    /\ incoming = 0 /\ credit = 0 /\ stream = FALSE
    /\ StreamInit

-----------------------------------------------------------------------------
(* Multiaddrs: sequences of protocols with a kind and, for some, a value.  *)
Ip   == {"ip4", "ip6"}
Port == {"udp", "tcp"}

(* extract_protocol_from_multiaddr: the one transport a node may have.     *)
ForWebTransport(ma) == \E i \in DOMAIN ma : ma[i].kind = "webtransport"

(* extract_ip_port takes the last of each kind, wherever it stands.        *)
LastOf(ma, kinds) == SelectLastInSeq(ma, LAMBDA p : p.kind \in kinds)

CanListen(ma) == LastOf(ma, Ip) # 0 /\ LastOf(ma, Port) # 0

ExtractIpPort(ma) == [ip |-> ma[LastOf(ma, Ip)], port |-> ma[LastOf(ma, Port)].value]

(* ip_to_listenaddr and socketaddr_to_multiaddr.                           *)
IsSame(a, b) == a.kind = b.kind
IpToListenAddr(ip) ==
    <<ip, [kind |-> "udp", value |-> bind.port], [kind |-> "quic"], [kind |-> "webtransport"]>>

(* multiaddr_to_socketaddr: ip, udp, anything, webtransport, and then at   *)
(* most identifiers of peers.                                              *)
MultiaddrToSocket(ma) ==
    IF /\ Len(ma) >= 4 /\ ma[4].kind = "webtransport"
       /\ \A i \in 5..Len(ma) : ma[i].kind = "p2p"
       /\ ma[1].kind \in Ip /\ ma[2].kind = "udp"
    THEN [ip |-> ma[1], port |-> ma[2].value]
    ELSE NoSocket

(* listen_on of the transport. An address without ip or port is an error.  *)
(* For port 0 the system chooses one. The address is reported as it is,    *)
(* before those of the interfaces.                                         *)
ListenOn(ma) ==
    /\ CanListen(ma)
    /\ LET socket == ExtractIpPort(ma) IN
       bind' = IF socket.port = 0 THEN [socket EXCEPT !.port = Ephemeral] ELSE socket
    /\ reported' = {ma}
    /\ UNCHANGED <<dial, session, mutex, stream, writing, reading>>

(* Node::listen: no transport but WebTransport is there.                   *)
Listen(ma) == bind = NoSocket /\ ForWebTransport(ma) /\ ListenOn(ma)

(* Mutant: interfaces of the other family are reported as well.            *)
InterfaceUpAny(ip) ==
    /\ bind.ip \in Unspecified
    /\ reported' = reported \cup {IpToListenAddr(ip)}
    /\ UNCHANGED <<bind, dial, session, mutex, stream, writing, reading>>

(* poll_if_addr: an interface is there, or there no longer.                *)
InterfaceUp(ip) ==
    /\ bind.ip \in Unspecified /\ IsSame(bind.ip, ip)
    /\ reported' = reported \cup {IpToListenAddr(ip)}
    /\ UNCHANGED <<bind, dial, session, mutex, stream, writing, reading>>

InterfaceDown(ip) ==
    /\ bind.ip \in Unspecified /\ IpToListenAddr(ip) \in reported
    /\ reported' = reported \ {IpToListenAddr(ip)}
    /\ UNCHANGED <<bind, dial, session, mutex, stream, writing, reading>>

(* Whether a socket address leads to the listener. One without a specified *)
(* ip leads nowhere: the QUIC library refuses to connect to it.            *)
Reaches(socket) ==
    /\ socket.ip \notin Unspecified /\ socket.port = bind.port
    /\ socket.ip = bind.ip \/ (bind.ip \in Unspecified /\ IsSame(bind.ip, socket.ip))

(* WebTransport::dial, which unwraps. When the fingerprint cannot be       *)
(* fetched, the address cannot be dialled or nobody accepts there is an    *)
(* error, and no connection.                                               *)
DialOn(ma) ==
    /\ LET socket == MultiaddrToSocket(ma) IN
       IF socket = NoSocket THEN dial' = "panicked" /\ UNCHANGED session
       ELSE Reaches(socket) /\ dial' = "connected" /\ session' = "open"
    /\ UNCHANGED <<bind, reported, mutex, stream, writing, reading>>

(* Node::dial.                                                             *)
Dial(ma) == dial = "none" /\ ForWebTransport(ma) /\ DialOn(ma)

-----------------------------------------------------------------------------
(* The calls. A future waits for the Mutex, first in first out, and then,  *)
(* with the Mutex, for the session.                                        *)
Ops == {"open", "accept", "close"}
Waits(c) == call[c] \in Ops

Start(c, op) ==
    /\ session # "none" /\ call[c] = "unused"
    /\ call' = [call EXCEPT ![c] = op]
    /\ lock' = Append(lock, c)
    /\ UNCHANGED <<address, session, incoming, credit, stream, writing, reading>>

Holds(c, op) == lock # <<>> /\ Head(lock) = c /\ call[c] = op

Return(c) == call' = [call EXCEPT ![c] = "done"] /\ lock' = Tail(lock)

OpenStream(c) ==
    /\ Holds(c, "open")
    /\ \/ session = "closed" /\ UNCHANGED <<credit, stream>>
       \/ session = "open" /\ credit > 0 /\ credit' = credit - 1 /\ stream' = TRUE
    /\ Return(c)
    /\ UNCHANGED <<address, session, incoming, writing, reading>>

AcceptStream(c) ==
    /\ Holds(c, "accept")
    /\ \/ session = "closed" /\ UNCHANGED <<incoming, stream>>
       \/ session = "open" /\ incoming > 0 /\ incoming' = incoming - 1 /\ stream' = TRUE
    /\ Return(c)
    /\ UNCHANGED <<address, session, credit, writing, reading>>

CloseConnection(c) ==
    /\ Holds(c, "close")
    /\ session' = "closed"
    /\ Return(c)
    /\ UNCHANGED <<address, incoming, credit, stream, writing, reading>>

(* Mutant: a future that is dropped keeps its place at the Mutex.          *)
DropFutureKeepsPlace(c) ==
    /\ Waits(c)
    /\ call' = [call EXCEPT ![c] = "done"]
    /\ UNCHANGED <<address, session, lock, incoming, credit, stream, writing, reading>>

(* The caller drops a future it no longer wants to wait for.               *)
DropFuture(c) ==
    /\ Waits(c)
    /\ call' = [call EXCEPT ![c] = "done"]
    /\ lock' = SelectSeq(lock, LAMBDA d : d # c)
    /\ UNCHANGED <<address, session, incoming, credit, stream, writing, reading>>

(* The remote side opens a stream, allows one, or closes the session; the  *)
(* listener of a node of this repository does the last at once, for it     *)
(* drops the connections it reports.                                       *)
RemoteOpens ==
    /\ session = "open" /\ incoming + credit < MaxStreams /\ incoming' = incoming + 1
    /\ UNCHANGED <<address, session, call, lock, credit, stream, writing, reading>>

RemoteAllows ==
    /\ session = "open" /\ incoming + credit < MaxStreams /\ credit' = credit + 1
    /\ UNCHANGED <<address, session, call, lock, incoming, stream, writing, reading>>

RemoteCloses ==
    /\ session = "open" /\ session' = "closed"
    /\ UNCHANGED <<address, mutex, stream, writing, reading>>

-----------------------------------------------------------------------------
(* poll_write says it has written all of the buffer, of which the QUIC     *)
(* stream may have taken less: the rest of the buffer is nowhere. Bytes are *)
(* numbered as the caller has them.                                        *)
PollWrite(len, n) ==
    /\ stream /\ session = "open" /\ ~finished /\ offered + len <= MaxBytes
    /\ offered' = offered + len
    /\ written' = written \o [i \in 1..n |-> offered + i]
    /\ left' = left \cup (offered + n + 1)..(offered + len)
    /\ UNCHANGED <<address, session, mutex, stream, finished, reading>>

(* close_send, and close, which is close_send here.                        *)
CloseSend ==
    /\ stream /\ session = "open" /\ ~finished
    /\ finished' = TRUE
    /\ UNCHANGED <<address, session, mutex, stream, offered, written, left, reading>>

(* poll_close of AsyncWrite.                                               *)
PollClose == CloseSend

CanRead == stream /\ ~panicked

(* Mutant: what does not fit is not kept.                                  *)
FillOnly(bytes, len) == got' = got \o SubSeq(bytes, 1, len) /\ read_buf' = <<>>

(* What fits into the buffer goes there, the rest is kept.                 *)
Fill(bytes, len) ==
    /\ got' = got \o SubSeq(bytes, 1, len)
    /\ read_buf' = SubSeq(bytes, len + 1, Len(bytes))

(* poll_read with a leftover, which must fill the buffer or the slice      *)
(* panics.                                                                 *)
PollReadLeftover(len) ==
    /\ CanRead /\ read_buf # <<>>
    /\ IF len > Len(read_buf) THEN panicked' = TRUE /\ UNCHANGED <<got, read_buf>>
       ELSE Fill(read_buf, len) /\ UNCHANGED panicked
    /\ sizes' = sizes \cup {len}
    /\ UNCHANGED <<address, session, mutex, stream, writing, received, eof>>

(* Mutant: the receive has no limit.                                       *)
ReceivesAny == 1..(Len(written) - received)

(* recv_stream.read(8192).                                                 *)
Receives == 1..(IF Len(written) - received < MaxChunk THEN Len(written) - received ELSE MaxChunk)

PollRead(len) ==
    /\ CanRead /\ read_buf = <<>> /\ session = "open"
    /\ \E n \in Receives :
        LET bytes == SubSeq(written, received + 1, received + n) IN
        /\ received' = received + n
        /\ Fill(bytes, IF len < n THEN len ELSE n)
    /\ sizes' = sizes \cup {len}
    /\ UNCHANGED <<address, session, mutex, stream, writing, panicked, eof>>

(* Mutant: nothing there yet is taken for the end.                         *)
PollReadEofEarly(len) ==
    /\ CanRead /\ read_buf = <<>> /\ session = "open"
    /\ received = Len(written)
    /\ eof' = (eof \/ len > 0) /\ sizes' = sizes \cup {len}
    /\ UNCHANGED <<address, session, mutex, stream, writing, received, read_buf, panicked, got>>

(* The end: Ok(0). To a buffer without room it says nothing.               *)
PollReadEof(len) ==
    /\ CanRead /\ read_buf = <<>> /\ session = "open"
    /\ finished /\ received = Len(written)
    /\ eof' = (eof \/ len > 0) /\ sizes' = sizes \cup {len}
    /\ UNCHANGED <<address, session, mutex, stream, writing, received, read_buf, panicked, got>>

-----------------------------------------------------------------------------
(* The stream of sf-node hands poll_write and poll_read on.                *)
WriteSide == \E len \in 1..MaxBytes : \E n \in 1..len : PollWrite(len, n)
ReadSide  == \E len \in Sizes : PollReadLeftover(len) \/ PollRead(len) \/ PollReadEof(len)

Held == \E c \in Calls : OpenStream(c) \/ AcceptStream(c) \/ CloseConnection(c)

Next ==
    \/ \E ma \in Addresses : Listen(ma)
    \/ \E ip \in Interfaces : InterfaceUp(ip) \/ InterfaceDown(ip)
    \/ \E ma \in Addresses \cup reported : Dial(ma)
    \/ \E c \in Calls : (\E op \in Ops : Start(c, op)) \/ DropFuture(c)
    \/ Held
    \/ RemoteOpens \/ RemoteAllows \/ RemoteCloses
    \/ WriteSide \/ CloseSend \/ PollClose \/ ReadSide

(* The runtime polls a future that has the Mutex when the session answers. *)
Spec == Init /\ [][Next]_vars /\ WF_vars(Held)

-----------------------------------------------------------------------------
TypeOK ==
    /\ dial \in {"none", "panicked", "connected"} /\ session \in {"none", "open", "closed"}
    /\ call \in [Calls -> Ops \cup {"unused", "done"}] /\ lock \in Seq(Calls)
    /\ incoming \in Nat /\ credit \in Nat /\ stream \in BOOLEAN
    /\ offered \in 0..MaxBytes /\ written \in Seq(Nat)
    /\ finished \in BOOLEAN /\ left \subseteq 1..offered
    /\ received \in 0..Len(written) /\ read_buf \in Seq(Nat) /\ panicked \in BOOLEAN
    /\ got \in Seq(Nat) /\ eof \in BOOLEAN /\ sizes \subseteq Sizes

(* An address as the node makes them up, with a port.                      *)
Plain(ma) ==
    /\ Len(ma) >= 4
    /\ ma[1].kind \in Ip
    /\ ma[2].kind = "udp" /\ ma[2].value # 0
    /\ ma[3].kind = "quic"
    /\ ma[4].kind = "webtransport"
    /\ \A i \in 5..Len(ma) : ma[i].kind = "p2p"

(* The two readings of an address, that of listen and that of dial, agree: *)
(* dialling an address a node reports leads to its socket, if the node made*)
(* it up for an interface, or if it has that form and a specified ip. An   *)
(* address it was given is reported as it is, which is of no use to others *)
(* when it is the wildcard or has port 0; one of another form makes dial   *)
(* panic or leads to another socket.                                       *)
DialReachesListener ==
    \A ma \in reported :
        ma \notin Addresses \/ (Plain(ma) /\ ma[1] \notin Unspecified)
            => MultiaddrToSocket(ma) # NoSocket /\ Reaches(MultiaddrToSocket(ma))

(* However the reader cuts up what it reads, it gets each byte the writer's *)
(* QUIC stream took, once and in order (poll_read and its leftover).       *)
ReadInOrder == got \o read_buf = SubSeq(written, 1, received)

(* A reader that is told the end has, in order and once, every byte the    *)
(* writer was told is written, but for those at the end of a buffer that   *)
(* short writes left out: poll_write does not say so, and nobody writes    *)
(* them again. Nothing else is missing, whatever the reader's buffers are. *)
EndMeansAll ==
    eof => /\ Range(got) = (1..offered) \ left
           /\ \A i \in 1..Len(got), j \in 1..Len(got) : i < j => got[i] < got[j]

(* A reader that always offers one byte, or as much as one receive asks    *)
(* for, never makes poll_read panic; with any other length it may.         *)
SafeBuffers == (sizes \subseteq 0..1 \/ \A len \in sizes : len >= MaxChunk) => ~panicked

(* The Mutex is held by a call that waits for the remote side.             *)
Blocked ==
    /\ lock # <<>> /\ session = "open"
    /\ \/ call[Head(lock)] = "accept" /\ incoming = 0
       \/ call[Head(lock)] = "open" /\ credit = 0

(* A call returns in the end, even if others are dropped in between, unless*)
(* the remote side lets one wait for ever: then open_stream and even close *)
(* wait behind an accept_stream.                                           *)
CallsGetThrough ==
    \A c \in Calls : []<>~Waits(c) \/ <>[]Blocked

=============================================================================
