----------------------------- MODULE BaseSocket -----------------------------
(***************************************************************************)
(* The non-blocking socket layer of src/base/network/BaseSocket.cc: the    *)
(* per-connection state machine (class BaseSocket), the process-wide       *)
(* handle table g_socket_map with addBaseSocket / removeBaseSocket /       *)
(* findBaseSocket, and the three readiness handlers onRead / onWrite /     *)
(* onClose.  The kernel side of every descriptor (listen backlog, connect  *)
(* outcome, SO_ERROR, readable bytes, EOF) is modelled so that the         *)
(* handlers' syscalls return what a Linux kernel returns.                  *)
(*                                                                         *)
(* The event dispatcher and the NETLIB facade that drive BaseSocket are    *)
(* declared in the repository but have no implementation (the calls to    *)
(* EventDispatch are commented out and netlib.cc defines only              *)
(* getInstance); they are modelled from spec.md (section 4.4 and 5): one   *)
(* dispatch thread, objects created with new by the facade, events looked  *)
(* up through findBaseSocket and dropped when the handle is not found.     *)
(***************************************************************************)
EXTENDS Integers, FiniteSets, FiniteSetsExt, Functions

CONSTANTS
    Objs,        \* heap slots a BaseSocket object can occupy
    Fds,         \* descriptor numbers the process can hold (RLIMIT_NOFILE)
    Ctxs,        \* callback contexts (std::any) the application passes
    NoData,      \* an empty std::any
    None,        \* "no object": findBaseSocket returning nullptr
    Addrs,       \* kinds of address string passed to connect
    MaxBacklog,  \* bound on connections queued on a listening socket
    MaxAvail,    \* bound on unread byte chunks queued on a connection
    RecvMax      \* chunks one recv() takes: RECEIVE_BUF_SIZE - 1 bytes

ASSUME /\ Fds \subseteq Nat \ {0}
       /\ Cardinality(Objs) >= Cardinality(Fds)
       /\ Addrs \subseteq {"numeric", "name"}
       /\ MaxBacklog \in Nat /\ MaxAvail \in Nat /\ RecvMax \in Nat \ {0}

INVALID_SOCKET == -1

States == {"IDLE", "LISTENING", "CONNECTING", "CONNECTED", "CLOSING"}
Msgs   == {"CONNECT", "CONFIRM", "READ", "WRITE", "CLOSE"}

(* Kernel view of one descriptor.  role: "plain" a fresh socket(),         *)
(* "bound" bound but ::listen failed, "listening", "outbound" from         *)
(* connect, "inbound" from accept.  link: TCP state of a connection.       *)
KernRec == [open: BOOLEAN,
            role: {"none", "plain", "bound", "listening", "outbound", "inbound"},
            backlog: 0..MaxBacklog,
            link: {"none", "pending", "up", "down"},
            soErr: BOOLEAN,
            avail: 0..MaxAvail,
            eof: BOOLEAN]

ClosedFd  == [open |-> FALSE, role |-> "none", backlog |-> 0, link |-> "none",
              soErr |-> FALSE, avail |-> 0, eof |-> FALSE]
FreshSock == [ClosedFd EXCEPT !.open = TRUE, !.role = "plain"]

VARIABLES
    heap,     \* heap slot of each object: "free", "live" or "freed"
    state,    \* BaseSocket::m_state
    sock,     \* BaseSocket::m_socket
    cbData,   \* BaseSocket::m_callback_data
    reg,      \* g_socket_map: descriptor -> object (None when absent)
    kern,     \* the kernel's socket behind each descriptor
    origin,   \* ghost: the context the application gave this connection
    seen,     \* ghost: message kinds delivered to the callback per object
    ctxSeen,  \* ghost: callback_data values delivered per object
    crashed   \* "no", or the fault that ended the process

vars == <<heap, state, sock, cbData, reg, kern, origin, seen, ctxSeen, crashed>>

-----------------------------------------------------------------------------
(* Descriptors and the handle table.                                       *)

FreeFds == {h \in Fds : ~kern[h].open}

(* socket() and accept() return the lowest free descriptor (POSIX).        *)
NewFd == IF FreeFds = {} THEN INVALID_SOCKET ELSE Min(FreeFds)

(* The n lowest free descriptors: what n accept() calls in a row get.      *)
LowestFree(n) == {h \in FreeFds : Cardinality({g \in FreeFds : g < h}) < n}

(* addBaseSocket: hash_map::insert, which keeps an existing entry.          *)
addBaseSocket(r, h, o) == IF r[h] = None THEN [r EXCEPT ![h] = o] ELSE r

(* Mutant: removeBaseSocket that erases nothing. *)
removeBaseSocketNoop(r, h) == r

(* removeBaseSocket: erase by the object's m_socket.                       *)
removeBaseSocket(r, h) == IF h \in Fds THEN [r EXCEPT ![h] = None] ELSE r

(* findBaseSocket.                                                          *)
findBaseSocket(h) == IF h \in Fds THEN reg[h] ELSE None

Registered == {h \in Fds : reg[h] # None}

(* The application callback m_callback(data, msg, handle, {}): recorded    *)
(* against the object that owns the handle.                                *)
Deliver(o, m, d) ==
    /\ seen' = [seen EXCEPT ![o] = @ \cup {m}]
    /\ ctxSeen' = [ctxSeen EXCEPT ![o] = @ \cup {d}]

-----------------------------------------------------------------------------
(* BaseSocket::listen on a fresh object o created by the facade.  On a     *)
(* failure return the facade deletes o (spec 4.3 error policy), so only    *)
(* the descriptor table can keep a trace of the call.  bind() is given an  *)
(* uninitialised sockaddr_in, so its outcome is a free choice.  A failing  *)
(* ::listen is logged and ignored.                                          *)
Listen(o, ctx) ==
    LET fd == NewFd IN
    \/ /\ fd = INVALID_SOCKET
       /\ UNCHANGED vars
    \/ /\ fd # INVALID_SOCKET
       /\ \/ /\ kern' = [kern EXCEPT ![fd] = FreshSock]   \* bind failed
             /\ UNCHANGED <<heap, state, sock, cbData, reg, origin, seen, ctxSeen>>
          \/ /\ \E listenOk \in BOOLEAN :
                  kern' = [kern EXCEPT ![fd] = [FreshSock EXCEPT
                              !.role = IF listenOk THEN "listening" ELSE "bound"]]
             /\ heap' = [heap EXCEPT ![o] = "live"]
             /\ state' = [state EXCEPT ![o] = "LISTENING"]
             /\ sock' = [sock EXCEPT ![o] = fd]
             /\ cbData' = [cbData EXCEPT ![o] = ctx]
             /\ origin' = [origin EXCEPT ![o] = ctx]
             /\ reg' = addBaseSocket(reg, fd, o)
             /\ UNCHANGED <<seen, ctxSeen>>
       /\ UNCHANGED crashed

(* BaseSocket::_setAddr: inet_addr fails on anything but a dotted quad,   *)
(* and the gethostbyname fallback then tests `host = nullptr`, an          *)
(* assignment, and dereferences the null host: it faults for every name.   *)
SetAddrFaults(addr) == addr = "name"

(* BaseSocket::connect.  A connect error outside the in-progress class     *)
(* (_isBlock) closes the socket; the facade deletes o.                     *)
Connect(o, ctx, addr) ==
    LET fd == NewFd IN
    \/ /\ fd = INVALID_SOCKET
       /\ UNCHANGED vars
    \/ /\ fd # INVALID_SOCKET
       /\ SetAddrFaults(addr)
       /\ kern' = [kern EXCEPT ![fd] = FreshSock]
       /\ crashed' = "null_deref"
       /\ UNCHANGED <<heap, state, sock, cbData, reg, origin, seen, ctxSeen>>
    \/ /\ fd # INVALID_SOCKET
       /\ ~SetAddrFaults(addr)
       /\ \E result \in {"refused", "inprogress", "done"} :
            IF result = "refused"
            THEN UNCHANGED vars                    \* socket() then closesocket()
            ELSE /\ kern' = [kern EXCEPT ![fd] = [FreshSock EXCEPT
                              !.role = "outbound",
                              !.link = IF result = "done" THEN "up" ELSE "pending"]]
                 /\ heap' = [heap EXCEPT ![o] = "live"]
                 /\ state' = [state EXCEPT ![o] = "CONNECTING"]
                 /\ sock' = [sock EXCEPT ![o] = fd]
                 /\ cbData' = [cbData EXCEPT ![o] = ctx]
                 /\ origin' = [origin EXCEPT ![o] = ctx]
                 /\ reg' = addBaseSocket(reg, fd, o)
                 /\ UNCHANGED <<seen, ctxSeen, crashed>>

(* BaseSocket::recv: one ::recv of at most RECEIVE_BUF_SIZE-1 bytes; an   *)
(* error or EOF yields an empty string.  No state check.                   *)
Recv(o) ==
    LET h == sock[o] IN
    /\ kern' = IF kern[h].role \in {"outbound", "inbound"} /\ kern[h].avail > 0
               THEN [kern EXCEPT ![h].avail = @ - Min({@, RecvMax})]
               ELSE kern
    /\ UNCHANGED <<heap, state, sock, cbData, reg, origin, seen, ctxSeen, crashed>>

(* BaseSocket::close: removeBaseSocket(BaseSocket::ptr(this)) wraps this   *)
(* in a second, independent shared_ptr.  The erase drops the table's      *)
(* owner and deletes the object registered under m_socket; the temporary   *)
(* then deletes this.  When both are the same object that is a double      *)
(* delete through a freed vtable: the process faults before closesocket.   *)
(* Otherwise closesocket reads m_socket from freed memory, where the      *)
(* allocator may have written: it closes m_socket or an invalid handle.    *)
Close(o) ==
    LET h     == sock[o]
        owner == findBaseSocket(h)
    IN
    /\ reg' = removeBaseSocket(reg, h)
    /\ heap' = [p \in Objs |-> IF p \in {owner, o} THEN "freed" ELSE heap[p]]
    /\ IF owner = o
       THEN /\ crashed' = "double_delete"
            /\ UNCHANGED kern
       ELSE /\ \/ kern' = [kern EXCEPT ![h] = ClosedFd]
               \/ UNCHANGED kern
            /\ UNCHANGED crashed
    /\ UNCHANGED <<state, sock, cbData, origin, seen, ctxSeen>>

-----------------------------------------------------------------------------
(* BaseSocket::_acceptNetSocket: accept() until it fails.  Each accepted   *)
(* descriptor gets a make_shared object in state CONNECTED with the        *)
(* listener's m_callback but not its m_callback_data, is inserted in the   *)
(* table, and a CONNECT is delivered with the listener's callback data.    *)
(* accept() fails with EAGAIN on an empty queue, EMFILE when no descriptor *)
(* is free and EINVAL on a socket whose ::listen failed.                    *)
(* How many times the while condition holds: accept() succeeds while a    *)
(* connection is queued and a descriptor is free.                          *)
AcceptCount(l) ==
    IF kern[sock[l]].role = "listening"
    THEN Min({kern[sock[l]].backlog, Cardinality(FreeFds)})
    ELSE 0

(* Mutant: pSocket->setSocket(fd) forgotten; the object keeps the        *)
(* constructor's INVALID_SOCKET and addBaseSocket files it under that,    *)
(* outside the descriptors the table is indexed by.                        *)
AcceptLoopNoSetSocket(l) ==
    LET lfd == sock[l]
        n   == AcceptCount(l)
        new == LowestFree(n)
    IN
    \E obj \in Injection(new, {o \in Objs : heap[o] = "free"}) :
      LET isNew(o) == o \in Range(obj)
          fdOf(o)  == CHOOSE h \in new : obj[h] = o
      IN
      /\ heap' = [o \in Objs |-> IF isNew(o) THEN "live" ELSE heap[o]]
      /\ state' = [o \in Objs |-> IF isNew(o) THEN "CONNECTED" ELSE state[o]]
      /\ sock' = sock
      /\ cbData' = [o \in Objs |-> IF isNew(o) THEN NoData ELSE cbData[o]]
      /\ origin' = [o \in Objs |-> IF isNew(o) THEN cbData[l] ELSE origin[o]]
      /\ UNCHANGED reg
      /\ kern' = [h \in Fds |->
                    IF h \in new
                    THEN [FreshSock EXCEPT !.role = "inbound", !.link = "up"]
                    ELSE IF h = lfd THEN [kern[h] EXCEPT !.backlog = @ - n]
                    ELSE kern[h]]
      /\ seen' = [o \in Objs |-> IF isNew(o) THEN seen[o] \cup {"CONNECT"} ELSE seen[o]]
      /\ ctxSeen' = [o \in Objs |-> IF isNew(o) THEN ctxSeen[o] \cup {cbData[l]}
                                                ELSE ctxSeen[o]]

AcceptLoop(l) ==
    LET lfd == sock[l]
        n   == AcceptCount(l)
        new == LowestFree(n)
    IN
    \E obj \in Injection(new, {o \in Objs : heap[o] = "free"}) :
      LET isNew(o) == o \in Range(obj)
          fdOf(o)  == CHOOSE h \in new : obj[h] = o
      IN
      /\ heap' = [o \in Objs |-> IF isNew(o) THEN "live" ELSE heap[o]]
      /\ state' = [o \in Objs |-> IF isNew(o) THEN "CONNECTED" ELSE state[o]]
      /\ sock' = [o \in Objs |-> IF isNew(o) THEN fdOf(o) ELSE sock[o]]
      /\ cbData' = [o \in Objs |-> IF isNew(o) THEN NoData ELSE cbData[o]]
      /\ origin' = [o \in Objs |-> IF isNew(o) THEN cbData[l] ELSE origin[o]]
      /\ reg' = [h \in Fds |-> IF h \in new /\ reg[h] = None THEN obj[h] ELSE reg[h]]
      /\ kern' = [h \in Fds |->
                    IF h \in new
                    THEN [FreshSock EXCEPT !.role = "inbound", !.link = "up"]
                    ELSE IF h = lfd THEN [kern[h] EXCEPT !.backlog = @ - n]
                    ELSE kern[h]]
      /\ seen' = [o \in Objs |-> IF isNew(o) THEN seen[o] \cup {"CONNECT"} ELSE seen[o]]
      /\ ctxSeen' = [o \in Objs |-> IF isNew(o) THEN ctxSeen[o] \cup {cbData[l]}
                                                ELSE ctxSeen[o]]

(* BaseSocket::onRead.  ioctl(FIONREAD) reports the queued bytes; zero    *)
(* (EOF, reset, or nothing yet) is reported as CLOSE.                      *)
OnRead(o) ==
    IF state[o] = "LISTENING"
    THEN /\ AcceptLoop(o)
         /\ UNCHANGED crashed
    ELSE /\ Deliver(o, IF kern[sock[o]].avail = 0 THEN "CLOSE" ELSE "READ", cbData[o])
         /\ UNCHANGED <<heap, state, sock, cbData, reg, kern, origin, crashed>>

(* Mutant: onWrite that takes every state but CONNECTED for CONNECTING. *)
OnWriteAnyState(o) ==
    LET h == sock[o] IN
    IF state[o] # "CONNECTED"
    THEN /\ kern' = [kern EXCEPT ![h].soErr = FALSE]
         /\ IF kern[h].soErr
            THEN /\ Deliver(o, "CLOSE", cbData[o])
                 /\ UNCHANGED state
            ELSE /\ state' = [state EXCEPT ![o] = "CONNECTED"]
                 /\ Deliver(o, "CONFIRM", cbData[o])
         /\ UNCHANGED <<heap, sock, cbData, reg, origin, crashed>>
    ELSE /\ Deliver(o, "WRITE", cbData[o])
         /\ UNCHANGED <<heap, state, sock, cbData, reg, kern, origin, crashed>>

(* BaseSocket::onWrite.  getsockopt(SO_ERROR) returns the pending error    *)
(* and clears it.  On an error the state is left CONNECTING.               *)
OnWrite(o) ==
    LET h == sock[o] IN
    IF state[o] = "CONNECTING"
    THEN /\ kern' = [kern EXCEPT ![h].soErr = FALSE]
         /\ IF kern[h].soErr
            THEN /\ Deliver(o, "CLOSE", cbData[o])
                 /\ UNCHANGED state
            ELSE /\ state' = [state EXCEPT ![o] = "CONNECTED"]
                 /\ Deliver(o, "CONFIRM", cbData[o])
         /\ UNCHANGED <<heap, sock, cbData, reg, origin, crashed>>
    ELSE /\ Deliver(o, "WRITE", cbData[o])
         /\ UNCHANGED <<heap, state, sock, cbData, reg, kern, origin, crashed>>

(* BaseSocket::onClose.                                                     *)
OnClose(o) ==
    /\ state' = [state EXCEPT ![o] = "CLOSING"]
    /\ Deliver(o, "CLOSE", cbData[o])
    /\ UNCHANGED <<heap, sock, cbData, reg, kern, origin, crashed>>

-----------------------------------------------------------------------------
(* Level-triggered readiness of a descriptor, as tcp_poll reports it.  A  *)
(* refused connection is readable, writable and hung up; a socket whose    *)
(* ::listen failed is writable and hung up.                                *)
Readable(h) ==
    \/ kern[h].role = "listening" /\ kern[h].backlog > 0
    \/ /\ kern[h].role \in {"outbound", "inbound"}
       /\ kern[h].avail > 0 \/ kern[h].eof \/ kern[h].link = "down"

Writable(h) ==
    \/ kern[h].role \in {"outbound", "inbound"} /\ kern[h].link \in {"up", "down"}
    \/ kern[h].role = "bound"

HungUp(h) == kern[h].role = "bound" \/ kern[h].link = "down"

(* The dispatch thread (spec 4.4, 5): findBaseSocket(h), then the handler  *)
(* for the readiness reported; an event for a handle not in the table is   *)
(* dropped.                                                                 *)
DispatchRead(h)  == Readable(h) /\ findBaseSocket(h) # None /\ OnRead(reg[h])
DispatchWrite(h) == Writable(h) /\ findBaseSocket(h) # None /\ OnWrite(reg[h])
DispatchClose(h) == HungUp(h)   /\ findBaseSocket(h) # None /\ OnClose(reg[h])

(* The application through the facade: listen/connect on a new object,     *)
(* recv/close on a handle found in the table.                               *)
FreeObjs == {o \in Objs : heap[o] = "free"}

AppListen  == \E o \in FreeObjs, c \in Ctxs : Listen(o, c)
AppConnect == \E o \in FreeObjs, c \in Ctxs, a \in Addrs : Connect(o, c, a)
AppRecv    == \E h \in Registered : Recv(reg[h])
AppClose   == \E h \in Registered : Close(reg[h])

(* The network: peers connecting, connects completing, data and FIN.       *)
EnvOnly == UNCHANGED <<heap, state, sock, cbData, reg, origin, seen, ctxSeen, crashed>>

PeerConnect(h) ==
    /\ kern[h].role = "listening" /\ kern[h].backlog < MaxBacklog
    /\ kern' = [kern EXCEPT ![h].backlog = @ + 1]
    /\ EnvOnly

ConnectResolves(h) ==
    /\ kern[h].link = "pending"
    /\ \/ kern' = [kern EXCEPT ![h].link = "up"]
       \/ kern' = [kern EXCEPT ![h].link = "down", ![h].soErr = TRUE]
    /\ EnvOnly

PeerSend(h) ==
    /\ kern[h].link = "up" /\ ~kern[h].eof /\ kern[h].avail < MaxAvail
    /\ kern' = [kern EXCEPT ![h].avail = @ + 1]
    /\ EnvOnly

PeerShutdown(h) ==
    /\ kern[h].link = "up" /\ ~kern[h].eof
    /\ kern' = [kern EXCEPT ![h].eof = TRUE]
    /\ EnvOnly

(* After a fault the process is gone: nothing happens any more.            *)
Halted == crashed # "no" /\ UNCHANGED vars

-----------------------------------------------------------------------------
Init ==
    /\ heap = [o \in Objs |-> "free"]
    /\ state = [o \in Objs |-> "IDLE"]
    /\ sock = [o \in Objs |-> INVALID_SOCKET]
    /\ cbData = [o \in Objs |-> NoData]
    /\ reg = [h \in Fds |-> None]
    /\ kern = [h \in Fds |-> ClosedFd]
    /\ origin = [o \in Objs |-> NoData]
    /\ seen = [o \in Objs |-> {}]
    /\ ctxSeen = [o \in Objs |-> {}]
    /\ crashed = "no"

Next ==
    \/ /\ crashed = "no"
       /\ \/ AppListen \/ AppConnect \/ AppRecv \/ AppClose
          \/ \E h \in Fds : \/ DispatchRead(h) \/ DispatchWrite(h) \/ DispatchClose(h)
                           \/ PeerConnect(h) \/ ConnectResolves(h)
                           \/ PeerSend(h) \/ PeerShutdown(h)
    \/ Halted

Spec == Init /\ [][Next]_vars

-----------------------------------------------------------------------------
TypeOK ==
    /\ heap \in [Objs -> {"free", "live", "freed"}]
    /\ state \in [Objs -> States]
    /\ sock \in [Objs -> Fds \cup {INVALID_SOCKET}]
    /\ \A o \in Objs : heap[o] = "live" => sock[o] \in Fds
    /\ cbData \in [Objs -> Ctxs \cup {NoData}]
    /\ reg \in [Fds -> Objs \cup {None}]
    /\ kern \in [Fds -> KernRec]
    /\ origin \in [Objs -> Ctxs \cup {NoData}]
    /\ seen \in [Objs -> SUBSET Msgs]
    /\ ctxSeen \in [Objs -> SUBSET (Ctxs \cup {NoData})]
    /\ crashed \in {"no", "double_delete", "null_deref"}

-----------------------------------------------------------------------------
(* The handle table and the objects agree: every entry names a live object *)
(* whose m_socket is that descriptor and whose descriptor is open, and    *)
(* every live object is reachable through the table.  Descriptor numbers   *)
(* are reused by socket() and accept() after a failed connect closed one,  *)
(* and hash_map::insert silently keeps an older entry, so a stale key      *)
(* would hide a new connection from the dispatcher.                        *)
RegistryConsistent ==
    /\ \A h \in Registered :
         /\ heap[reg[h]] = "live"
         /\ sock[reg[h]] = h
         /\ kern[h].open
    /\ \A o \in Objs : heap[o] = "live" => findBaseSocket(sock[o]) = o

(* Every descriptor the process holds open is owned by a connection in the *)
(* table, so it is closed when that connection is (spec 4.3: setup         *)
(* failures leave no resource behind).  listen returns NETLIB_FAIL after a *)
(* failed bind without closing m_socket.                                   *)
NoLeakedDescriptor ==
    crashed = "no" => \A h \in Fds : kern[h].open => reg[h] # None

(* Closing a registered connection releases it without faulting (spec     *)
(* 4.3(d), 8.4).  BaseSocket::close builds a second shared_ptr from this.  *)
CloseNeverFaults == crashed # "double_delete"

(* connect accepts a host name and falls back to name resolution (spec 9)  *)
(* without faulting; _setAddr tests `host = nullptr`.                      *)
NameLookupNeverFaults == crashed # "null_deref"

(* CONFIRM is delivered only for a connection the kernel established      *)
(* (spec 8.6: a failed connect yields CLOSE and no CONFIRM).  onWrite     *)
(* reads SO_ERROR, which clears it, and leaves m_state CONNECTING after an *)
(* error, so the next writable event on the refused socket reads 0.        *)
ConfirmOnlyWhenEstablished ==
    [][\A o \in Objs :
         ("CONFIRM" \notin seen[o] /\ "CONFIRM" \in seen'[o])
            => kern[sock[o]].link = "up"]_vars

(* An outgoing connection reports READ only after CONFIRM (spec 4.3: Read *)
(* is delivered in state Connected).  onRead does not look at m_state for  *)
(* anything but LISTENING, and the peer's first bytes can be readable in   *)
(* the same poll that reports the connection writable.                     *)
ReadOnlyAfterConfirm ==
    \A o \in Objs :
       ("READ" \in seen[o] /\ kern[sock[o]].role = "outbound") => "CONFIRM" \in seen[o]

(* Every callback for a connection carries the context the application    *)
(* gave at listen/connect; accepted connections inherit the listener's     *)
(* (spec 3).  _acceptNetSocket copies m_callback but not m_callback_data.  *)
CallbackKeepsContext == \A o \in Objs : ctxSeen[o] \subseteq {origin[o]}

-----------------------------------------------------------------------------
(* Refinement of the connection lifecycle of spec 3: a heap slot not yet   *)
(* used is a connection not yet created, a freed one is a released one.    *)
Phase(o) == CASE heap[o] = "free"  -> "None"
              [] heap[o] = "freed" -> "Gone"
              [] OTHER             -> state[o]

Lifecycle == INSTANCE ConnectionLifecycle
                 WITH Conns <- Objs,
                      cstate <- [o \in Objs |-> Phase(o)],
                      registered <- {reg[h] : h \in Registered}

(* BaseSocket implements the lifecycle: Idle only before the first        *)
(* operation, Listening and Connecting exclusive, a listener never         *)
(* Connected, Closing terminal, table membership exactly the live          *)
(* connections not yet released.                                            *)
LifecycleRefined == Lifecycle!Spec

=============================================================================
