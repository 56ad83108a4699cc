-------------------------------- MODULE Dmsg --------------------------------
(***************************************************************************)
(* One DMSG link: the kernel's end (kdmsg.c, driven by hammer2_iocom.c)    *)
(* and the end of the service daemon (libdmsg's msg.c and msg_lnk.c).      *)
(* Transactions are opened by CREATE and closed by DELETE in each          *)
(* direction, they stack, and when the link or a circuit fails each end    *)
(* simulates the reception of the DELETEs it will never see.               *)
(***************************************************************************)
EXTENDS FiniteSetsExt, SequencesExt, Integers

CONSTANTS
    kconn, sconn,  \* the LNK_CONN transactions of the kernel and the service
    KSpans,        \* LNK_SPANs of the kernel: one per PFS of the mount
    SSpans,        \* LNK_SPANs the service relays from its other links
    SSubs,         \* transactions a client of the service stacks on a span
    ping,          \* the LNK_PING of an unmount, which is no transaction
    SubParent,     \* the span each of SSubs is stacked on
    Foreign        \* the relayed spans whose peer type the kernel cannot use

Tops == {kconn, sconn} \cup KSpans \cup SSpans
Trans == Tops \cup SSubs
KernelMade == {kconn} \cup KSpans

ASSUME DmsgAssumption ==
    /\ SubParent \in [SSubs -> KSpans]
    /\ Foreign \subseteq SSpans

VARIABLES
    k,     \* kdmsg_iocom_t
    s,     \* dmsg_iocom_t
    k2s, s2k, up,  \* the socket
    rd, wr,        \* the kernel's reader and writer threads
    kill,          \* KDMSG_CLUSTERCTL_KILLRX
    um             \* the unmount: kdmsg_iocom_uninit

dmsgVars == <<k, s, k2s, s2k, up, rd, wr, kill, um>>

\* kdmsg_state_t and dmsg_state_t.  tx and rx hold the CREATE and DELETE bits
\* of txcmd and rxcmd, rb and sub RBINSERTED and SUBINSERTED.
Bits == SUBSET {"C", "D"}
StateType == [rb : BOOLEAN, sub : BOOLEAN, tx : Bits, rx : Bits, new : BOOLEAN,
              aborting : BOOLEAN, dying : BOOLEAN, interlock : BOOLEAN]
NoState == [rb |-> FALSE, sub |-> FALSE, tx |-> {}, rx |-> {}, new |-> FALSE,
            aborting |-> FALSE, dying |-> FALSE, interlock |-> FALSE]

\* A message names its transaction; who made that tells a command from a reply.
Message == (Trans \cup {ping}) \X Bits
EndType == [st : [Trans -> StateType], q : Seq(Message), conn : BOOLEAN,
            relays : SUBSET SSpans, noacc : BOOLEAN, dead : BOOLEAN,
            fault : SUBSET {"assert", "protocol", "mutex"}]
NewEnd == [st |-> [t \in Trans |-> NoState], q |-> <<>>, conn |-> FALSE,
           relays |-> {}, noacc |-> FALSE, dead |-> FALSE, fault |-> {}]

DmsgTypeOK ==
    /\ k \in EndType /\ s \in EndType
    /\ k2s \in Seq(Message) /\ s2k \in Seq(Message)
    /\ up \in BOOLEAN /\ kill \in BOOLEAN
    /\ rd \in {"read", "gone"}
    /\ wr \in {<<"idle">>, <<"wait">>, <<"drain">>, <<"exit">>}
              \cup ({"sent", "failed"} \X Message)
    /\ um \in {"mounted", "stopping", "done"}

-----------------------------------------------------------------------------
(* Both ends.                                                                *)

Kids(w, t) == {u \in SSubs : SubParent[u] = t /\ w.st[u].sub}
Fault(w, what) == [w EXCEPT !.fault = @ \cup {what}]
Upd(w, t, r) == [w EXCEPT !.st[t] = r]
Fails(cond, w, what) == IF cond THEN w ELSE Fault(w, what)
Dead(x) == x.aborting \/ x.dying

\* kdmsg_msg_reply and its kin: what ends, or acknowledges, our side.
BugReplyBits(x, close) == close
ReplyBits(x, close) == (IF "C" \in x.tx THEN {} ELSE {"C"}) \cup close

\* The flags *_state_abort sets before the callback: DYING reaches down.
MarkAborting(w, t) ==
    [w EXCEPT !.st = [u \in Trans |->
        IF u = t THEN [w.st[u] EXCEPT !.aborting = TRUE, !.dying = TRUE]
        ELSE IF u \in Kids(w, t) THEN [w.st[u] EXCEPT !.dying = TRUE]
        ELSE w.st[u]]]

\* The message *_state_abort pretends to have received.
AbortBits(x) == (IF "C" \in x.rx THEN {} ELSE {"C"}) \cup {"D"}

AbortDone(w, t) == w.st[t].new \/ "D" \in w.st[t].rx

\* *_simulate_failure of the sub-states of t, and of those of state0, skips
\* these.  A state that a callback adds joins the end of the queue.
MayFail(w, u) == w.st[u].sub /\ ~w.st[u].aborting
TopOrder == <<kconn, sconn>> \o SetToSeq(KSpans) \o SetToSeq(SSpans)
KidOrder(w, t) == SetToSeq(Kids(w, t))

-----------------------------------------------------------------------------
(* The kernel's end.                                                         *)

\* kdmsg_msg_alloc of a new transaction under state0.
kdmsg_msg_alloc(w, t) ==
    Upd(w, t, [NoState EXCEPT !.rb = TRUE, !.sub = TRUE, !.new = TRUE])

\* kdmsg_state_msgtx.  The interlock keeps the reader off the state until
\* kdmsg_state_cleanuptx has run.
TxError(w, t, f) == f = {"D"} /\ "C" \notin w.st[t].tx
kdmsg_state_msgtx(w, t, f) ==
    IF f = {} THEN w
    ELSE IF TxError(w, t, f) THEN Fault(w, "protocol")
    ELSE LET x == [w.st[t] EXCEPT !.interlock = TRUE]
         IN  Upd(w, t, IF "C" \notin f THEN x
                       ELSE IF t \in KernelMade
                       THEN [x EXCEPT !.tx = {"C"}, !.rx = {}, !.new = FALSE]
                       ELSE [x EXCEPT !.tx = {"C"}])

\* kdmsg_state_cleanuptx, without its deferred abort.
CloseTx(w, t) ==
    LET x == [w.st[t] EXCEPT !.tx = @ \cup {"D"}]
    IN  IF "D" \in x.rx
        THEN Upd(Fails(x.rb, w, "assert"), t,
                 [x EXCEPT !.rb = FALSE, !.sub = @ /\ Kids(w, t) # {}])
        ELSE Upd(w, t, x)
CleanTxBase(w, t, f) ==
    IF f = {} THEN w
    ELSE LET m == [w EXCEPT !.st[t].interlock = FALSE]
         IN  IF "D" \notin f THEN m
             ELSE CloseTx(Fails("D" \notin m.st[t].tx, m, "assert"), t)

RECURSIVE kdmsg_state_abort(_, _)

FailKids(w, t) ==
    FoldLeft(LAMBDA acc, u : IF MayFail(acc, u) THEN kdmsg_state_abort(acc, u) ELSE acc,
             w, KidOrder(w, t))
kdmsg_simulate_failure(w, t) == FailKids(kdmsg_state_abort(w, t), t)

kdmsg_state_cleanuptx(w, t, f) ==
    LET m == CleanTxBase(w, t, f)
    IN  IF t # ping /\ Dead(m.st[t]) /\ "D" \notin m.st[t].rx
        THEN kdmsg_state_abort([m EXCEPT !.st[t].aborting = FALSE], t) ELSE m

\* kdmsg_msg_write_locked and kdmsg_drain_msg
kdmsg_msg_write(w, t, f) ==
    IF t # ping /\ "D" \in w.st[t].tx THEN Fault(w, "assert")
    ELSE IF ~w.noacc /\ (t = ping \/ ~w.st[t].dying)
    THEN [w EXCEPT !.q = Append(@, <<t, f>>)]
    ELSE IF t = ping \/ (~w.st[t].dying /\ TxError(w, t, f)) THEN w
    ELSE LET m == kdmsg_state_msgtx(w, t, f)
         IN  kdmsg_state_cleanuptx(IF w.st[t].dying THEN m ELSE FailKids(m, t), t, f)

\* kdmsg_msg_reply and kdmsg_msg_result.  The allocation of the message needs
\* the parent of the state.
kdmsg_msg_reply(w, t, close) ==
    IF "D" \in w.st[t].tx THEN w
    ELSE kdmsg_msg_write(Fails(w.st[t].sub, w, "assert"), t, ReplyBits(w.st[t], close))

\* A callback: the end as it leaves it, and what it says, in order: whose side
\* it acknowledges ({}) or ends ({"D"}).
Said(w, t, close) == [end |-> w, say |-> <<<<t, close>>>>]
Silent(w) == [end |-> w, say |-> <<>>]

\* hammer2_update_spans, when the reply to our LNK_CONN opens the service's side.
NewSpans(w) == {t \in KSpans : w.st[t] = NoState}
hammer2_update_spans(w) ==
    [end |-> FoldLeft(kdmsg_msg_alloc, w, SetToSeq(NewSpans(w))),
     say |-> SetToSeq({<<t, {}>> : t \in NewSpans(w)})]

\* kdmsg_lnk_conn_reply
LnkConnReply(w, f) ==
    LET m == IF "C" \in f THEN hammer2_update_spans(w) ELSE Silent(w)
    IN  IF "D" \in f /\ "D" \notin w.st[kconn].tx
        THEN [end |-> [m.end EXCEPT !.conn = FALSE],
              say |-> Append(m.say, <<kconn, {"D"}>>)]
        ELSE m

\* kdmsg_autorxmsg with hammer2_autodmsg and hammer2_rcvdmsg: what is answered
\* by ending our side.  A sub-transaction, and a span that is of no use, are
\* turned down at once; kdmsg_autorxmsg replies to the DELETE of the others.
BugEnds(t, f) == t \notin SSubs /\ ("D" \in f \/ ("C" \in f /\ t \in Foreign))
Ends(t, f) == IF t \in SSubs THEN "C" \in f
              ELSE "D" \in f \/ ("C" \in f /\ t \in Foreign)
AutoRx(w, t, f) ==
    IF Ends(t, f) THEN Said(w, t, {"D"})
    ELSE IF "C" \in f THEN Said(w, t, {}) ELSE Silent(w)

KernelCallback(w, t, f) ==
    IF t = kconn THEN LnkConnReply(w, f)
    ELSE IF t \notin KSpans THEN AutoRx(w, t, f)
    ELSE IF "D" \in f THEN Said(w, t, {"D"}) ELSE Silent(w)

\* kdmsg_state_msgrx for a message that names a state, or makes one.
RxError(w, t, f, simulated) ==
    \/ /\ ~simulated /\ "C" \in f /\ t \notin KernelMade
       /\ \/ w.st[t].rb
          \/ t \in SSubs /\ ~w.st[SubParent[t]].rb
    \/ ~simulated /\ ("C" \notin f \/ t \in KernelMade) /\ f # {} /\ ~w.st[t].rb
    \/ f = {"D"} /\ "C" \notin w.st[t].rx
ReceivedC(w, t) ==
    IF t \in KernelMade THEN [w EXCEPT !.st[t].rx = {"C"}]
    ELSE Upd(w, t, [NoState EXCEPT !.rb = TRUE, !.sub = TRUE, !.rx = {"C"}])
ReceivedD(w, t) ==
    LET m == Fails("D" \notin w.st[t].rx, w, "assert")
        x == [m.st[t] EXCEPT !.rx = @ \cup {"D"}]
    IN  IF "D" \in x.tx
        THEN Upd(Fails(x.rb, m, "assert"), t, [x EXCEPT !.rb = FALSE])
        ELSE Upd(m, t, x)
kdmsg_state_msgrx(w, t, f) ==
    LET m == IF "C" \in f THEN ReceivedC(w, t) ELSE w
    IN  IF "D" \in f THEN ReceivedD(m, t) ELSE m

\* kdmsg_state_cleanuprx: the sub-states of what ends are aborted.
kdmsg_state_cleanuprx(w, t, f) ==
    LET m == IF "D" \in f THEN FailKids(w, t) ELSE w
    IN  [m EXCEPT !.st[t].sub = @ /\ ~("D" \in m.st[t].rx \cap m.st[t].tx)]

\* kdmsg_msg_receive_handling
kdmsg_msg_receive_handling(w, t, f, simulated) ==
    IF RxError(w, t, f, simulated) THEN Fault(w, "protocol")
    ELSE LET called == KernelCallback(kdmsg_state_msgrx(w, t, f), t, f)
         IN  kdmsg_state_cleanuprx(
                FoldLeft(LAMBDA acc, m : kdmsg_msg_reply(acc, m[1], m[2]),
                         called.end, called.say),
                t, f)

kdmsg_state_abort(w, t) ==
    LET m == MarkAborting(w, t)
    IN  IF AbortDone(m, t) THEN m
        ELSE kdmsg_msg_receive_handling(m, t, AbortBits(m.st[t]), TRUE)

\* kdmsg_drain_msgq
kdmsg_drain_msgq(w) ==
    FoldLeft(LAMBDA acc, m :
                IF m[1] = ping \/ TxError(acc, m[1], m[2]) THEN acc
                ELSE kdmsg_state_cleanuptx(
                        FailKids(kdmsg_state_msgtx(acc, m[1], m[2]), m[1]), m[1], m[2]),
             [w EXCEPT !.q = <<>>], w.q)

-----------------------------------------------------------------------------
(* The service's end.                                                        *)

\* dmsg_msg_alloc_locked of a new transaction; it sets no DMSG_STATE_NEW.
dmsg_msg_alloc(w, t) ==
    Upd(w, t, [NoState EXCEPT !.rb = TRUE, !.sub = TRUE,
                              !.dying = t \in SSubs /\ w.st[SubParent[t]].dying])

\* dmsg_state_cleanuptx, without its deferred abort.
CleanSent(w, t, f) ==
    IF "D" \notin f \/ "D" \in w.st[t].tx THEN w
    ELSE LET x == [w.st[t] EXCEPT !.tx = @ \cup {"D"}]
         IN  IF "D" \in x.rx
             THEN Upd(Fails(x.rb, w, "assert"), t, [x EXCEPT !.rb = FALSE, !.sub = FALSE])
             ELSE Upd(w, t, x)

RECURSIVE dmsg_state_abort(_, _)

dmsg_simulate_failure(w, t) ==
    LET m == IF w.st[t].aborting THEN w ELSE dmsg_state_abort(w, t)
    IN  FoldLeft(LAMBDA acc, u : IF MayFail(acc, u) THEN dmsg_state_abort(acc, u) ELSE acc,
                 m, KidOrder(w, t))

dmsg_state_cleanuptx(w, t, f) ==
    LET m == CleanSent(w, t, f)
    IN  IF Dead(m.st[t]) /\ "D" \notin m.st[t].rx
        THEN dmsg_simulate_failure([m EXCEPT !.st[t].aborting = FALSE], t) ELSE m

\* dmsg_msg_write.  A message for a transaction whose transmit side has ended
\* is dropped, and the mutex of the iocom is not.
dmsg_msg_write(w, t, f) ==
    LET m == IF "C" \in f THEN [w EXCEPT !.st[t].tx = {"C"}] ELSE w
        cleaned == dmsg_state_cleanuptx(m, t, f)
    IN  IF "D" \in m.st[t].tx THEN Fault(m, "mutex")
        ELSE IF ~m.st[t].dying THEN [cleaned EXCEPT !.q = Append(@, <<t, f>>)]
        ELSE IF cleaned.st[t].aborting THEN cleaned ELSE dmsg_simulate_failure(cleaned, t)

\* dmsg_msg_reply, dmsg_msg_result, dmsg_state_reply and dmsg_state_result.
dmsg_msg_reply(w, t, close) ==
    IF "D" \in w.st[t].tx THEN w
    ELSE dmsg_msg_write(Fails(w.st[t].sub, w, "assert"), t, ReplyBits(w.st[t], close))

\* dmsg_relay_delete, once for each relay in R.
dmsg_relay_delete(w, R) ==
    [end |-> [w EXCEPT !.relays = @ \ R], say |-> SetToSeq({<<t, {"D"}>> : t \in R})]

\* dmsg_lnk_conn
dmsg_lnk_conn(w, f) ==
    LET m == IF "C" \in f
             THEN [Fails(~w.conn, w, "assert") EXCEPT !.conn = TRUE] ELSE w
        gone == dmsg_relay_delete([m EXCEPT !.conn = FALSE], m.relays)
    IN  IF "D" \in f THEN [gone EXCEPT !.say = Append(@, <<kconn, {"D"}>>)]
        ELSE IF "C" \in f THEN Said(m, kconn, {}) ELSE Silent(m)

\* dmsg_lnk_span.  The relays of the span go out on other links.
dmsg_lnk_span(w, t, f) ==
    [end |-> w, say |-> (IF "C" \in f THEN <<<<t, {}>>>> ELSE <<>>)
                        \o (IF "D" \in f THEN <<<<t, {"D"}>>>> ELSE <<>>)]

\* dmsg_lnk_relay
dmsg_lnk_relay(w, t, f) ==
    IF "D" \notin f THEN Silent(w)
    ELSE IF t \in w.relays THEN dmsg_relay_delete(w, {t}) ELSE Said(w, t, {"D"})

\* master_auth_conn_rx, and a client that ends its side when the other end has.
EndWithPeer(w, t, f) == IF "D" \in f THEN Said(w, t, {"D"}) ELSE Silent(w)

dmsg_callback(w, t, f) ==
    IF t = kconn THEN dmsg_lnk_conn(w, f)
    ELSE IF t \in KSpans THEN dmsg_lnk_span(w, t, f)
    ELSE IF t \in SSpans THEN dmsg_lnk_relay(w, t, f)
    ELSE EndWithPeer(w, t, f)
Carried(c) == FoldLeft(LAMBDA acc, m : dmsg_msg_reply(acc, m[1], m[2]), c.end, c.say)

\* dmsg_state_msgrx.  A message whose circuit is gone is dropped; a state made
\* anew must not exist, and any other must.
CircuitGone(w, t) == t \in SSubs /\ ~w.st[SubParent[t]].rb
dmsg_msgrx_asserts(w, t, f, simulated) ==
    IF "C" \in f /\ t \in KernelMade THEN ~simulated /\ ~w.st[t].rb
    ELSE /\ simulated \/ (w.st[t].rb /\ w.st[t].sub)
         /\ "C" \in f \/ "C" \in w.st[t].rx
dmsg_received_c(w, t) ==
    IF t \in KernelMade
    THEN Upd(w, t, [NoState EXCEPT !.rb = TRUE, !.sub = TRUE, !.rx = {"C"}])
    ELSE [w EXCEPT !.st[t].rx = {"C"}]
dmsg_state_msgrx(w, t, f) ==
    LET m == IF "C" \in f THEN dmsg_received_c(w, t) ELSE w
    IN  IF "D" \in f THEN ReceivedD(m, t) ELSE m

dmsg_state_cleanuprx(w, t) ==
    [w EXCEPT !.st[t].sub = @ /\ ~("D" \in w.st[t].rx \cap w.st[t].tx)]

dmsg_receive(w, t, f, simulated) ==
    IF ~simulated /\ CircuitGone(w, t) THEN w
    ELSE IF ~dmsg_msgrx_asserts(w, t, f, simulated) THEN Fault(w, "assert")
    ELSE dmsg_state_cleanuprx(Carried(dmsg_callback(dmsg_state_msgrx(w, t, f), t, f)), t)

dmsg_state_abort(w, t) ==
    LET m == MarkAborting(w, t)
    IN  IF AbortDone(m, t) THEN m ELSE dmsg_receive(m, t, AbortBits(m.st[t]), TRUE)

\* dmsg_simulate_failure of state0, but for state0 itself.
FailAll(w) ==
    FoldLeft(LAMBDA acc, u : IF MayFail(acc, u) THEN dmsg_simulate_failure(acc, u) ELSE acc,
             w, TopOrder)

-----------------------------------------------------------------------------
(* The kernel's threads.  The reader sits in fp_read and looks at KILLRX      *)
(* after each message; the writer lets go of msglk while it writes, so the    *)
(* answer may be back before kdmsg_state_cleanuptx.                           *)

\* Either thread shuts the socket down when it ends.
Shutdown == up' = FALSE /\ s2k' = <<>> /\ kill' = TRUE

\* hammer2_cluster_reconnect has made the threads; autoinitiate follows, and
\* may find that they have ended.
kdmsg_iocom_autoinitiate ==
    /\ k.st[kconn] = NoState /\ um # "done"
    /\ k' = kdmsg_msg_write([kdmsg_msg_alloc(k, kconn) EXCEPT !.conn = TRUE], kconn, {"C"})
    /\ UNCHANGED <<s, k2s, s2k, up, rd, wr, kill, um>>

Reader(t) ==
    /\ rd = "read" /\ s2k # <<>> /\ Head(s2k)[1] = t
    /\ t # ping => ~(k.st[t].rb /\ k.st[t].interlock)

kdmsg_iocom_thread_rd ==
    /\ \E t \in Trans \cup {ping} :
          /\ Reader(t)
          /\ k' = IF t = ping THEN k
                  ELSE kdmsg_msg_receive_handling(k, t, Head(s2k)[2], FALSE)
    /\ IF kill THEN Shutdown /\ rd' = "gone"
               ELSE s2k' = Tail(s2k) /\ UNCHANGED <<up, kill, rd>>
    /\ UNCHANGED <<s, k2s, wr, um>>

kdmsg_rd_eof ==
    /\ rd = "read" /\ ~up /\ s2k = <<>>
    /\ rd' = "gone" /\ Shutdown
    /\ UNCHANGED <<k, s, k2s, wr, um>>

\* kdmsg_iocom_thread_wr: msgtx, then the write without the lock.
kdmsg_wr_send ==
    /\ wr = <<"idle">> /\ k.q # <<>>
    /\ LET t == Head(k.q)[1]  f == Head(k.q)[2]
           m == [k EXCEPT !.q = Tail(@)]
       IN  IF t # ping /\ TxError(k, t, f)
           THEN /\ k' = Fault(m, "protocol") /\ wr' = <<"wait">> /\ Shutdown
                /\ UNCHANGED k2s
           ELSE /\ k' = kdmsg_state_msgtx(m, t, f)
                /\ IF up THEN k2s' = Append(k2s, <<t, f>>) /\ wr' = <<"sent", <<t, f>>>>
                         ELSE wr' = <<"failed", <<t, f>>>> /\ UNCHANGED k2s
                /\ UNCHANGED <<s2k, up, kill>>
    /\ UNCHANGED <<s, rd, um>>

kdmsg_wr_clean ==
    /\ wr[1] \in {"sent", "failed"}
    /\ k' = kdmsg_state_cleanuptx(k, wr[2][1], wr[2][2])
    /\ IF wr[1] = "sent" THEN wr' = <<"idle">> /\ UNCHANGED <<s2k, up, kill>>
                         ELSE wr' = <<"wait">> /\ Shutdown
    /\ UNCHANGED <<s, k2s, rd, um>>

\* The reader's end kills the writer.
kdmsg_wr_killed ==
    /\ wr = <<"idle">> /\ rd = "gone"
    /\ wr' = <<"wait">>
    /\ UNCHANGED <<k, s, k2s, s2k, up, rd, kill, um>>

Empty(w) == w.q = <<>> /\ ~w.conn /\ \A t \in Trans : ~w.st[t].rb

\* Once the reader is gone no message is accepted: the queue is drained and
\* every open transaction aborted until nothing is left.
BugDrained(w) == kdmsg_drain_msgq([w EXCEPT !.noacc = TRUE])
Drained(w) ==
    FoldLeft(LAMBDA acc, u : IF MayFail(acc, u) THEN kdmsg_simulate_failure(acc, u) ELSE acc,
             kdmsg_drain_msgq([w EXCEPT !.noacc = TRUE]), TopOrder)
kdmsg_wr_drain ==
    /\ wr \in {<<"wait">>, <<"drain">>} /\ rd = "gone"
    /\ IF Empty(k)
       THEN wr' = <<"exit">> /\ k' = [k EXCEPT !.noacc = TRUE]
       ELSE wr' = <<"drain">> /\ k' = Drained(k)
    /\ UNCHANGED <<s, k2s, s2k, up, rd, kill, um>>

\* kdmsg_iocom_uninit: KILLRX and a PING, then after ten tries the shutdown.
kdmsg_iocom_uninit ==
    /\ um = "mounted" /\ k.st[kconn] # NoState
    /\ IF rd = "gone" /\ wr = <<"exit">> THEN um' = "done" /\ UNCHANGED <<k, kill>>
       ELSE um' = "stopping" /\ kill' = TRUE /\ k' = kdmsg_msg_write(k, ping, {})
    /\ UNCHANGED <<s, k2s, s2k, up, rd, wr>>

kdmsg_uninit_shutdown ==
    /\ um = "stopping" /\ wr # <<"exit">> /\ up
    /\ up' = FALSE /\ s2k' = <<>>
    /\ UNCHANGED <<k, s, k2s, rd, wr, kill, um>>

kdmsg_uninit_done ==
    /\ um = "stopping" /\ rd = "gone" /\ wr = <<"exit">>
    /\ um' = "done"
    /\ UNCHANGED <<k, s, k2s, s2k, up, rd, wr, kill>>

-----------------------------------------------------------------------------
(* The service's threads: the core of the iocom, those of its other links     *)
(* and its clients.                                                           *)

ServiceOnly == UNCHANGED <<k, s2k, k2s, up, rd, wr, kill, um>>

dmsg_iocom_flush ==
    /\ s.q # <<>> /\ up
    /\ s2k' = Append(s2k, Head(s.q))
    /\ s' = [s EXCEPT !.q = Tail(@)]
    /\ UNCHANGED <<k, k2s, up, rd, wr, kill, um>>

dmsg_iocom_read ==
    /\ k2s # <<>> /\ ~s.dead
    /\ LET t == Head(k2s)[1]  f == Head(k2s)[2]
       IN  s' = IF t = ping THEN [s EXCEPT !.q = Append(@, <<ping, {}>>)]
                ELSE dmsg_receive(s, t, f, FALSE)
    /\ k2s' = Tail(k2s)
    /\ UNCHANGED <<k, s2k, up, rd, wr, kill, um>>

\* dmsg_ioq_read on an error of the link.
dmsg_read_error ==
    /\ ~up /\ k2s = <<>> /\ ~s.dead
    /\ s' = FailAll([s EXCEPT !.dead = TRUE, !.q = <<>>])
    /\ ServiceOnly

\* dmsg_generate_relay; the kernel's connection must still be there.
dmsg_generate_relay(t) ==
    /\ s.conn /\ s.st[t] = NoState
    /\ s' = dmsg_msg_write([dmsg_msg_alloc(s, t) EXCEPT !.relays = @ \cup {t}], t, {"C"})
    /\ ServiceOnly

\* The origin of a relayed span has withdrawn it.
dmsg_relay_gone(t) ==
    /\ t \in s.relays
    /\ s' = Carried(dmsg_relay_delete(s, {t}))
    /\ ServiceOnly

\* A client finds a span of the kernel and stacks a transaction on it.
client_open(u) ==
    /\ s.st[u] = NoState
    /\ "C" \in s.st[SubParent[u]].rx /\ "D" \notin s.st[SubParent[u]].rx
    /\ s' = dmsg_msg_write(dmsg_msg_alloc(s, u), u, {"C"})
    /\ ServiceOnly

client_close(u) ==
    /\ "C" \in s.st[u].tx /\ "D" \notin s.st[u].tx
    /\ s' = dmsg_msg_write(s, u, {"D"})
    /\ ServiceOnly

LinkLost ==
    /\ up /\ up' = FALSE
    /\ UNCHANGED <<k, s, k2s, s2k, rd, wr, kill, um>>

DmsgInit ==
    /\ k = NewEnd /\ rd = "read" /\ wr = <<"idle">> /\ kill = FALSE
    /\ s = dmsg_msg_write(dmsg_msg_alloc(NewEnd, sconn), sconn, {"C"})
    /\ k2s = <<>> /\ s2k = <<>> /\ up = TRUE /\ um = "mounted"

Threads ==
    kdmsg_iocom_thread_rd \/ kdmsg_rd_eof \/ kdmsg_wr_send \/ kdmsg_wr_clean
    \/ kdmsg_wr_killed \/ kdmsg_wr_drain \/ kdmsg_uninit_shutdown \/ kdmsg_uninit_done

DmsgNext ==
    \/ Threads
    \/ kdmsg_iocom_autoinitiate \/ kdmsg_iocom_uninit
    \/ dmsg_iocom_flush \/ dmsg_iocom_read \/ dmsg_read_error
    \/ \E t \in SSpans : dmsg_generate_relay(t) \/ dmsg_relay_gone(t)
    \/ \E u \in SSubs : client_open(u) \/ client_close(u)
    \/ LinkLost

\* The kernel's threads are scheduled, and the ten seconds of an unmount pass:
\* weak fairness of Threads, whose enabling condition is written out.
ThreadsCan ==
    \/ rd = "read" /\ (s2k # <<>> => Reader(Head(s2k)[1])) /\ (s2k = <<>> => ~up)
    \/ wr = <<"idle">> /\ (k.q # <<>> \/ rd = "gone")
    \/ wr[1] \in {"sent", "failed"}
    \/ wr = <<"wait">> /\ rd = "gone"
    \/ wr = <<"drain">> /\ (Empty(k) \/ Drained(k) # k)
    \/ um = "stopping" /\ (wr # <<"exit">> => up)
ThreadsFair == <>[]ThreadsCan => []<><<Threads>>_dmsgVars

DmsgSpec == DmsgInit /\ [][DmsgNext]_dmsgVars /\ ThreadsFair

-----------------------------------------------------------------------------
(* Properties.                                                               *)

\* No KKASSERT of kdmsg.c and no assert of libdmsg fails, neither end answers
\* a message with a protocol error, and dmsg_msg_write never takes the path
\* that returns with the mutex held: whatever the link, the spans and the
\* clients do, no side is ended twice and no state is used that is gone.
LinkAsserts == k.fault = {} /\ s.fault = {}

\* When nothing is under way on a live link the ends agree: what one has sent
\* the other has received, a transaction is known to both or to neither, and
\* none is left half closed: each DELETE has been answered by a DELETE.
Quiet == /\ up /\ k2s = <<>> /\ s2k = <<>> /\ k.q = <<>> /\ s.q = <<>>
         /\ wr = <<"idle">>
EndsAgree ==
    Quiet => \A t \in Trans :
                /\ k.st[t].tx = s.st[t].rx /\ s.st[t].tx = k.st[t].rx
                /\ k.st[t].rb <=> s.st[t].rb
                /\ "D" \in k.st[t].tx <=> "D" \in k.st[t].rx

\* The rules of the protocol hold and the ends agree.
LinkSound == LinkAsserts /\ EndsAgree

\* When the kernel's threads have gone nothing they kept is left behind: no
\* open transaction, no queued message, no connection state.  The LNK_CONN of
\* an autoinitiate that comes too late is "drained", and stays open.
ExitIsClean == wr = <<"exit">> => Empty(k)

\* kdmsg_iocom_uninit returns: an unmount ends the threads and with them every
\* transaction, whatever the service does or fails to do.
UnmountEnds == (um = "stopping") ~> (um = "done")

=============================================================================
