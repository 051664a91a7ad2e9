------------------------------ MODULE VirtioNet ------------------------------
(* The virtio-net device of a forked VM (net/virtio_net_pci.rs) as the run   *)
(* loop drives it (fork.rs), with the guest driver it serves.  The guest is  *)
(* stopped whenever the device works, so a vcpu exit and everything the host *)
(* does before the next KVM_RUN is one step.  Frames that arrive at the TAP  *)
(* are numbered in order of arrival; a frame fits one receive buffer.        *)
EXTENDS Naturals, Sequences, SequencesExt

CONSTANTS QueueSize,  \* QUEUE_SIZE (256)
          IdxMod,     \* ring indices wrap here (2^16)
          Frames,     \* bound: how many frames arrive at the TAP
          IPv6,       \* those of them that try_rx skips
          TapRoom     \* bound: frames waiting in the TAP fd

VirtioAssumption ==
    /\ QueueSize \in Nat \ {0} /\ IdxMod \in Nat
    /\ IdxMod % QueueSize = 0 /\ IdxMod > QueueSize
    /\ Frames \in Nat /\ IPv6 \subseteq 1 .. Frames /\ TapRoom \in Nat

VARIABLES hasTap,  \* a TAP fd was attached at the fork; without it replies are crafted
          live,    \* queue_pfns are set: the driver has configured the device
          isr,     \* the ISR register's queue bit
          pending, \* the crafted replies waiting: synack_pending, arp_reply_pending
          rx,      \* receive ring in guest memory, and the driver's place in it
          tx,      \* transmit ring in guest memory
          tap,     \* frames the TAP fd has for us
          arrived, \* number of frames that arrived at the TAP so far
          irq,     \* vector 0x3B is pending in the LAPIC's IRR
          napi,    \* the driver's interrupt handler has scheduled its poll
          latest   \* the last TAP frame the driver took

vars == <<hasTap, live, isr, pending, rx, tx, tap, arrived, irq, napi, latest>>

Slot == 0 .. QueueSize - 1
Index == 0 .. IdxMod - 1
Desc == 0 .. QueueSize - 1
SynAck == <<"synack", 0>>
ArpReply == <<"arp_reply", 0>>
Reply == {SynAck, ArpReply}
Tap(n) == <<"tap", n>>
Received == {Tap(n) : n \in 1 .. Frames} \cup Reply
Request == {"syn", "arp_request", "data"}

SlotOf(i) == i % QueueSize
Between(newer, older) == (newer + IdxMod - older) % IdxMod
Least(a, b) == IF a < b THEN a ELSE b

(* ring[s] is the buffer offered in slot s, done[s] the completion written   *)
(* there; the driver has read completions up to seen and holds the buffers   *)
(* in mine.                                                                  *)
Completion == [desc : Desc, frame : Received \cup {Tap(0)}]
FreshRx == [avail |-> 0, used |-> 0, seen |-> 0, mine |-> Desc,
            ring |-> [s \in Slot |-> 0],
            done |-> [s \in Slot |-> [desc |-> 0, frame |-> Tap(0)]]]
FreshTx == [avail |-> 0, used |-> 0, ring |-> [s \in Slot |-> "data"]]

Init ==
    /\ hasTap \in BOOLEAN
    /\ live = FALSE /\ isr = FALSE /\ pending = <<>>
    /\ rx = FreshRx /\ tx = FreshTx
    /\ tap = <<>> /\ arrived = 0
    /\ irq = FALSE /\ napi = FALSE
    /\ latest = 0

-----------------------------------------------------------------------------
(* The device                                                                *)

(* A used-ring element and the buffer's new contents. *)
Complete(desc, frame) == [desc |-> desc, frame |-> frame]

(* Mutated: used.idx is sampled once, before the loop over the frames. *)
Fill_SameSlot(ring, frames) ==
    [ring EXCEPT
        !.used = (@ + Len(frames)) % IdxMod,
        !.done = IF frames = <<>> THEN @
                 ELSE [@ EXCEPT ![SlotOf(ring.used)] =
                           Complete(ring.ring[SlotOf(ring.used)], Last(frames))]]

(* Frames put into the next offered buffers; used.idx moves past them. *)
Fill(ring, frames) ==
    [ring EXCEPT
        !.used = (@ + Len(frames)) % IdxMod,
        !.done = [s \in Slot |->
            LET filled == {k \in DOMAIN frames : SlotOf(ring.used + k - 1) = s}
            IN IF filled = {} THEN @[s]
               ELSE Complete(ring.ring[s], frames[CHOOSE k \in filled : TRUE])]]

(* What reading the first n frames of the TAP yields: try_rx skips IPv6. *)
Wanted(frames) ==
    LET read[n \in 0 .. Len(frames)] ==
            IF n = 0 THEN <<>>
            ELSE IF frames[n][2] \in IPv6 THEN read[n - 1]
            ELSE Append(read[n - 1], frames[n])
    IN read

(* The position in the TAP of the frame that is read and finds no buffer,    *)
(* when n buffers are left for TAP frames; 0 if all of them fit.             *)
Overrun(n) ==
    LET over == {i \in DOMAIN tap : Len(Wanted(tap)[i]) > n}
    IN IF over = {} THEN 0 ELSE CHOOSE i \in over : \A j \in over : i <= j

(* Buffers the driver has offered and the device has not filled. *)
Room == Between(rx.avail, rx.used)

(* Mutated: was_read is sampled after the delivery. *)
TryRx_LateSample(replies) ==
    IF ~live
    THEN pending' = replies /\ UNCHANGED <<isr, rx, tap, irq>>
    ELSE LET offered == replies \o Wanted(tap)[Len(tap)]
             filled == SubSeq(offered, 1, Least(Room, Len(offered)))
             left == Room - Least(Room, Len(replies))
             over == Overrun(left)
         IN /\ rx' = Fill(rx, filled)
            /\ isr' = (isr \/ filled # <<>>)
            /\ UNCHANGED irq
            /\ pending' = <<>>
            /\ tap' = IF over = 0 THEN <<>> ELSE SubSeq(tap, over + 1, Len(tap))

(* try_rx with the replies it finds pending.  Replies are taken out first,   *)
(* whether or not there is a buffer for them; the TAP is then read until it  *)
(* is empty or a frame finds no buffer: that frame is gone, the ones behind  *)
(* it wait.  Without a receive queue nothing happens.  The caller injects    *)
(* vector 0x3B when isr changed.                                             *)
TryRx(replies) ==
    IF ~live
    THEN pending' = replies /\ UNCHANGED <<isr, rx, tap, irq>>
    ELSE LET offered == replies \o Wanted(tap)[Len(tap)]
             filled == SubSeq(offered, 1, Least(Room, Len(offered)))
             left == Room - Least(Room, Len(replies))
             over == Overrun(left)
         IN /\ rx' = Fill(rx, filled)
            /\ isr' = (isr \/ filled # <<>>)
            /\ irq' = (irq \/ isr' # isr)
            /\ pending' = <<>>
            /\ tap' = IF over = 0 THEN <<>> ELSE SubSeq(tap, over + 1, Len(tap))

(* Any exit of the vcpu: the loop drains the TAP before it goes back in. *)
Poll ==
    /\ TryRx(pending)
    /\ UNCHANGED <<hasTap, live, tx, arrived, napi, latest>>

Queued == {tx.ring[SlotOf(tx.used + k)] : k \in 0 .. Between(tx.avail, tx.used) - 1}

(* The SYN/ACK is delivered before the ARP reply. *)
Crafted ==
    LET craft(reply, request) ==
            IF reply \in ToSet(pending) \/ (~hasTap /\ request \in Queued)
            THEN <<reply>> ELSE <<>>
    IN craft(SynAck, "syn") \o craft(ArpReply, "arp_request")

(* The guest kicks queue 1: every offered frame is sent; without a TAP a SYN *)
(* and an ARP request get an answer, unless one is already waiting.  try_rx  *)
(* follows in the same exit.                                                 *)
KickTx ==
    /\ live /\ Queued # {}
    /\ tx' = [tx EXCEPT !.used = tx.avail]
    /\ TryRx(Crafted)
    /\ UNCHANGED <<hasTap, live, arrived, napi, latest>>

(* Status 0: reset() forgets queues and ISR but not the crafted replies; the *)
(* run loop's try_rx finds no receive queue any more.                        *)
Reset ==
    /\ live
    /\ live' = FALSE
    /\ isr' = FALSE
    /\ UNCHANGED <<hasTap, pending, rx, tx, tap, arrived, irq, napi, latest>>

-----------------------------------------------------------------------------
(* The guest's driver, as the device's code expects it to behave             *)

(* Rings zeroed, queue addresses written. *)
Configure ==
    /\ ~live
    /\ live' = TRUE
    /\ rx' = FreshRx /\ tx' = FreshTx
    /\ napi' = FALSE
    /\ UNCHANGED <<hasTap, isr, pending, tap, arrived, irq, latest>>

Offer(d) ==
    /\ live /\ d \in rx.mine
    /\ rx' = [rx EXCEPT !.ring[SlotOf(rx.avail)] = d,
                        !.avail = (@ + 1) % IdxMod,
                        !.mine = @ \ {d}]
    /\ UNCHANGED <<hasTap, live, isr, pending, tx, tap, arrived, irq, napi, latest>>

Transmit(r) ==
    /\ live /\ Between(tx.avail, tx.used) < QueueSize
    /\ tx' = [tx EXCEPT !.ring[SlotOf(tx.avail)] = r, !.avail = (@ + 1) % IdxMod]
    /\ UNCHANGED <<hasTap, live, isr, pending, rx, tap, arrived, irq, napi, latest>>

(* The handler reads ISR, which clears it, and schedules the poll if it was  *)
(* set.                                                                      *)
Interrupt ==
    /\ irq
    /\ irq' = FALSE
    /\ isr' = FALSE
    /\ napi' = (napi \/ (live /\ isr))
    /\ UNCHANGED <<hasTap, live, pending, rx, tx, tap, arrived, latest>>

(* The poll takes one filled buffer, or finds none and stops. *)
Take ==
    /\ live /\ napi
    /\ IF rx.seen = rx.used
       THEN napi' = FALSE /\ UNCHANGED <<rx, latest>>
       ELSE LET e == rx.done[SlotOf(rx.seen)]
            IN /\ rx' = [rx EXCEPT !.seen = (@ + 1) % IdxMod,
                                   !.mine = @ \cup {e.desc}]
               /\ latest' = IF e.frame \in Reply THEN latest ELSE e.frame[2]
               /\ UNCHANGED napi
    /\ UNCHANGED <<hasTap, live, isr, pending, tx, tap, arrived, irq>>

(* The network: a frame arrives at the TAP. *)
Arrive ==
    /\ hasTap /\ Len(tap) < TapRoom /\ arrived < Frames
    /\ arrived' = arrived + 1
    /\ tap' = Append(tap, Tap(arrived + 1))
    /\ UNCHANGED <<hasTap, live, isr, pending, rx, tx, irq, napi, latest>>

Next ==
    \/ Poll \/ KickTx \/ Reset \/ Configure \/ Interrupt \/ Take \/ Arrive
    \/ \E d \in Desc : Offer(d)
    \/ \E r \in Request : Transmit(r)

Spec == Init /\ [][Next]_vars

-----------------------------------------------------------------------------
(* Indices stay inside their sixteen bits, rings hold descriptors and the    *)
(* device queues at most one reply of a kind.                                *)
TypeOK ==
    /\ hasTap \in BOOLEAN
    /\ live \in BOOLEAN /\ isr \in BOOLEAN /\ irq \in BOOLEAN /\ napi \in BOOLEAN
    /\ ToSet(pending) \subseteq Reply /\ IsInjective(pending)
    /\ rx \in [avail : Index, used : Index, seen : Index, mine : SUBSET Desc,
               ring : [Slot -> Desc], done : [Slot -> Completion]]
    /\ tx \in [avail : Index, used : Index, ring : [Slot -> Request]]
    /\ ToSet(tap) \subseteq {Tap(n) : n \in 1 .. arrived} /\ arrived \in 0 .. Frames
    /\ latest \in 0 .. arrived

OfferedAt(k) == rx.ring[SlotOf(rx.used + k)]
FilledAt(k) == rx.done[SlotOf(rx.seen + k)]
Offered == [k \in 1 .. Between(rx.avail, rx.used) |-> OfferedAt(k - 1)]
Filled == [k \in 1 .. Between(rx.used, rx.seen) |-> FilledAt(k - 1)]

(* Every receive buffer is in one place: with the driver, offered, or filled *)
(* and not yet taken; try_rx fills none twice and none it was not offered.   *)
BuffersConserved ==
    live =>
        LET out == Offered \o [k \in DOMAIN Filled |-> Filled[k].desc]
        IN /\ IsInjective(out)
           /\ ToSet(out) = Desc \ rx.mine

(* TAP frames reach the driver in the order they came and each at most once, *)
(* through skips, overruns and wraps of the indices.                         *)
FlowInOrder ==
    live =>
        LET flow == <<Tap(latest)>> \o [k \in DOMAIN Filled |-> Filled[k].frame] \o tap
        IN \A i, j \in DOMAIN flow :
               i < j /\ flow[i] \notin Reply /\ flow[j] \notin Reply
                   => flow[i][2] < flow[j][2]

(* A filled buffer never waits without the driver being told: injecting only *)
(* when isr changed loses no interrupt.                                      *)
InterruptDue == live /\ rx.used # rx.seen => irq \/ napi
=============================================================================
