------------------------------ MODULE MCSrtCalls ------------------------------
(* Instances for TLC of what makes the calls on a Conn end.  A behaviour is one
   of SrtLink ("link"), or one of SrtConnIO: of all Reads and Closes ("reads"),
   one Read with its deadlines and all Closes ("alone"), all Writes with their
   deadlines and one Close ("writes"), or one Read, one Write and all Closes
   ("mixed"); Reads and Writes meet in the close flags only.  The variables of
   the other module do not move. *)
EXTENDS SrtConnIO

CONSTANTS
    Single, \* the callers where there is one of a kind
    SeqHalf, MaxLossRange, ISN, MaxWrites, SndCap, MaxRecvWindow, MaxLossPerNak, MaxReadyQueue,
    TailBurst, DupNet, MaxLost, AdequateLatency, MayClose \* of SrtLink

VARIABLES
    part,
    nextSeq, written, sndBuf, sndState, old, rcvNext, rcvMax, rcvBuf, loss, queue, rcvState, due,
    dataNet, ackNet, nakNet, dropNet, finNet, lost, delivered, gaveUp, discarded, sndDropped, fin

link == <<nextSeq, written, sndBuf, sndState, old, rcvNext, rcvMax, rcvBuf, loss, queue, rcvState,
          due, dataNet, ackNet, nakNet, dropNet, finNet, lost, delivered, gaveUp, discarded,
          sndDropped, fin>>

Link == INSTANCE SrtLink WITH ready <- queue

InLink == part = "link"

NoLink ==
    /\ nextSeq = 0 /\ written = 0 /\ sndBuf = 0 /\ sndState = 0 /\ old = 0 /\ rcvNext = 0 /\ rcvMax = 0
    /\ rcvBuf = 0 /\ loss = 0 /\ queue = 0 /\ rcvState = 0 /\ due = 0 /\ dataNet = 0 /\ ackNet = 0
    /\ nakNet = 0 /\ dropNet = 0 /\ finNet = 0 /\ lost = 0 /\ delivered = 0 /\ gaveUp = 0
    /\ discarded = 0 /\ sndDropped = 0 /\ fin = 0

\* Who takes part.
Present == CASE part = "reads"  -> Readers \cup Closers
             [] part = "alone"  -> (Readers \cap Single) \cup Closers
             [] part = "writes" -> Writers \cup (Closers \cap Single)
             [] part = "mixed"  -> ((Readers \cup Writers) \cap Single) \cup Closers
             [] OTHER           -> {}

IONext ==
    /\ Next
    /\ \A r \in Readers \ Present : rpc'[r] = "idle"
    /\ \A w \in Writers \ Present : wpc'[w] = "idle"
    /\ \A c \in Closers \ Present : cpc'[c] = "idle"
    /\ part # "alone" => readDeadline' = readDeadline
    /\ part # "writes" => writeDeadline' = writeDeadline

MCInit ==
    /\ Init
    /\ \/ InLink /\ Link!Init
       \/ part \in {"reads", "alone", "writes", "mixed"} /\ NoLink
MCNext ==
    /\ UNCHANGED part
    /\ \/ InLink /\ Link!Next /\ UNCHANGED vars
       \/ ~InLink /\ IONext /\ UNCHANGED link

\* The fairness of SrtLink.
LinkFairness ==
    /\ WF_link(InLink /\ Link!FullSenderTick) /\ WF_link(InLink /\ Link!FullReceiverTick)
    /\ WF_link(InLink /\ Link!Read)
    /\ \A p \in 0 .. (MaxWrites - 1) :
         WF_link(InLink /\ (Link!handleData(Link!Nth(p)) \/ Link!IgnoreData(Link!Nth(p))))
    /\ \A p \in 0 .. MaxWrites : WF_link(InLink /\ Link!HandleACK(Link!seqAdd(ISN, p)))
    /\ \A L \in (SUBSET {Link!seqAdd(ISN, p) : p \in 0 .. (MaxWrites - 1)}) \ {{}} :
         WF_link(InLink /\ Link!HandleNAK(Link!encodeLossList(L), Link!Held(Link!encodeLossList(L))))

MCSpec == MCInit /\ [][MCNext]_<<part, vars, link>> /\ Fairness /\ LinkFairness

\* EveryPacketArrives of SrtLink: with a bounded number of losses and an adequate
\* latency every packet written reaches the reader (handleNAK, resendTail).
EveryPacketArrives ==
    \A p \in 0 .. (MaxWrites - 1) :
        ~<>[](InLink /\ written > p /\ p \notin {delivered[i] : i \in DOMAIN delivered})

\* SendBufferDrains of SrtLink: the send buffer is emptied of every packet,
\* acknowledged or let go for age (handleACK, dropTooLate).
SendBufferDrains ==
    \A p \in 0 .. (MaxWrites - 1) : ~<>[](InLink /\ written > p /\ Link!SndBase <= p)

\* r is the only Read of the behaviour.
Alone(r) == Readers \cap Present = {r}

\* A Read that has no other beside it does not wait for ever next to a message
\* (deliver, notify, Read).
SoleReadReturns == \A r \in Readers : ~<>[](Alone(r) /\ rpc[r] = "wait" /\ ready # <<>>)

\* A call in progress ends: Close ends every one, without waiting for the linger,
\* and a deadline that has passed, and is left alone, ends every Write that waits
\* (SetWriteDeadline wakes them all) and a Read that has no other beside it.
\* SetReadDeadline leaves one token, and a Read that takes it and finds the time
\* over does not pass it on: DeadlineEndsReads is false of two.
CallsEnd ==
    /\ \A r \in Readers : /\ ~<>[](Alone(r) /\ readDeadline = "past" /\ rpc[r] = "wait")
                          /\ ~<>[](closing /\ rpc[r] # "idle")
    /\ \A w \in Writers : /\ ~<>[](writeDeadline = "past" /\ wpc[w] = "wait")
                          /\ ~<>[](closing /\ wpc[w] # "idle")
===============================================================================
