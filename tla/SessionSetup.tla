----------------------------- MODULE SessionSetup -----------------------------
(***************************************************************************)
(* How an RTPSession comes to be and goes: Create builds a dozen parts one *)
(* after the other and takes them apart again wherever one fails; Destroy  *)
(* and BYEDestroy take them apart while the poll thread still runs;        *)
(* SetMaximumPacketSize changes three parts and restores the first ones    *)
(* when a later one refuses.  The session object is created again and      *)
(* again: what is left of one session meets the next one.                  *)
(*                                                                         *)
(* A step fails for any reason of its own (no memory, no address, a bad    *)
(* parameter), and always when the part it sets up is there already.  The  *)
(* locks of the poll thread are the subject of RtpSession.                 *)
(***************************************************************************)
EXTENDS Naturals, Sequences

CONSTANTS
    Size,       \* packet sizes that are asked for
    MinSize     \* RTP_MINPACKETSIZE

VARIABLES
    doing,      \* the call main is in, "nothing" between calls
    created,
    owned,      \* deletetransmitter: the transmitter is the session's own
    live,       \* the parts that hold memory, sockets or a thread
    mutexes,    \* initialised mutexes; they outlive a session
    thread,     \* "none", "running", or "ended" after an error
    queued,     \* whether BYE packets and collided addresses are kept
    named,      \* whether SDES items beside the CNAME are set
    size        \* the maximum packet size in the session and in three parts

setupvars == <<doing, created, owned, live, mutexes, thread, queued, named, size>>

Sized == {"session", "transmitter", "packetbuilder", "rtcpbuilder"}

SetupInit ==
    /\ doing = "nothing"
    /\ created = FALSE /\ owned = FALSE
    /\ live = {} /\ mutexes = {} /\ thread = "none" /\ queued = FALSE
    /\ named = FALSE
    /\ \E s \in Size : size = [x \in Sized |-> s]

-----------------------------------------------------------------------------
(* Create.                                                                  *)

\* InternalCreate, step by step; "parameters" are the scheduler's.  The steps from
\* the seventh on are for the poll thread.
Steps == <<"packetbuilder", "sources", "receivemode", "cname", "rtcpbuilder",
           "parameters", "sourcesmutex", "buildermutex", "schedmutex",
           "packsentmutex", "pollthread">>
LastStep(polling) == IF polling THEN 11 ELSE 6

Mutex == {"sourcesmutex", "buildermutex", "schedmutex", "packsentmutex"}
Holding == {"packetbuilder", "sources", "rtcpbuilder", "pollthread"}
Before(k) == {Steps[i] : i \in 1..(k - 1)}

\* Bug: a failure after the RTCP builder does not destroy it.
UndoneNotRtcp(step) ==
    CASE step = "packetbuilder" -> {}
      [] step = "sources" -> {"packetbuilder"}
      [] OTHER -> {"packetbuilder", "sources"}

\* What the error path of a step destroys, beside the transmitter.
Undone(step) ==
    CASE step = "packetbuilder" -> {}
      [] step = "sources" -> {"packetbuilder"}
      [] step \in {"receivemode", "cname", "rtcpbuilder"} -> {"packetbuilder", "sources"}
      [] OTHER -> {"packetbuilder", "sources", "rtcpbuilder", "pollthread"}

\* A step cannot succeed when its part is there, nor fail when its mutex is.
Reaches(k) == Before(k) \cap live \cap Holding = {}

\* InternalCreate fails at step k: the mutexes stay, the rest is undone.
CreateFails(k) ==
    /\ Reaches(k) /\ Steps[k] \notin mutexes
    /\ live' = (live \cup (Before(k) \cap Holding)) \ Undone(Steps[k])
    /\ mutexes' = mutexes \cup (Before(k) \cap Mutex)
    /\ UNCHANGED <<created, thread>>

\* All steps before k have succeeded, and there is no step k.
CreateSucceeds(k) ==
    /\ Reaches(k)
    /\ live' = live \cup (Before(k) \cap Holding) \cup (IF owned' THEN {"transmitter"} ELSE {})
    /\ mutexes' = mutexes \cup (Before(k) \cap Mutex)
    /\ thread' = IF "pollthread" \in Before(k) THEN "running" ELSE "none"
    /\ created' = TRUE

\* The transmitter comes first: our own one, which every failure deletes, or one
\* the caller gives and keeps.  Its own failures leave nothing.  (The sizes of parts
\* that are not there mean nothing.)
Create(s, own, polling) ==
    /\ doing = "nothing" /\ ~created
    /\ \/ /\ size' = [size EXCEPT !["session"] = s]
          /\ UNCHANGED <<owned, live, mutexes, thread, created>>
       \/ /\ s >= MinSize
          /\ size' = [x \in Sized |-> s]
          /\ owned' = own
          /\ \/ \E k \in 1..LastStep(polling) : CreateFails(k)
             \/ CreateSucceeds(LastStep(polling) + 1)
    /\ UNCHANGED <<doing, queued, named>>

-----------------------------------------------------------------------------
(* Destroy and BYEDestroy.                                                  *)

\* Both begin with the thread (Stop waits for its end, or kills it).
StopThread(call) ==
    /\ doing = "nothing" /\ created
    /\ doing' = call
    /\ live' = live \ {"pollthread"}
    /\ thread' = "none"
    /\ UNCHANGED <<created, owned, mutexes, queued, named, size>>

\* BYEDestroy builds a BYE, when packets were sent, and sends what it can.
SendByes ==
    /\ doing = "BYEDestroy"
    /\ queued' \in BOOLEAN
    /\ doing' = "Destroy"
    /\ UNCHANGED <<created, owned, live, mutexes, thread, named, size>>

\* The rest is the same in both.
DestroyRest ==
    /\ doing = "Destroy"
    /\ live' = live \ ({"packetbuilder", "rtcpbuilder", "sources"}
                       \cup (IF owned THEN {"transmitter"} ELSE {}))
    /\ queued' = FALSE
    /\ created' = FALSE
    /\ doing' = "nothing"
    /\ UNCHANGED <<owned, mutexes, thread, named, size>>

-----------------------------------------------------------------------------
(* SetMaximumPacketSize: the transmitter, then the builders under their      *)
(* mutex; who refuses has changed nothing.                                   *)

SetMaximumPacketSize(s) ==
    /\ doing = "nothing" /\ created
    /\ s >= MinSize
    /\ size' = [size EXCEPT !["transmitter"] = s]
    /\ doing' = "SetMaximumPacketSize"
    /\ UNCHANGED <<created, owned, live, mutexes, thread, queued, named>>

\* Both builders take it, or the one that did is set back at once.
ResizeBuilders ==
    /\ doing = "SetMaximumPacketSize"
    /\ \/ size' = [x \in Sized |-> size["transmitter"]] /\ doing' = "nothing"
       \/ size' = size /\ doing' = "restore"
    /\ UNCHANGED <<created, owned, live, mutexes, thread, queued, named>>

RestoreTransmitter ==
    /\ doing = "restore"
    /\ size' = [size EXCEPT !["transmitter"] = size["session"]]
    /\ doing' = "nothing"
    /\ UNCHANGED <<created, owned, live, mutexes, thread, queued, named>>

-----------------------------------------------------------------------------
(* SetLocalName and its like.  Nothing ever takes the item away: Destroy     *)
(* clears the private items only, and the next session sends it again.       *)

SetLocalItem ==
    /\ doing = "nothing" /\ created
    /\ named' = TRUE
    /\ UNCHANGED <<doing, created, owned, live, mutexes, thread, queued, size>>

-----------------------------------------------------------------------------
(* The poll thread: it keeps BYEs and addresses of collisions, and ends when *)
(* the transmitter refuses its packet, which one as large as the RTCP        *)
(* builder may make it is when the transmitter's size is smaller.            *)

NoteCollision ==
    /\ thread = "running"
    /\ queued' = TRUE
    /\ UNCHANGED <<doing, created, owned, live, mutexes, thread, named, size>>

RTCPRefused ==
    /\ thread = "running"
    /\ size["rtcpbuilder"] > size["transmitter"]
    /\ thread' = "ended"
    /\ UNCHANGED <<doing, created, owned, live, mutexes, queued, named, size>>

SetupNext ==
    \/ \E s \in Size, own, polling \in BOOLEAN : Create(s, own, polling)
    \/ \E call \in {"Destroy", "BYEDestroy"} : StopThread(call)
    \/ SendByes
    \/ DestroyRest
    \/ \E s \in Size : SetMaximumPacketSize(s)
    \/ ResizeBuilders
    \/ RestoreTransmitter
    \/ SetLocalItem
    \/ NoteCollision
    \/ RTCPRefused

SetupSpec == SetupInit /\ [][SetupNext]_setupvars

-----------------------------------------------------------------------------
SetupTypeOK ==
    /\ doing \in {"nothing", "Destroy", "BYEDestroy", "SetMaximumPacketSize", "restore"}
    /\ created \in BOOLEAN /\ owned \in BOOLEAN /\ queued \in BOOLEAN
    /\ named \in BOOLEAN
    /\ live \subseteq Holding \cup {"transmitter"}
    /\ mutexes \subseteq Mutex
    /\ thread \in {"none", "running", "ended"}
    /\ size \in [Sized -> Size]

Whole == {"packetbuilder", "sources", "rtcpbuilder"}
            \cup (IF owned THEN {"transmitter"} ELSE {})

\* A session is there as a whole or not at all: whichever step of Create failed,
\* or after it was left, nothing of it remains for the next Create to trip over
\* (SDES items of ours remain, see SetLocalItem).
AllOrNothing ==
    doing = "nothing" =>
        IF created THEN Whole \subseteq live
        ELSE live = {} /\ thread = "none" /\ ~queued

\* As long as the poll thread runs, everything it uses is there.
ThreadHasAll == thread = "running" => Whole \subseteq live /\ "pollthread" \in live

\* Between calls the parts agree on the packet size, whoever refused a change.
\* (During a change they do not, and the poll thread may end of it.)
SizesAgree ==
    created /\ doing = "nothing" => \A x \in Sized : size[x] = size["session"]

\* The parts above in the form the run checks.
SetupWhole == SetupTypeOK /\ AllOrNothing /\ ThreadHasAll /\ SizesAgree
=============================================================================
