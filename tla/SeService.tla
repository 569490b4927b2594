----------------------------- MODULE SeService -----------------------------
(***************************************************************************)
(* plat/arm/board/devkit_e7/se_service/services.c on the MHU driver of     *)
(* plat/arm/board/corstone700/drivers/mhu: requests to the secure enclave  *)
(* (SE) during the boot of SP_MIN, in a build with AES_EN, FLASH_EN and    *)
(* USB_INIT_HALT.                                                          *)
(*                                                                         *)
(* A request is put into one shared payload buffer and announced on an MHU *)
(* channel.  The SE acknowledges it by clearing the channel, serves it and *)
(* writes its response into the same buffer.  The CPU never waits for an   *)
(* event: it delays, and then looks at the channel, or at the buffer.  The *)
(* delays are in E7Boot.                                                   *)
(*                                                                         *)
(* The boot makes three cycles of heartbeat and request: "key" writes the  *)
(* AES key, "get" reads the run profile, "set" writes it back with the USB *)
(* PHY added.                                                              *)
(***************************************************************************)
EXTENDS Integers

CONSTANTS MAX_TRIES,
          Bits,      \* what a run profile may enable; contains UsbPhy
          UsbPhy,
          None

VARIABLES pc,        \* the CPU: where it is ...
          cycle,     \* ... in which cycle of the boot ...
          iteration, \* ... of service_se_sync()
          saved,     \* the profile saved by the get cycle
          lock,      \* arm_lock is held
          channel,   \* CH_ST: the channel announces a message
          acked,     \* CH_INT_ST, CH_INT_ST0: an acknowledgement was seen, ever
          access,    \* ACCESS_REQ and ACCESS_READY of the MHU
          payload,   \* the buffer: the service and the profile in it
          request,   \* the SE: the request it serves, as it read it
          up,        \* the SE: it listens to the channel
          profile,   \* the SE: the run profile in force
          key,       \* the SE: the AES key was written
          refused    \* history: the requests that the SE answered with an error

cpu == <<pc, cycle, iteration, saved, lock>>
se == <<request, up, profile, key, refused>>
vars == <<cpu, channel, acked, access, payload, se>>

Services == {"heartbeat", "key", "get", "set"}
Payloads == [id : Services \cup {None}, run : SUBSET Bits]
Cycles == {"key", "get", "set"}

ASSUME SeAssumption == MAX_TRIES \in Nat \ {0} /\ UsbPhy \in Bits /\ None \notin Payloads

TypeOK == /\ pc \in {"sync", "start", "send", "send_ready", "poll", "request",
                     "request_ready", "request_poll",
                     "response", "end", "done", "failed"}
          /\ cycle \in Cycles /\ iteration \in 0..(MAX_TRIES + 1)
          /\ saved \in SUBSET Bits
          /\ {lock, channel, acked, up, key} \subseteq BOOLEAN
          /\ payload \in Payloads /\ request \in Payloads \cup {None}
          /\ profile \in SUBSET Bits
          /\ access \in {"none", "requested", "ready"} /\ refused \subseteq Cycles

Init == /\ pc = "sync" /\ cycle = "key" /\ iteration = 0 /\ saved = {}
        /\ lock = FALSE /\ channel = FALSE /\ acked = FALSE /\ access = "none"
        /\ payload = [id |-> None, run |-> {}]
        /\ request = None /\ up \in BOOLEAN /\ profile \in SUBSET Bits /\ key = FALSE
        /\ refused = {}

-----------------------------------------------------------------------------
\* The SE comes up some time during the boot ...
SeStarts == /\ up' = TRUE /\ ~up
            /\ UNCHANGED <<cpu, channel, acked, access, payload, request, profile, key, refused>>

\* ... may stop to listen between two requests ...
SeStops == /\ up' = FALSE /\ up /\ request = None
           /\ UNCHANGED <<cpu, channel, acked, access, payload, request, profile, key, refused>>

\* ... takes a message and acknowledges it ...
SeAccepts == /\ up /\ channel /\ request = None
             /\ channel' = FALSE /\ acked' = TRUE
             /\ request' = payload
             /\ UNCHANGED <<cpu, access, payload, up, profile, key, refused>>

\* ... serves the request and puts the response into the buffer ...
SeResponds == /\ request # None
              /\ profile' = IF request.id = "set" THEN request.run ELSE profile
              /\ key' = (key \/ request.id = "key")
              /\ payload' = IF request.id = "get" THEN [payload EXCEPT !.run = profile] ELSE payload
              /\ request' = None
              /\ UNCHANGED <<cpu, channel, acked, access, up, refused>>

\* ... or an error code, with anything where the run profile would be.
SeRefuses == /\ request # None /\ request.id \in Cycles
             /\ \E r \in SUBSET Bits :
                  payload' = IF request.id = "get" THEN [payload EXCEPT !.run = r] ELSE payload
             /\ refused' = refused \cup {request.id}
             /\ request' = None
             /\ UNCHANGED <<cpu, channel, acked, access, up, profile, key>>

SeNext == SeStarts \/ SeStops \/ SeAccepts \/ SeResponds \/ SeRefuses

\* The MHU grants the access that was asked for, when its receiver is ready.
MhuReady == /\ access = "requested" /\ access' = "ready"
            /\ UNCHANGED <<cpu, channel, acked, payload, se>>

-----------------------------------------------------------------------------
\* service_se_sync() prepares the heartbeat ...
Sync == /\ pc = "sync"
        /\ payload' = [id |-> "heartbeat", run |-> {}]
        /\ iteration' = 0
        /\ pc' = "start"
        /\ UNCHANGED <<cycle, saved, lock, channel, acked, access, se>>

\* ... mhu_secure_message_start() takes the lock and waits for the channel ...
mhu_secure_message_start == /\ pc = "start"
                            /\ ~lock /\ ~channel
                            /\ lock' = TRUE
                            /\ pc' = "send"
                            /\ UNCHANGED <<cycle, iteration, saved, channel, acked, access, payload, se>>

\* Leaving the loop of service_se_sync() with a failure: mhu_secure_message_end(), and
\* both callers return -1.
SyncFails == /\ pc' = "failed" /\ lock' = FALSE /\ access' = "none"

\* mhu_secure_message_send() asks the MHU for access; it is kept until
\* mhu_secure_message_end() ...
RequestAccess == access' = IF access = "none" THEN "requested" ELSE access

\* Mutant: the tries are not counted.
SyncSend_NoLimit == /\ pc = "send"
                    /\ RequestAccess /\ pc' = "send_ready"
                    /\ UNCHANGED <<cycle, iteration, saved, lock, channel, acked, payload, se>>

\* ... and the loop sends the heartbeat, MAX_TRIES times at most ...
SyncSend == /\ pc = "send"
            /\ iteration' = iteration + 1
            /\ IF iteration >= MAX_TRIES
               THEN SyncFails
               ELSE RequestAccess /\ pc' = "send_ready" /\ UNCHANGED lock
            /\ UNCHANGED <<cycle, saved, channel, acked, payload, se>>

\* ... when the access is granted, for which there is no timeout ...
SyncSent == /\ pc = "send_ready" /\ access = "ready"
            /\ channel' = TRUE
            /\ pc' = "poll"
            /\ UNCHANGED <<cycle, iteration, saved, lock, acked, access, payload, se>>

\* ... and looks, after a delay, whether the SE acknowledged it.
SyncPoll == /\ pc = "poll"
            /\ IF ~acked \/ channel THEN pc' = "send" /\ UNCHANGED <<lock, access>>
               ELSE IF iteration >= MAX_TRIES THEN SyncFails
               ELSE pc' = "request" /\ UNCHANGED <<lock, access>>
            /\ UNCHANGED <<cycle, iteration, saved, channel, acked, payload, se>>

-----------------------------------------------------------------------------
\* Mutant: the profile is sent back as it was read.
RequestOf_NoUsb(c) ==
  CASE c = "key" -> [id |-> "key", run |-> {}]
    [] c = "get" -> [id |-> "get", run |-> {}]
    [] c = "set" -> [id |-> "set", run |-> saved]

\* The request of a cycle.
RequestOf(c) ==
  CASE c = "key" -> [id |-> "key", run |-> {}]
    [] c = "get" -> [id |-> "get", run |-> {}]
    [] c = "set" -> [id |-> "set", run |-> saved \cup {UsbPhy}]

\* The response to the heartbeat is ignored; the request takes its place ...
SendRequest == /\ pc = "request"
               /\ payload' = RequestOf(cycle)
               /\ RequestAccess
               /\ pc' = "request_ready"
               /\ UNCHANGED <<cycle, iteration, saved, lock, channel, acked, se>>

RequestSent == /\ pc = "request_ready" /\ access = "ready"
               /\ channel' = TRUE
               /\ pc' = "request_poll"
               /\ UNCHANGED <<cycle, iteration, saved, lock, acked, access, payload, se>>

\* ... and is polled for once.
RequestPoll == /\ pc = "request_poll"
               /\ IF ~acked \/ channel THEN SyncFails
                  ELSE pc' = "response" /\ UNCHANGED <<lock, access>>
               /\ UNCHANGED <<cycle, iteration, saved, channel, acked, payload, se>>

\* After a delay the get cycle saves the response, whatever its error code.
Response == /\ pc = "response"
            /\ saved' = IF cycle = "get" THEN payload.run ELSE saved
            /\ pc' = "end"
            /\ UNCHANGED <<cycle, iteration, lock, channel, acked, access, payload, se>>

\* mhu_secure_message_end(), and the next cycle.
mhu_secure_message_end ==
  /\ pc = "end"
  /\ lock' = FALSE /\ access' = "none"
  /\ CASE cycle = "key" -> cycle' = "get" /\ pc' = "sync"
       [] cycle = "get" -> cycle' = "set" /\ pc' = "sync"
       [] cycle = "set" -> pc' = "done" /\ UNCHANGED cycle
  /\ UNCHANGED <<iteration, saved, channel, acked, payload, se>>

CpuNext == \/ Sync \/ mhu_secure_message_start \/ SyncSend \/ SyncSent \/ SyncPoll
           \/ SendRequest \/ RequestSent \/ RequestPoll \/ Response \/ mhu_secure_message_end

-----------------------------------------------------------------------------
\* service_enable_usb_phy() only adds the USB PHY to the run profile: the
\* response of the get cycle survives the heartbeat of the set cycle, which
\* reuses its buffer, and nothing else reaches the SE as a profile.  Only when
\* the SE answered the get with an error, which is not looked at, something
\* else does.
ProfileOnlyGrows ==
  [][profile' \in {profile, profile \cup {UsbPhy}} \/ "get" \in refused]_vars

\* When the boot got through its three cycles the SE has answered each request
\* before the buffer was read or reused: the key is written and the USB PHY
\* enabled, but for a request that the SE answered with an error.  The CPU
\* looks at the channel only, never at an answer.
DoneMeansServed ==
  pc = "done" => /\ key \/ "key" \in refused
                 /\ UsbPhy \in profile \/ "set" \in refused

\* The CPU does not change the buffer while a request in it is announced or
\* being served.
PayloadStable ==
  [][payload' # payload /\ request' = request => ~channel /\ request = None]_vars

\* The boot ends, in success or in failure, also when the SE never listens:
\* neither the retries nor the wait for the channel go on for ever.  It can
\* only hang in mhu_secure_message_send(), when the MHU never grants access.
BootEnds == <>(pc \in {"done", "failed"}) \/ <>[](access = "requested")
=============================================================================
