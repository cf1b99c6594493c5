------------------------------- MODULE Uplink -------------------------------
(***************************************************************************)
(* How the Shield's messages reach the cloud (igh_message.cpp,             *)
(* igh_mqtt.cpp, igh_sd_log.cpp).  A message is built in the one buffer    *)
(* igh_msg_buffer and published if the connection was up in the last pass; *)
(* otherwise it waits in new_data_point for the main loop to write it to   *)
(* the SD card, from which the files are uploaded one a second.            *)
(*                                                                         *)
(* The main loop builds, stages and writes a message in steps.  The timer  *)
(* thread (ping home, the clock's opening of the valve, a reset of the     *)
(* count) builds one of its own between any two of them, in the same       *)
(* buffer and the same new_data_point, so that what is stored may be torn: *)
(* it is modelled by the messages whose bytes it may hold.  Power may fail *)
(* at any step; only the card survives.                                    *)
(***************************************************************************)
EXTENDS Integers, Sequences

CONSTANTS
  Folder,        (* the card has an entry before the files: openNext skips one *)
  MessageBound,  (* bound on the messages of a run *)
  TimeBound      (* bound on the seconds that messages are stamped with *)

ASSUME UplinkAssumption ==
  /\ Folder \in BOOLEAN
  /\ MessageBound \in Nat
  /\ TimeBound \in Nat

(* Messages are numbered in the order they are begun (0 is none).  What is *)
(* stored has the length of the message "as" and bytes of some messages.   *)
Numbers == 0 .. MessageBound
Times == 0 .. TimeBound
Entries == [as : Numbers, bytes : SUBSET Numbers]
NoEntry == [as |-> 0, bytes |-> {}]
Emptied == [saved |-> TRUE, time |-> 0, as |-> 0, bytes |-> {}]
NoJob == [message |-> 0, store |-> FALSE, time |-> 0]

VARIABLES
  buffer,          (* igh_msg_buffer: the messages whose bytes it may hold *)
  job,             (* the message the main loop builds: number, store_data_point, second *)
  slot,            (* new_data_point, its length being that of the message "as" *)
  card,            (* the file of each second: what was written to it, in order *)
  file,            (* the file that is being written or uploaded *)
  writing,         (* what has been read of new_data_point for that file *)
  mqtt_connected,  (* as igh_mqtt_service saw it last *)
  link,            (* client.isConnected() *)
  cellular,        (* Cellular.ready() *)
  card_works,      (* the card can be opened *)
  time_valid,      (* Time.isValid() *)
  now,             (* Time.now(), in seconds *)
  upload_due,      (* the logger timer is older than a second *)
  pc,              (* where the main loop is *)
  resume,          (* where it goes on after the message under way *)
  next,            (* history: the number of the next message *)
  sent             (* history: the messages handed to a connection found alive *)

message == <<buffer, next>>
call    == <<job, resume>>
world   == <<link, cellular, card_works, time_valid, now>>
disk    == <<card, file, writing>>
vars == <<message, call, slot, disk, mqtt_connected, world, upload_due, pc, sent>>

Files == {second \in Times : card[second] # <<>>}

(* A build of a message begins at "body", once its head is written.        *)
Passing == {"setup", "sd", "write", "rest", "saved", "upload", "remove", "others", "mqtt"}
Building == {"body", "publish", "stage", "copy", "copy_rest", "length", "flag"}

Init ==
  /\ buffer = {}
  /\ job = NoJob
  /\ slot = Emptied
  /\ card = [second \in Times |-> <<>>]
  /\ file = 0 /\ writing = NoEntry
  /\ mqtt_connected = FALSE /\ link = FALSE
  /\ cellular \in BOOLEAN /\ card_works \in BOOLEAN
  /\ time_valid \in BOOLEAN /\ now = 0
  /\ upload_due = FALSE
  /\ pc = "setup" /\ resume = "sd"
  /\ next = 1
  /\ sent = {}

-----------------------------------------------------------------------------
(* igh_message_build_payload and igh_message_publish_built_payload, as the *)
(* main loop runs them.                                                    *)

Begin(store, after) ==
  /\ next <= MessageBound
  /\ buffer' = {next}
  /\ job' = [message |-> next, store |-> store, time |-> now]
  /\ next' = next + 1
  /\ pc' = "body"
  /\ resume' = after

(* A failure is itself reported by a message, if the bound leaves any.     *)
Report(store, after) ==
  \/ Begin(store, after)
  \/ next > MessageBound /\ pc' = after /\ UNCHANGED <<message, call>>

(* The end of the call, and of its locals.                                 *)
Return == pc' = resume /\ resume' = "sd" /\ job' = NoJob

(* The rest of the message, wherever the timer thread fell into it.        *)
Body ==
  /\ pc = "body"
  /\ \/ buffer' = buffer \cup {job.message} /\ pc' = "publish" /\ UNCHANGED call
     \/ buffer' = {} /\ Return    (* PACKET TOO LONG *)
  /\ UNCHANGED <<next, slot, disk, mqtt_connected, world, upload_due, sent>>

(* igh_mqtt_publish_data of a message: it hands it to the connection if    *)
(* that is alive, which it may have ceased to be since the last pass, and  *)
(* does not look at what client.publish returns.                           *)
SentWith(number) == IF link THEN sent \cup {number} ELSE sent

PublishNow ==
  /\ pc = "publish" /\ time_valid /\ mqtt_connected
  /\ sent' = SentWith(job.message)
  /\ Return
  /\ UNCHANGED <<message, slot, disk, mqtt_connected, world, upload_due>>

PublishLater ==
  /\ pc = "publish" /\ time_valid /\ ~mqtt_connected /\ job.store
  /\ pc' = "stage"
  /\ UNCHANGED <<message, slot, disk, mqtt_connected, world, upload_due, call, sent>>

PublishNever ==
  /\ pc = "publish"
  /\ ~time_valid \/ (~mqtt_connected /\ ~job.store)
  /\ Return
  /\ UNCHANGED <<message, slot, disk, mqtt_connected, world, upload_due, sent>>

(* A step of the filling of new_data_point, and the last one of it.        *)
Filling(from, to, filled) ==
  /\ pc = from /\ pc' = to
  /\ slot' = filled
  /\ UNCHANGED <<message, call, disk, mqtt_connected, world, upload_due, sent>>

(* Mutant for TypeOK: the number of the message for its second.            *)
StageNumber == Filling("stage", "copy", [slot EXCEPT !.time = job.message])

Stage == Filling("stage", "copy", [slot EXCEPT !.time = job.time])

Copy == Filling("copy", "copy_rest", [slot EXCEPT !.bytes = buffer])

CopyRest == Filling("copy_rest", "length", [slot EXCEPT !.bytes = @ \cup buffer])

StageLength == Filling("length", "flag", [slot EXCEPT !.as = job.message])

StageFlag ==
  /\ pc = "flag"
  /\ slot' = [slot EXCEPT !.saved = FALSE]
  /\ Return
  /\ UNCHANGED <<message, disk, mqtt_connected, world, upload_due, sent>>

Build ==
  \/ Body \/ PublishNow \/ PublishLater \/ PublishNever
  \/ Stage \/ Copy \/ CopyRest \/ StageLength \/ StageFlag

-----------------------------------------------------------------------------
(* igh_message_process_sd_data: open the file of the waiting message's     *)
(* second, write to its end what waits by then (and what the timer thread  *)
(* puts there meanwhile), and mark it saved; a message that cannot be      *)
(* written is given up.                                                    *)

NothingToSave ==
  /\ pc = "sd" /\ slot.saved
  /\ pc' = "upload"
  /\ UNCHANGED <<message, slot, disk, mqtt_connected, world, upload_due, call, sent>>

OpenFile ==
  /\ pc = "sd" /\ ~slot.saved /\ card_works
  /\ file' = slot.time
  /\ pc' = "write"
  /\ UNCHANGED <<message, slot, card, writing, mqtt_connected, world, upload_due, call, sent>>

WriteFile ==
  /\ pc = "write"
  /\ writing' = [as |-> slot.as, bytes |-> slot.bytes]
  /\ pc' = "rest"
  /\ UNCHANGED <<message, slot, card, file, mqtt_connected, world, upload_due, call, sent>>

(* What write() returns is not looked at.                                  *)
WriteRest ==
  /\ pc = "rest"
  /\ LET entry == [writing EXCEPT !.bytes = @ \cup slot.bytes]
     IN  card' = IF card_works THEN [card EXCEPT ![file] = Append(@, entry)] ELSE card
  /\ file' = 0 /\ writing' = NoEntry
  /\ pc' = "saved"
  /\ UNCHANGED <<message, slot, mqtt_connected, world, upload_due, call, sent>>

SaveFails ==
  /\ pc = "sd" /\ ~slot.saved /\ ~card_works
  /\ Report(FALSE, "saved")
  /\ UNCHANGED <<slot, disk, mqtt_connected, world, upload_due, sent>>

(* Mutant for StoredOnce: the message is not marked.                       *)
MarkSavedNot ==
  /\ pc = "saved"
  /\ pc' = "upload"
  /\ UNCHANGED <<message, slot, disk, mqtt_connected, world, upload_due, call, sent>>

MarkSaved ==
  /\ pc = "saved"
  /\ slot' = [slot EXCEPT !.saved = TRUE]
  /\ pc' = "upload"
  /\ UNCHANGED <<message, disk, mqtt_connected, world, upload_due, call, sent>>

(* Once a second, with the connection up in the last pass, the first       *)
(* message of one file is published and the file removed.  The files come  *)
(* in the order of the directory, which reuses the places of files it has  *)
(* lost: any file may be next, but for the entry that is skipped.  (Mutant *)
(* for CardDrains: a second entry is skipped.)                             *)

NextFilesSkippingTwo ==
  {second \in Files : \E first \in Files : first # second /\ Folder}

NextFiles == {second \in Files : Folder \/ \E first \in Files : first # second}

UploadDue == pc = "upload" /\ upload_due /\ mqtt_connected

Upload ==
  /\ UploadDue /\ card_works /\ link
  /\ \E second \in NextFiles :
        /\ file' = second
        /\ sent' = SentWith(Head(card[second]).as)
  /\ pc' = "remove"
  /\ UNCHANGED <<message, slot, card, writing, mqtt_connected, world, upload_due, call>>

(* The connection has gone: EVENT_MQTT_ERROR, and the file stays.  (Mutant *)
(* for ImplementsMailbox: what publishing returns is not looked at.)       *)
UploadFailsUnseen ==
  /\ UploadDue /\ card_works /\ ~link /\ NextFiles # {}
  /\ file' \in NextFiles
  /\ pc' = "remove"
  /\ UNCHANGED <<message, slot, card, writing, mqtt_connected, world, upload_due, call, sent>>

UploadFails ==
  /\ UploadDue /\ card_works /\ ~link /\ NextFiles # {}
  /\ upload_due' = FALSE
  /\ Report(TRUE, "others")
  /\ UNCHANGED <<slot, disk, mqtt_connected, world, sent>>

(* The card cannot be opened (and nothing is done), or goes between the    *)
(* search and the reading of a file.                                       *)
UploadUnreadable ==
  /\ UploadDue /\ ~card_works
  /\ upload_due' = FALSE
  /\ \/ pc' = "others" /\ UNCHANGED <<message, call>>
     \/ NextFiles # {} /\ Report(FALSE, "others")
  /\ UNCHANGED <<slot, disk, mqtt_connected, world, sent>>

NoUpload ==
  /\ pc = "upload"
  /\ \/ ~upload_due
     \/ ~mqtt_connected
     \/ card_works /\ NextFiles = {}
  /\ upload_due' = FALSE
  /\ pc' = "others"
  /\ UNCHANGED <<message, slot, disk, mqtt_connected, world, call, sent>>

Remove ==
  /\ pc = "remove"
  /\ upload_due' = FALSE /\ file' = 0
  /\ \/ /\ card_works
        /\ card' = [card EXCEPT ![file] = <<>>]
        /\ pc' = "others"
        /\ UNCHANGED <<message, call>>
     \/ /\ ~card_works
        /\ Report(FALSE, "others")
        /\ UNCHANGED card
  /\ UNCHANGED <<slot, writing, mqtt_connected, world, sent>>

SdCard ==
  \/ NothingToSave \/ OpenFile \/ WriteFile \/ WriteRest \/ SaveFails \/ MarkSaved
  \/ Upload \/ UploadFails \/ UploadUnreadable \/ NoUpload \/ Remove

-----------------------------------------------------------------------------
(* The rest of a pass: any handler, before igh_message_process_sd_data or  *)
(* after it, may send messages; igh_mqtt_setup tries to connect, and       *)
(* igh_mqtt_service looks at the connection and tries to restore it.       *)

MqttSetup ==
  /\ pc = "setup"
  /\ pc' = "sd"
  /\ link' \in {FALSE, TRUE}
  /\ UNCHANGED <<message, slot, disk, mqtt_connected, cellular, card_works,
                 time_valid, now, upload_due, call, sent>>

HandlerMessage ==
  /\ pc \in {"sd", "others"}
  /\ \E store \in BOOLEAN : Begin(store, pc)
  /\ UNCHANGED <<slot, disk, mqtt_connected, world, upload_due, sent>>

NoMessage ==
  /\ pc = "others"
  /\ pc' = "mqtt"
  /\ UNCHANGED <<message, slot, disk, mqtt_connected, world, upload_due, call, sent>>

MqttService ==
  /\ pc = "mqtt"
  /\ pc' = "sd"
  /\ mqtt_connected' = IF cellular THEN link ELSE mqtt_connected
  /\ link' \in IF cellular THEN {link, TRUE} ELSE {link}
  /\ UNCHANGED <<message, slot, disk, cellular, card_works, time_valid, now,
                 upload_due, call, sent>>

MainLoop == MqttSetup \/ Build \/ SdCard \/ HandlerMessage \/ NoMessage \/ MqttService

-----------------------------------------------------------------------------
(* The timer thread sends a message, from its head to the last byte.       *)
TimerMessage ==
  /\ next <= MessageBound
  /\ next' = next + 1
  /\ buffer' = {next}
  /\ \/ /\ time_valid /\ mqtt_connected
        /\ sent' = SentWith(next)
        /\ UNCHANGED slot
     \/ /\ time_valid /\ ~mqtt_connected
        /\ slot' = [saved |-> FALSE, time |-> now, as |-> next, bytes |-> {next}]
        /\ UNCHANGED sent
     \/ ~time_valid /\ UNCHANGED <<slot, sent>>
  /\ UNCHANGED <<call, disk, mqtt_connected, world, upload_due, pc>>

(* The world around: a second passes, the connection is lost, the network  *)
(* and the card come and go, the time is learnt.                           *)
Second ==
  /\ upload_due' = TRUE
  /\ now' \in {now, now + 1} \cap Times
  /\ UNCHANGED <<message, call, slot, disk, mqtt_connected, link, cellular,
                 card_works, time_valid, pc, sent>>

World ==
  /\ \/ link /\ link' = FALSE /\ UNCHANGED <<cellular, card_works, time_valid>>
     \/ cellular' = ~cellular /\ UNCHANGED <<link, card_works, time_valid>>
     \/ card_works' = ~card_works /\ UNCHANGED <<link, cellular, time_valid>>
     \/ ~time_valid /\ time_valid' = TRUE /\ UNCHANGED <<link, cellular, card_works>>
  /\ UNCHANGED <<message, slot, disk, mqtt_connected, now, upload_due, call, pc, sent>>

Restart ==
  /\ buffer' = {}
  /\ job' = NoJob
  /\ slot' = Emptied
  /\ mqtt_connected' = FALSE /\ link' = FALSE
  /\ time_valid' \in BOOLEAN
  /\ upload_due' = FALSE
  /\ pc' = "setup" /\ resume' = "sd"
  /\ file' = 0 /\ writing' = NoEntry
  /\ UNCHANGED <<next, card, cellular, card_works, now, sent>>

Next == MainLoop \/ TimerMessage \/ Second \/ World \/ Restart

Spec == Init /\ [][Next]_vars

(* The main loop goes round and seconds pass; no message is owed, and no   *)
(* connection, network or card.                                            *)
FairSpec == Spec /\ WF_vars(MainLoop) /\ WF_vars(Second)

-----------------------------------------------------------------------------
TypeOK ==
  /\ buffer \subseteq Numbers
  /\ job \in [message : Numbers, store : BOOLEAN, time : Times]
  /\ slot \in [saved : BOOLEAN, time : Times, as : Numbers, bytes : SUBSET Numbers]
  /\ card \in [Times -> Seq(Entries)]
  /\ file \in Times /\ writing \in Entries
  /\ mqtt_connected \in BOOLEAN /\ link \in BOOLEAN /\ cellular \in BOOLEAN
  /\ card_works \in BOOLEAN /\ time_valid \in BOOLEAN
  /\ now \in Times
  /\ upload_due \in BOOLEAN
  /\ pc \in Passing \cup Building /\ resume \in Passing
  /\ next \in 1 .. MessageBound + 1
  /\ sent \subseteq Numbers

(* The message a file was begun with leaves the card only after it has     *)
(* been handed to a connection found alive, whatever fails and wherever    *)
(* the power goes (igh_message_process_sd_data): the card is a mailbox.    *)
(* (A second message of the same second is not kept so: it goes with the   *)
(* first.)                                                                 *)
Promise == INSTANCE Mailbox WITH kept <- {Head(card[second]).as : second \in Files},
                                 sent <- sent, Contents <- Numbers

ImplementsMailbox == Promise!Spec

(* No message is written to the card twice, nor any byte of it, though the *)
(* timer thread may stage one while the main loop fills new_data_point,    *)
(* writes it to the card or marks it saved.                                *)
StoredOnce ==
  \A s, t \in Times : \A i \in DOMAIN card[s], j \in DOMAIN card[t] :
    \/ s = t /\ i = j
    \/ /\ card[s][i].as # card[t][j].as
       /\ card[s][i].bytes \cap card[t][j].bytes = {}

(* With the connection, the network and the card back for good, the card   *)
(* is emptied (the skipped entry being no file): nothing stored waits for  *)
(* ever behind a failure, a lost connection or a restart.                  *)
CardDrains ==
  <>[](link /\ cellular /\ card_works) => <>[](Files = {})
=============================================================================
