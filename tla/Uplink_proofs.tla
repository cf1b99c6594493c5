--------------------------- MODULE Uplink_proofs ----------------------------
(* Proofs about Uplink, for any number of messages and seconds, with and   *)
(* without an entry before the files.                                      *)
EXTENDS Uplink, TLAPS

(* The places that a message may return to.                                *)
Resumable == {"sd", "saved", "others"}

TypeInv == TypeOK /\ resume \in Resumable

LEMMA BeginTyped ==
  ASSUME TypeInv,
         NEW store \in BOOLEAN, NEW after \in Resumable,
         Begin(store, after)
  PROVE  /\ buffer' \subseteq Numbers
         /\ job' \in [message : Numbers, store : BOOLEAN, time : Times]
         /\ next' \in 1 .. MessageBound + 1
         /\ pc' = "body" /\ resume' = after
  BY UplinkAssumption DEF UplinkAssumption, TypeInv, TypeOK, Begin, Numbers

LEMMA ReportTyped ==
  ASSUME TypeInv,
         NEW store \in BOOLEAN, NEW after \in Resumable,
         Report(store, after)
  PROVE  /\ buffer' \subseteq Numbers
         /\ job' \in [message : Numbers, store : BOOLEAN, time : Times]
         /\ next' \in 1 .. MessageBound + 1
         /\ pc' \in {"body", after} /\ resume' \in Resumable
<1>1. CASE Begin(store, after)
  BY <1>1, BeginTyped
<1>2. CASE ~Begin(store, after)
  BY <1>2 DEF Report, TypeInv, TypeOK, message, call
<1> QED BY <1>1, <1>2

LEMMA ReturnTyped ==
  ASSUME TypeInv, Return
  PROVE  /\ job' \in [message : Numbers, store : BOOLEAN, time : Times]
         /\ pc' = resume /\ resume' \in Resumable
  BY UplinkAssumption DEF UplinkAssumption, Return, NoJob, Resumable, Times, Numbers

LEMMA TypeInvariant == Spec => []TypeInv
<1> USE UplinkAssumption DEF UplinkAssumption
<1>0. /\ 0 \in Times /\ 0 \in Numbers
      /\ Emptied \in [saved : BOOLEAN, time : Times, as : Numbers, bytes : SUBSET Numbers]
      /\ NoEntry \in Entries
  BY DEF Times, Numbers, Emptied, NoEntry, Entries
<1>1. Init => TypeInv
  <2> SUFFICES ASSUME Init PROVE TypeInv
    OBVIOUS
  <2>1. card \in [Times -> Seq(Entries)]
    BY DEF Init
  <2>2. slot \in [saved : BOOLEAN, time : Times, as : Numbers, bytes : SUBSET Numbers]
    BY <1>0 DEF Init
  <2>3. writing \in Entries /\ buffer \subseteq Numbers
    BY <1>0 DEF Init
  <2>4. job \in [message : Numbers, store : BOOLEAN, time : Times]
    BY <1>0 DEF Init, NoJob
  <2>5. /\ file \in Times /\ now \in Times /\ next \in 1 .. MessageBound + 1
        /\ sent \subseteq Numbers
        /\ pc \in Passing \cup Building /\ resume \in Passing /\ resume \in Resumable
    BY <1>0 DEF Init, Passing, Building, Resumable
  <2>6. /\ mqtt_connected \in BOOLEAN /\ link \in BOOLEAN /\ cellular \in BOOLEAN
        /\ card_works \in BOOLEAN /\ time_valid \in BOOLEAN /\ upload_due \in BOOLEAN
    BY Zenon DEF Init
  <2> QED
    BY <2>1, <2>2, <2>3, <2>4, <2>5, <2>6, Zenon DEF TypeInv, TypeOK
<1>2. TypeInv /\ [Next]_vars => TypeInv'
  <2> SUFFICES ASSUME TypeInv, [Next]_vars PROVE TypeInv'
    OBVIOUS
  <2> USE DEF TypeInv, TypeOK, Passing, Building, Resumable
  <2>1. CASE Body
    <3>1. buffer' \subseteq Numbers
      BY <2>1 DEF Body
    <3> QED BY <2>1, <3>1, ReturnTyped DEF Body, call, disk, world
  <2>2. \A number \in Numbers : SentWith(number) \subseteq Numbers
    BY DEF SentWith
  <2>3. CASE PublishNow
    BY <2>2, <2>3, ReturnTyped DEF PublishNow, message, disk, world
  <2>4. CASE PublishLater
    BY <2>4 DEF PublishLater, message, call, disk, world
  <2>5. CASE PublishNever
    BY <2>5, ReturnTyped DEF PublishNever, message, disk, world
  <2>6. CASE Stage \/ Copy \/ CopyRest \/ StageLength
    <3>1. slot' \in [saved : BOOLEAN, time : Times, as : Numbers, bytes : SUBSET Numbers]
      BY <2>6 DEF Filling, Stage, Copy, CopyRest, StageLength
    <3> QED BY <2>6, <3>1 DEF Filling, Stage, Copy, CopyRest, StageLength, message, call, disk, world
  <2>7. CASE StageFlag
    BY <2>7, ReturnTyped DEF StageFlag, message, disk, world
  <2>8. CASE NothingToSave
    BY <2>8 DEF NothingToSave, message, call, disk, world
  <2>9. CASE OpenFile
    BY <2>9 DEF OpenFile, message, call, disk, world
  <2>10. CASE WriteFile
    BY <2>10 DEF WriteFile, Entries, message, call, disk, world
  <2>27. CASE WriteRest
    <3>1. [writing EXCEPT !.bytes = @ \cup slot.bytes] \in Entries
      BY DEF Entries
    <3>2. card' \in [Times -> Seq(Entries)]
      BY <2>27, <3>1 DEF WriteRest
    <3> QED BY <1>0, <2>27, <3>2 DEF WriteRest, message, call, disk, world
  <2>11. CASE SaveFails
    BY <2>11, ReportTyped DEF SaveFails, disk, world
  <2>12. CASE MarkSaved
    BY <2>12 DEF MarkSaved, message, call, disk, world
  <2>13. CASE Upload
    <3>1. PICK second \in NextFiles :
            file' = second /\ sent' = SentWith(Head(card[second]).as)
      BY <2>13 DEF Upload
    <3>2. second \in Times /\ Head(card[second]) \in Entries
      BY <3>1 DEF NextFiles, Files
    <3>3. Head(card[second]).as \in Numbers
      BY <3>2 DEF Entries
    <3> QED BY <3>3, <2>2, <2>13, <3>1, <3>2 DEF Upload, message, call, disk, world
  <2>14. CASE UploadFails
    BY <2>14, ReportTyped DEF UploadFails, disk, world
  <2>15. CASE UploadUnreadable
    BY <2>15, ReportTyped DEF UploadUnreadable, message, call, disk, world
  <2>16. CASE NoUpload
    BY <2>16 DEF NoUpload, message, call, disk, world
  <2>17. CASE Remove
    <3>1. [card EXCEPT ![file] = <<>>] \in [Times -> Seq(Entries)]
      OBVIOUS
    <3> QED BY <1>0, <2>17, <3>1, ReportTyped DEF Remove, message, call, disk, world
  <2>18. CASE HandlerMessage
    BY <2>18, BeginTyped DEF HandlerMessage, disk, world
  <2>19. CASE NoMessage
    BY <2>19 DEF NoMessage, message, call, disk, world
  <2>20. CASE MqttSetup
    BY <2>20 DEF MqttSetup, message, call, disk
  <2>21. CASE MqttService
    BY <2>21 DEF MqttService, message, call, disk
  <2>22. CASE TimerMessage
    <3>1. next \in Numbers /\ next + 1 \in 1 .. MessageBound + 1
      BY <2>22 DEF TimerMessage, Numbers
    <3>2. slot' \in [saved : BOOLEAN, time : Times, as : Numbers, bytes : SUBSET Numbers]
      <4>1. [saved |-> FALSE, time |-> now, as |-> next, bytes |-> {next}]
              \in [saved : BOOLEAN, time : Times, as : Numbers, bytes : SUBSET Numbers]
        BY <3>1
      <4>2. \/ slot' = slot
            \/ slot' = [saved |-> FALSE, time |-> now, as |-> next, bytes |-> {next}]
        BY <2>22 DEF TimerMessage
      <4> QED BY <4>1, <4>2
    <3>3. sent' \subseteq Numbers
      BY <2>2, <2>22, <3>1 DEF TimerMessage
    <3> QED BY <2>22, <3>1, <3>2, <3>3 DEF TimerMessage, call, disk, world
  <2>23. CASE Second
    BY <2>23 DEF Second, message, call, disk
  <2>24. CASE World
    <3>1. /\ link' \in BOOLEAN /\ cellular' \in BOOLEAN
          /\ card_works' \in BOOLEAN /\ time_valid' \in BOOLEAN
      BY <2>24, Zenon DEF World
    <3> QED BY <2>24, <3>1 DEF World, message, call, disk
  <2>25. CASE Restart
    BY <1>0, <2>25 DEF Restart, NoJob
  <2>26. CASE UNCHANGED vars
    BY <2>26 DEF vars, message, call, disk, world
  <2> QED
    BY <2>1, <2>3, <2>4, <2>5, <2>6, <2>7, <2>8, <2>9, <2>10, <2>11, <2>12, <2>13, <2>14,
       <2>15, <2>16, <2>17, <2>18, <2>19, <2>20, <2>21, <2>22, <2>23, <2>24, <2>25, <2>26,
       <2>27 DEF Next, MainLoop, Build, SdCard
<1> QED BY <1>1, <1>2, PTL DEF Spec

(* The variables of the uplink keep their types.                           *)
THEOREM TypeCorrect == Spec => []TypeOK
BY TypeInvariant, PTL DEF TypeInv

-----------------------------------------------------------------------------
(* What a removal relies on: the file was published, and nothing has       *)
(* touched it since.                                                       *)
UploadedIsSent ==
  pc = "remove" => /\ file \in Files
                   /\ Head(card[file]).as \in sent

LEMMA UploadedInvariant == Spec => []UploadedIsSent
<1>1. Init => UploadedIsSent
  BY DEF Init, UploadedIsSent
<1>2. TypeInv /\ UploadedIsSent /\ [Next]_vars => UploadedIsSent'
  <2> SUFFICES ASSUME TypeInv, UploadedIsSent, [Next]_vars, pc' = "remove"
               PROVE  file' \in Files' /\ Head(card'[file']).as \in sent'
    BY DEF UploadedIsSent
  <2>1. CASE Upload
    <3>1. link /\ UNCHANGED card
      BY <2>1 DEF Upload
    <3>2. PICK second \in NextFiles :
            file' = second /\ sent' = SentWith(Head(card[second]).as)
      BY <2>1 DEF Upload
    <3>3. second \in Files
      BY <3>2 DEF NextFiles
    <3> QED BY <3>1, <3>2, <3>3 DEF SentWith, Files
  <2>2. CASE pc = "remove" /\ UNCHANGED <<card, file>> /\ sent \subseteq sent'
    BY <2>2 DEF UploadedIsSent, Files
  <2>3. Upload \/ (pc = "remove" /\ UNCHANGED <<card, file>> /\ sent \subseteq sent')
    <3>1. \A number : sent \subseteq SentWith(number)
      BY DEF SentWith
    <3>2. CASE Build
      BY <3>2 DEF Build, Body, PublishNow, PublishLater, PublishNever, Filling, Stage, Copy,
                  CopyRest, StageLength, StageFlag, Return, disk, TypeInv, Resumable
    <3>3. CASE SdCard
      BY <3>3 DEF SdCard, NothingToSave, OpenFile, WriteFile, WriteRest, SaveFails,
                  MarkSaved, UploadFails, UploadUnreadable, NoUpload, Remove, Report, Begin, disk
    <3>4. CASE HandlerMessage \/ NoMessage \/ MqttSetup \/ MqttService
      BY <3>4 DEF HandlerMessage, NoMessage, MqttSetup, MqttService, Begin, disk
    <3>5. CASE TimerMessage
      BY <3>1, <3>5 DEF TimerMessage, disk
    <3>6. CASE Second \/ World
      BY <3>6 DEF Second, World, disk
    <3>7. CASE Restart
      BY <3>7 DEF Restart
    <3>8. CASE UNCHANGED vars
      BY <3>8 DEF vars, disk
    <3> QED BY <3>2, <3>3, <3>4, <3>5, <3>6, <3>7, <3>8 DEF Next, MainLoop
  <2> QED BY <2>1, <2>2, <2>3
<1> QED BY <1>1, <1>2, TypeInvariant, PTL DEF Spec

-----------------------------------------------------------------------------
Kept == {Head(card[second]).as : second \in Files}

LEMMA SendStep ==
  ASSUME NEW number \in Numbers, sent' = SentWith(number), UNCHANGED card
  PROVE  [Promise!Next]_<<Kept, sent>>
<1>1. Kept' = Kept
  BY DEF Kept, Files
<1>2. CASE link
  <2>1. Promise!Send(number)
    BY <1>1, <1>2 DEF SentWith, Promise!Send, Kept
  <2> QED BY <2>1 DEF Promise!Next
<1>3. CASE ~link
  BY <1>1, <1>3 DEF SentWith
<1> QED BY <1>2, <1>3

LEMMA KeepStep ==
  ASSUME NEW number \in Numbers, Kept' = Kept \cup {number}, UNCHANGED sent
  PROVE  Promise!Next
<1>1. Promise!Keep(number)
  BY DEF Promise!Keep, Kept
<1> QED BY <1>1 DEF Promise!Next

LEMMA ForgetStep ==
  ASSUME NEW number \in Numbers, number \in Kept \cap sent,
         Kept' = Kept \ {number}, UNCHANGED sent
  PROVE  Promise!Next
<1>1. Promise!Forget(number)
  BY DEF Promise!Forget, Kept
<1> QED BY <1>1 DEF Promise!Next

(* Every step of the uplink keeps, sends or forgets one message of the     *)
(* mailbox, or leaves it alone.                                            *)
THEOREM UplinkIsMailbox == Spec => ImplementsMailbox
<1> USE DEF Kept
<1>1. Init => Promise!Init
  BY DEF Init, Files, Promise!Init
<1>2. TypeInv /\ UploadedIsSent /\ [Next]_vars => [Promise!Next]_<<Kept, sent>>
  <2> SUFFICES ASSUME TypeInv, UploadedIsSent, [Next]_vars
               PROVE  [Promise!Next]_<<Kept, sent>>
    OBVIOUS
  <2>1. CASE UNCHANGED <<card, sent>>
    BY <2>1 DEF Files
  <2>2. CASE PublishNow
    BY <2>2, SendStep DEF PublishNow, disk, TypeInv, TypeOK
  <2>3. CASE Upload
    <3>1. PICK second \in NextFiles :
            sent' = SentWith(Head(card[second]).as) /\ UNCHANGED card
      BY <2>3 DEF Upload
    <3>2. Head(card[second]) \in Entries
      BY <3>1 DEF NextFiles, Files, TypeInv, TypeOK
    <3>3. Head(card[second]).as \in Numbers
      BY <3>2 DEF Entries
    <3> QED BY <3>1, <3>3, SendStep
  <2>4. CASE TimerMessage
    <3>1. next \in Numbers
      BY <2>4, UplinkAssumption DEF UplinkAssumption, TimerMessage, TypeInv, TypeOK, Numbers
    <3>2. UNCHANGED card /\ (UNCHANGED sent \/ sent' = SentWith(next))
      BY <2>4 DEF TimerMessage, disk
    <3> QED BY <2>1, <3>1, <3>2, SendStep
  <2>5. CASE WriteRest /\ card_works
    <3> DEFINE entry == [writing EXCEPT !.bytes = @ \cup slot.bytes]
    <3>1. card \in [Times -> Seq(Entries)] /\ file \in Times /\ entry \in Entries
      BY DEF TypeInv, TypeOK, Entries
    <3>2. card' = [card EXCEPT ![file] = Append(@, entry)] /\ UNCHANGED sent
      BY <2>5 DEF WriteRest
    <3>3. Files' = Files \cup {file}
      BY <3>1, <3>2 DEF Files
    <3>4. \A second \in Files : Head(card'[second]) = Head(card[second])
      BY <3>1, <3>2 DEF Files
    <3>5. CASE file \in Files
      <4>1. Kept' = Kept
        BY <3>3, <3>4, <3>5
      <4> QED BY <3>2, <4>1
    <3>6. CASE file \notin Files
      <4>1. Head(card'[file]) = entry
        BY <3>1, <3>2, <3>6 DEF Files
      <4>2. Kept' = Kept \cup {entry.as}
        BY <3>3, <3>4, <4>1
      <4>3. entry.as \in Numbers
        BY <3>1 DEF Entries
      <4> QED BY <3>2, <4>2, <4>3, KeepStep
    <3> QED BY <3>5, <3>6
  <2>6. CASE Remove /\ card_works
    <3> DEFINE number == Head(card[file]).as
    <3>1. file \in Files /\ number \in sent /\ UNCHANGED sent
      BY <2>6 DEF Remove, UploadedIsSent
    <3>2. card \in [Times -> Seq(Entries)] /\ number \in Numbers
      BY <3>1 DEF TypeInv, TypeOK
    <3>3. card' = [card EXCEPT ![file] = <<>>]
      BY <2>6 DEF Remove
    <3>4. Files' = Files \ {file}
      BY <3>2, <3>3 DEF Files
    <3>5. Kept' = {Head(card[second]).as : second \in Files \ {file}}
      BY <3>2, <3>3, <3>4 DEF Files
    <3>6. CASE \E other \in Files \ {file} : Head(card[other]).as = number
      <4>1. Kept' = Kept
        BY <3>1, <3>5, <3>6
      <4> QED BY <3>1, <4>1
    <3>7. CASE ~ \E other \in Files \ {file} : Head(card[other]).as = number
      <4>1. Kept' = Kept \ {number} /\ number \in Kept
        BY <3>1, <3>5, <3>7
      <4> QED BY <3>1, <3>2, <4>1, ForgetStep
    <3> QED BY <3>6, <3>7
  <2>7. \/ UNCHANGED <<card, sent>>
        \/ PublishNow \/ Upload \/ TimerMessage
        \/ WriteRest /\ card_works
        \/ Remove /\ card_works
    <3>1. CASE Build
      BY <3>1 DEF Build, Body, PublishLater, PublishNever, Filling, Stage, Copy, CopyRest,
                  StageLength, StageFlag, disk
    <3>2. CASE SdCard
      BY <3>2 DEF SdCard, NothingToSave, OpenFile, WriteFile, WriteRest, SaveFails, MarkSaved,
                  UploadFails, UploadUnreadable, NoUpload, Remove, disk
    <3>3. CASE HandlerMessage \/ NoMessage \/ MqttSetup \/ MqttService
      BY <3>3 DEF HandlerMessage, NoMessage, MqttSetup, MqttService, disk
    <3>4. CASE Second \/ World \/ Restart
      BY <3>4 DEF Second, World, Restart, disk
    <3>5. CASE UNCHANGED vars
      BY <3>5 DEF vars, disk
    <3> QED BY <3>1, <3>2, <3>3, <3>4, <3>5 DEF Next, MainLoop
  <2> QED BY <2>1, <2>2, <2>3, <2>4, <2>5, <2>6, <2>7
<1> QED BY <1>1, <1>2, TypeInvariant, UploadedInvariant, PTL
        DEF Spec, ImplementsMailbox, Promise!Spec, Kept

-----------------------------------------------------------------------------
(* Why nothing is stored twice.  Numbers grow, and nothing is written to   *)
(* the card while a message is built: what the buffer holds by the time it *)
(* is copied, whoever filled it, is younger than all that is on the card.  *)
Below(entry, number) == entry.as < number /\ \A m \in entry.bytes : m < number

Apart(entry, other) == entry.as # other.as /\ entry.bytes \cap other.bytes = {}

NotStored(entry) == \A s \in Times : \A i \in DOMAIN card[s] : Apart(card[s][i], entry)

Numbered ==
  /\ \A s \in Times : \A i \in DOMAIN card[s] : Below(card[s][i], next)
  /\ Below(slot, next) /\ Below(writing, next)
  /\ \A m \in buffer : m < next
  /\ job.message < next

Younger ==
  pc \in Building =>
    /\ \A s \in Times : \A i \in DOMAIN card[s] : Below(card[s][i], job.message)
    /\ \A m \in buffer : job.message <= m
    /\ pc \in {"copy_rest", "length", "flag"} => \A m \in slot.bytes : job.message <= m
    /\ pc = "flag" => job.message <= slot.as

Waiting ==
  /\ ~slot.saved /\ pc # "saved" => NotStored(slot)
  /\ pc \in {"write", "rest"} => ~slot.saved
  /\ pc = "rest" => NotStored(writing)

OnceInv == Numbered /\ Younger /\ Waiting /\ StoredOnce

(* The steps that change neither the card nor anything of a message under  *)
(* way.                                                                    *)
LEMMA OnceUntouched ==
  ASSUME TypeInv, OnceInv, UNCHANGED <<buffer, next, slot, card, writing>>,
         \/ pc' = pc /\ job' = job
         \/ pc = "publish" /\ pc' = "stage" /\ job' = job
         \/ pc' \in {"setup", "sd", "upload", "remove", "others", "mqtt"}
            /\ pc # "saved" /\ (job' = job \/ job' = NoJob)
         \/ pc' = "saved" /\ job' \in {job, NoJob}
  PROVE  OnceInv'
<1> USE DEF TypeInv, TypeOK
<1>1. job'.message < next'
  BY DEF OnceInv, Numbered, NoJob
<1>2. Numbered'
  BY <1>1 DEF OnceInv, Numbered, Below
<1>3. Younger'
  BY DEF OnceInv, Younger, Building, Below
<1>4. Waiting'
  BY DEF OnceInv, Waiting, NotStored, Apart, Building
<1>5. StoredOnce'
  BY DEF OnceInv, StoredOnce
<1> QED BY <1>2, <1>3, <1>4, <1>5 DEF OnceInv

LEMMA BelowMore ==
  ASSUME TypeInv
  PROVE  \A entry \in Entries : Below(entry, next) => Below(entry, next + 1)
BY DEF TypeInv, TypeOK, Below, Entries, Numbers

(* A message is begun: all numbers so far are smaller than its own.        *)
LEMMA OnceBegun ==
  ASSUME TypeInv, OnceInv, pc # "saved", UNCHANGED <<slot, card, writing>>,
         NEW store \in BOOLEAN, NEW after \in Resumable, Begin(store, after)
  PROVE  OnceInv'
<1> USE DEF TypeInv, TypeOK
<1>1. /\ buffer' = {next}
      /\ job' = [message |-> next, store |-> store, time |-> now]
      /\ next' = next + 1 /\ pc' = "body"
  BY DEF Begin
<1>2. Numbered'
  <2>1. \A s \in Times : \A i \in DOMAIN card[s] : card[s][i] \in Entries
    OBVIOUS
  <2>2. Below(slot, next + 1)
    BY DEF OnceInv, Numbered, Below, Numbers
  <2> QED BY <1>1, <2>1, <2>2, BelowMore DEF OnceInv, Numbered
<1>3. Younger'
  BY <1>1 DEF OnceInv, Numbered, Younger
<1>4. Waiting'
  BY <1>1 DEF OnceInv, Waiting, NotStored
<1>5. StoredOnce'
  BY DEF OnceInv, StoredOnce
<1> QED BY <1>2, <1>3, <1>4, <1>5 DEF OnceInv

LEMMA OnceReported ==
  ASSUME TypeInv, OnceInv, pc \notin Building \cup {"saved"}, UNCHANGED <<slot, card, writing>>,
         NEW store \in BOOLEAN, NEW after \in {"saved", "others"}, Report(store, after)
  PROVE  OnceInv'
<1>1. CASE Begin(store, after)
  BY <1>1, OnceBegun DEF Resumable
<1>2. CASE ~Begin(store, after)
  BY <1>2, OnceUntouched DEF Report, message, call
<1> QED BY <1>1, <1>2

(* A removal takes entries away and brings none.                           *)
LEMMA OnceRemoved ==
  ASSUME TypeInv, OnceInv, pc = "remove", UNCHANGED <<message, call, slot, writing>>,
         card' = [card EXCEPT ![file] = <<>>], pc' = "others"
  PROVE  OnceInv'
<1> USE DEF TypeInv, TypeOK
<1>1. \A s \in Times : \A i \in DOMAIN card'[s] : i \in DOMAIN card[s] /\ card'[s][i] = card[s][i]
  OBVIOUS
<1>2. Numbered'
  BY <1>1 DEF OnceInv, Numbered, message, call
<1>3. Younger'
  BY DEF Younger, Building
<1>4. Waiting'
  BY <1>1 DEF OnceInv, Waiting, NotStored
<1>5. StoredOnce'
  BY <1>1 DEF OnceInv, StoredOnce
<1> QED BY <1>2, <1>3, <1>4, <1>5 DEF OnceInv

(* A write adds an entry that shares nothing with what is on the card.     *)
LEMMA OnceWritten ==
  ASSUME TypeInv, OnceInv, WriteRest
  PROVE  OnceInv'
<1> USE DEF TypeInv, TypeOK
<1> DEFINE entry == [writing EXCEPT !.bytes = @ \cup slot.bytes]
           last  == Len(card[file]) + 1
<1>1. /\ entry.as = writing.as /\ entry.bytes = writing.bytes \cup slot.bytes
      /\ entry \in Entries
  BY DEF Entries
<1>2. NotStored(entry)
  BY <1>1 DEF WriteRest, OnceInv, Waiting, NotStored, Apart
<1>3. Below(entry, next)
  BY <1>1 DEF OnceInv, Numbered, Below
<1>4. \A s \in Times : \A i \in DOMAIN card'[s] :
        \/ i \in DOMAIN card[s] /\ card'[s][i] = card[s][i]
        \/ s = file /\ i = last /\ card'[s][i] = entry
  BY <1>1 DEF WriteRest
<1>5. UNCHANGED <<buffer, next, slot, job>> /\ writing' = NoEntry /\ pc' = "saved"
  BY DEF WriteRest, message, call
<1> HIDE DEF entry, last
<1>6. Numbered'
  <2>1. Below(NoEntry, next)
    BY DEF Below, NoEntry
  <2> QED BY <1>3, <1>4, <1>5, <2>1 DEF OnceInv, Numbered, Below
<1>7. Younger' /\ Waiting'
  BY <1>5 DEF Younger, Waiting, Building
<1>8. StoredOnce'
  <2> SUFFICES ASSUME NEW s \in Times, NEW t \in Times,
                      NEW i \in DOMAIN card'[s], NEW j \in DOMAIN card'[t],
                      ~(s = t /\ i = j)
               PROVE  Apart(card'[s][i], card'[t][j])
    BY DEF StoredOnce, Apart
  <2>1. CASE i \in DOMAIN card[s] /\ card'[s][i] = card[s][i]
    <3>1. CASE j \in DOMAIN card[t] /\ card'[t][j] = card[t][j]
      BY <2>1, <3>1 DEF OnceInv, StoredOnce, Apart
    <3>2. CASE card'[t][j] = entry
      BY <1>2, <2>1, <3>2 DEF NotStored
    <3> QED BY <1>4, <3>1, <3>2
  <2>2. CASE s = file /\ i = last /\ card'[s][i] = entry
    <3>1. CASE j \in DOMAIN card[t] /\ card'[t][j] = card[t][j]
      <4>1. Apart(card[t][j], entry)
        BY <1>2, <3>1 DEF NotStored
      <4> QED BY <2>2, <3>1, <4>1 DEF Apart
    <3>2. CASE t = file /\ j = last
      BY <2>2, <3>2
    <3> QED BY <1>4, <3>1, <3>2
  <2> QED BY <1>4, <2>1, <2>2
<1> QED BY <1>6, <1>7, <1>8 DEF OnceInv

(* The steps that fill new_data_point from the buffer.                     *)
LEMMA OnceFilled ==
  ASSUME TypeInv, OnceInv, Stage \/ Copy \/ CopyRest \/ StageLength \/ StageFlag
  PROVE  OnceInv'
<1> USE DEF TypeInv, TypeOK
<1>1. UNCHANGED <<buffer, next, card, writing>> /\ (job' = job \/ job' = NoJob)
  BY DEF Filling, Stage, Copy, CopyRest, StageLength, StageFlag, message, call, disk, Return
<1>2. pc \in Building /\ job.message \in Int /\ job.message < next /\ next \in Int
  BY DEF Filling, Stage, Copy, CopyRest, StageLength, StageFlag, Building, Numbers, OnceInv,
         Numbered
<1>3. /\ \A m \in slot'.bytes : m \in slot.bytes \/ m \in buffer
      /\ slot'.as = slot.as \/ slot'.as = job.message
  BY DEF Filling, Stage, Copy, CopyRest, StageLength, StageFlag
<1>4. Numbered'
  BY <1>1, <1>2, <1>3 DEF OnceInv, Numbered, Below, NoJob
<1>5. StoredOnce'
  BY <1>1 DEF OnceInv, StoredOnce
<1>6. CASE Stage
  <2>1. /\ slot'.as = slot.as /\ slot'.bytes = slot.bytes /\ slot'.saved = slot.saved
        /\ job' = job /\ pc' = "copy" /\ pc = "stage"
    BY <1>6 DEF Stage, Filling, call
  <2>2. Younger'
    BY <1>1, <1>2, <2>1 DEF OnceInv, Younger, Below
  <2>3. Waiting'
    BY <1>1, <2>1 DEF OnceInv, Waiting, NotStored, Apart
  <2> QED BY <1>4, <1>5, <2>2, <2>3 DEF OnceInv
<1>7. CASE Copy \/ CopyRest \/ StageLength
  <2>1. /\ slot'.saved = slot.saved /\ job' = job
        /\ pc' \in {"copy_rest", "length", "flag"}
        /\ pc' = "flag" => slot'.as = job.message
    BY <1>7 DEF Copy, CopyRest, StageLength, Filling, call
  <2>2. \A m \in slot'.bytes : job.message <= m
    BY <1>7 DEF Copy, CopyRest, StageLength, Filling, OnceInv, Younger, Building
  <2>3. Younger'
    BY <1>1, <1>2, <2>1, <2>2 DEF OnceInv, Younger, Below
  <2>4. ~slot.saved => NotStored(slot')
    <3> SUFFICES ASSUME ~slot.saved, NEW s \in Times, NEW i \in DOMAIN card[s]
                 PROVE  Apart(card[s][i], slot')
      BY DEF NotStored
    <3>1. Below(card[s][i], job.message) /\ card[s][i] \in Entries
      BY <1>2 DEF OnceInv, Younger
    <3>2. card[s][i].as # slot.as
      BY <1>2 DEF OnceInv, Waiting, NotStored, Apart, Building
    <3>3. card[s][i].as # job.message
      BY <1>2, <3>1 DEF Below, Entries, Numbers
    <3>4. \A m \in card[s][i].bytes : m \notin slot'.bytes
      BY <1>2, <2>2, <3>1 DEF Below, Entries, Numbers
    <3> QED BY <1>3, <3>2, <3>3, <3>4 DEF Apart
  <2>5. Waiting'
    BY <1>1, <2>1, <2>4 DEF Waiting, NotStored
  <2> QED BY <1>4, <1>5, <2>3, <2>5 DEF OnceInv
<1>8. CASE StageFlag
  <2>1. slot'.as = slot.as /\ slot'.bytes = slot.bytes /\ pc' = resume /\ pc = "flag"
    BY <1>8 DEF StageFlag, Return
  <2>2. NotStored(slot)
    <3> SUFFICES ASSUME NEW s \in Times, NEW i \in DOMAIN card[s]
                 PROVE  Apart(card[s][i], slot)
      BY DEF NotStored
    <3>1. Below(card[s][i], job.message) /\ card[s][i] \in Entries
      BY <1>2 DEF OnceInv, Younger
    <3>2. job.message <= slot.as /\ \A m \in slot.bytes : job.message <= m
      BY <1>2, <2>1 DEF OnceInv, Younger
    <3> QED BY <1>2, <3>1, <3>2 DEF Below, Apart, Entries, Numbers
  <2>3. Younger' /\ Waiting'
    BY <1>1, <2>1, <2>2 DEF Younger, Waiting, NotStored, Apart, Resumable, Building
  <2> QED BY <1>4, <1>5, <2>3 DEF OnceInv
<1> QED BY <1>6, <1>7, <1>8

LEMMA OnceTimer ==
  ASSUME TypeInv, OnceInv, TimerMessage
  PROVE  OnceInv'
<1> USE DEF TypeInv, TypeOK
<1>1. /\ next' = next + 1 /\ buffer' = {next} /\ UNCHANGED <<card, writing, job, pc>>
      /\ \/ slot' = slot
         \/ ~slot'.saved /\ slot'.as = next /\ slot'.bytes = {next}
  BY DEF TimerMessage, call, disk
<1>2. job.message < next /\ job.message \in Int /\ next \in Int
  BY DEF OnceInv, Numbered, Numbers
<1>3. Numbered'
  <2>1. \A s \in Times : \A i \in DOMAIN card[s] : card[s][i] \in Entries
    OBVIOUS
  <2>2. Below(slot, next + 1) /\ Below(writing, next + 1)
    BY BelowMore DEF OnceInv, Numbered, Below, Numbers
  <2>3. Below(slot', next + 1)
    BY <1>1, <2>2 DEF Below
  <2> QED BY <1>1, <1>2, <2>1, <2>2, <2>3, BelowMore DEF OnceInv, Numbered
<1>4. Younger'
  BY <1>1, <1>2 DEF OnceInv, Younger, Below
<1>5. Waiting'
  <2>1. \A entry : entry.as = next /\ entry.bytes = {next} => NotStored(entry)
    BY DEF OnceInv, Numbered, NotStored, Apart, Below
  <2>2. CASE slot' = slot
    BY <1>1, <2>2 DEF OnceInv, Waiting, NotStored
  <2>3. CASE ~slot'.saved /\ slot'.as = next /\ slot'.bytes = {next}
    <3>1. NotStored(slot')
      BY <2>1, <2>3
    <3> QED BY <1>1, <2>3, <3>1 DEF OnceInv, Waiting, NotStored
  <2> QED BY <1>1, <2>2, <2>3
<1> QED BY <1>1, <1>3, <1>4, <1>5 DEF OnceInv, StoredOnce

LEMMA OnceHolds == Spec => []OnceInv
<1>1. Init => OnceInv
  <2> SUFFICES ASSUME Init PROVE OnceInv
    OBVIOUS
  <2>1. \A s \in Times : DOMAIN card[s] = {}
    BY DEF Init
  <2> QED
    BY <2>1 DEF Init, OnceInv, Numbered, Younger, Waiting, StoredOnce, Below, Building,
                Emptied, NoEntry, NoJob
<1>2. TypeInv /\ OnceInv /\ [Next]_vars => OnceInv'
  <2> SUFFICES ASSUME TypeInv, OnceInv, [Next]_vars PROVE OnceInv'
    OBVIOUS
  <2> USE DEF TypeInv, TypeOK, Building, Passing, Resumable
  <2>1. CASE MqttSetup \/ NothingToSave \/ NoUpload \/ NoMessage \/ MqttService
    BY <2>1, OnceUntouched
       DEF MqttSetup, NothingToSave, NoUpload, NoMessage, MqttService, message, call, disk
  <2>2. CASE PublishNow \/ PublishNever
    BY <2>2, OnceUntouched DEF PublishNow, PublishNever, Return, message, disk
  <2>3. CASE PublishLater \/ Upload
    BY <2>3, OnceUntouched DEF PublishLater, Upload, UploadDue, message, call, disk
  <2>4. CASE Second \/ World \/ UNCHANGED vars
    BY <2>4, OnceUntouched DEF Second, World, vars, message, call, disk
  <2>5. CASE HandlerMessage
    BY <2>5, OnceBegun DEF HandlerMessage, disk
  <2>6. CASE SaveFails \/ UploadFails
    BY <2>6, OnceReported DEF SaveFails, UploadFails, UploadDue, disk
  <2>7. CASE UploadUnreadable
    <3>1. CASE Report(FALSE, "others")
      BY <2>7, <3>1, OnceReported DEF UploadUnreadable, UploadDue, disk
    <3>2. CASE pc' = "others" /\ UNCHANGED <<message, call>>
      BY <2>7, <3>2, OnceUntouched DEF UploadUnreadable, UploadDue, message, call, disk
    <3> QED BY <2>7, <3>1, <3>2 DEF UploadUnreadable
  <2>8. CASE Remove
    BY <2>8, OnceReported, OnceRemoved DEF Remove
  <2>9. CASE OpenFile
    BY <2>9 DEF OpenFile, OnceInv, Numbered, Younger, Waiting, StoredOnce, NotStored, message, call
  <2>10. CASE WriteFile
    <3>1. /\ writing'.as = slot.as /\ writing'.bytes = slot.bytes
          /\ UNCHANGED <<buffer, next, slot, card, job>> /\ pc = "write" /\ pc' = "rest"
      BY <2>10 DEF WriteFile, message, call
    <3>2. Numbered' /\ Younger'
      BY <3>1 DEF OnceInv, Numbered, Younger, Below
    <3>3. Waiting'
      BY <3>1 DEF OnceInv, Waiting, NotStored, Apart
    <3> QED BY <3>1, <3>2, <3>3 DEF OnceInv, StoredOnce
  <2>11. CASE WriteRest
    BY <2>11, OnceWritten
  <2>12. CASE MarkSaved
    <3>1. /\ slot'.as = slot.as /\ slot'.bytes = slot.bytes /\ slot'.saved
          /\ UNCHANGED <<buffer, next, writing, card, job>> /\ pc' = "upload"
      BY <2>12 DEF MarkSaved, message, call, disk
    <3> QED BY <3>1 DEF OnceInv, Numbered, Younger, Waiting, StoredOnce, Below
  <2>13. CASE Body
    <3>1. UNCHANGED <<next, slot, card, writing>> /\ pc = "body"
      BY <2>13 DEF Body, disk
    <3>2. job.message \in Int /\ job.message < next /\ next \in Int
      BY DEF OnceInv, Numbered, Numbers
    <3>3. CASE Return /\ buffer' = {}
      BY <3>1, <3>2, <3>3
         DEF OnceInv, Numbered, Younger, Waiting, StoredOnce, NotStored, Return, NoJob, Below
    <3>4. CASE buffer' = buffer \cup {job.message} /\ pc' = "publish" /\ UNCHANGED call
      <4>1. Numbered' /\ Younger'
        BY <3>1, <3>2, <3>4 DEF OnceInv, Numbered, Younger, call, Below
      <4> QED
        BY <3>1, <3>4, <4>1 DEF OnceInv, Waiting, StoredOnce, NotStored
    <3> QED BY <2>13, <3>3, <3>4 DEF Body
  <2>14. CASE Stage \/ Copy \/ CopyRest \/ StageLength \/ StageFlag
    BY <2>14, OnceFilled
  <2>15. CASE TimerMessage
    BY <2>15, OnceTimer
  <2>16. CASE Restart
    <3>1. Numbered'
      BY <2>16 DEF Restart, OnceInv, Numbered, Below, Emptied, NoEntry, NoJob
    <3> QED
      BY <2>16, <3>1 DEF Restart, OnceInv, Younger, Waiting, StoredOnce, Emptied
  <2> QED
    BY <2>1, <2>2, <2>3, <2>4, <2>5, <2>6, <2>7, <2>8, <2>9, <2>10, <2>11, <2>12, <2>13,
       <2>14, <2>15, <2>16 DEF Next, MainLoop, Build, SdCard
<1> QED BY <1>1, <1>2, TypeInvariant, PTL DEF Spec

(* No message is written to the card twice, nor any byte of it, in every   *)
(* interleaving of the main loop with the timer thread, even within a copy *)
(* or a write, and through restarts.                                       *)
THEOREM EveryMessageIsStoredOnce == Spec => []StoredOnce
BY OnceHolds, PTL DEF OnceInv

-----------------------------------------------------------------------------
(* How far what is stored may be torn.  A buffer is cleared before a       *)
(* message is put into it, and the timer thread is never interrupted: the  *)
(* bytes found under the length of a message are of it or of younger ones. *)
Fresh(entry) == \A m \in entry.bytes : entry.as <= m

CardFresh == \A s \in Times : \A i \in DOMAIN card[s] : Fresh(card[s][i])

SlotFresh ==
  (~slot.saved \/ pc = "flag") /\ pc \notin {"copy_rest", "length"} => Fresh(slot)

WritingFresh ==
  pc = "rest" => Fresh(writing) /\ \A m \in slot.bytes : writing.as <= m

BufferYoung == pc \in Building => \A m \in slot.bytes : \E n \in buffer : m <= n

FreshInv == CardFresh /\ SlotFresh /\ WritingFresh /\ BufferYoung

(* The steps that change no byte.                                          *)
LEMMA FreshUntouched ==
  ASSUME FreshInv, UNCHANGED <<buffer, slot, card, writing>>,
         \/ pc' = pc
         \/ pc = "publish" /\ pc' = "stage"
         \/ pc \notin {"copy_rest", "length"} /\ pc' \notin Building \cup {"rest"}
  PROVE  FreshInv'
BY DEF FreshInv, CardFresh, SlotFresh, WritingFresh, BufferYoung, Fresh, Building

LEMMA FreshBegun ==
  ASSUME TypeInv, Numbered, FreshInv, UNCHANGED <<slot, card, writing>>,
         pc \notin {"copy_rest", "length"},
         NEW store \in BOOLEAN, NEW after \in Resumable, Begin(store, after)
  PROVE  FreshInv'
<1>1. buffer' = {next} /\ pc' = "body" /\ next \in Int
  BY DEF Begin, TypeInv, TypeOK
<1>2. BufferYoung'
  BY <1>1 DEF Numbered, Below, BufferYoung, TypeInv, TypeOK, Numbers
<1>3. CardFresh' /\ SlotFresh' /\ WritingFresh'
  BY <1>1 DEF FreshInv, CardFresh, SlotFresh, WritingFresh, Fresh
<1> QED BY <1>2, <1>3 DEF FreshInv

LEMMA FreshReported ==
  ASSUME TypeInv, Numbered, FreshInv, UNCHANGED <<slot, card, writing>>,
         pc \notin {"copy_rest", "length"},
         NEW store \in BOOLEAN, NEW after \in {"saved", "others"}, Report(store, after)
  PROVE  FreshInv'
<1>1. CASE Begin(store, after)
  BY <1>1, FreshBegun DEF Resumable
<1>2. CASE pc' = after /\ UNCHANGED <<message, call>>
  BY <1>2, FreshUntouched DEF Building, message
<1> QED BY <1>1, <1>2 DEF Report

(* The steps that fill new_data_point: until its length is set again, its  *)
(* bytes may be older than the message of the length.                      *)
LEMMA FreshFilled ==
  ASSUME TypeInv, OnceInv, FreshInv, Stage \/ Copy \/ CopyRest \/ StageLength \/ StageFlag
  PROVE  FreshInv'
<1> USE DEF TypeInv, TypeOK
<1>1. UNCHANGED <<buffer, card, writing>> /\ pc' # "rest"
  BY DEF Filling, Stage, Copy, CopyRest, StageLength, StageFlag, message, disk, Return, Resumable
<1>2. CardFresh' /\ WritingFresh'
  BY <1>1 DEF FreshInv, CardFresh, WritingFresh, Fresh
<1>3. BufferYoung'
  <2>1. \A m \in buffer : m \in Int
    BY DEF Numbers
  <2>2. \A m \in slot'.bytes : m \in buffer \/ m \in slot.bytes
    BY DEF Filling, Stage, Copy, CopyRest, StageLength, StageFlag
  <2>3. \A m \in slot.bytes : \E n \in buffer : m <= n
    BY DEF Filling, Stage, Copy, CopyRest, StageLength, StageFlag, FreshInv, BufferYoung, Building
  <2> QED BY <1>1, <2>1, <2>2, <2>3 DEF BufferYoung
<1>4. SlotFresh'
  <2>1. CASE Stage
    BY <2>1 DEF Stage, Filling, FreshInv, SlotFresh, Fresh
  <2>2. CASE Copy \/ CopyRest
    BY <2>2 DEF Copy, CopyRest, Filling, SlotFresh
  <2>3. CASE StageLength
    BY <2>3 DEF StageLength, Filling, SlotFresh, Fresh, OnceInv, Younger, Building
  <2>4. CASE StageFlag
    <3>1. slot'.as = slot.as /\ slot'.bytes = slot.bytes
      BY <2>4 DEF StageFlag
    <3>2. Fresh(slot)
      BY <2>4 DEF StageFlag, FreshInv, SlotFresh
    <3> QED BY <3>1, <3>2 DEF SlotFresh, Fresh
  <2> QED BY <2>1, <2>2, <2>3, <2>4
<1> QED BY <1>1, <1>2, <1>3, <1>4 DEF FreshInv

LEMMA FreshHolds == Spec => []FreshInv
<1>1. Init => FreshInv
  <2> SUFFICES ASSUME Init PROVE FreshInv
    OBVIOUS
  <2>1. \A s \in Times : DOMAIN card[s] = {}
    BY DEF Init
  <2> QED
    BY <2>1 DEF Init, Emptied, FreshInv, CardFresh, SlotFresh, WritingFresh, BufferYoung, Building
<1>2. TypeInv /\ OnceInv /\ FreshInv /\ [Next]_vars => FreshInv'
  <2> SUFFICES ASSUME TypeInv, OnceInv, Numbered, Waiting, FreshInv, [Next]_vars PROVE FreshInv'
    BY DEF OnceInv
  <2>1. CASE MqttSetup \/ NothingToSave \/ NoUpload \/ NoMessage \/ MqttService \/ OpenFile
    BY <2>1, FreshUntouched
       DEF MqttSetup, NothingToSave, NoUpload, NoMessage, MqttService, OpenFile, message, disk,
           Building
  <2>2. CASE PublishNow \/ PublishNever \/ PublishLater
    BY <2>2, FreshUntouched
       DEF PublishNow, PublishNever, PublishLater, Return, message, disk, TypeInv, Resumable,
           Building
  <2>3. CASE Upload
    BY <2>3, FreshUntouched DEF Upload, UploadDue, message, Building
  <2>4. CASE Second \/ World \/ UNCHANGED vars
    BY <2>4, FreshUntouched DEF Second, World, vars, message, call, disk
  <2>5. CASE HandlerMessage
    BY <2>5, FreshBegun DEF HandlerMessage, Resumable, disk
  <2>6. CASE SaveFails \/ UploadFails
    BY <2>6, FreshReported DEF SaveFails, UploadFails, UploadDue, disk
  <2>7. CASE UploadUnreadable
    <3>1. CASE Report(FALSE, "others")
      BY <2>7, <3>1, FreshReported DEF UploadUnreadable, UploadDue, disk
    <3>2. CASE pc' = "others" /\ UNCHANGED <<message, call>>
      BY <2>7, <3>2, FreshUntouched DEF UploadUnreadable, UploadDue, message, disk, Building
    <3> QED BY <2>7, <3>1, <3>2 DEF UploadUnreadable
  <2>8. CASE Remove
    <3>1. CASE UNCHANGED card /\ Report(FALSE, "others")
      BY <2>8, <3>1, FreshReported DEF Remove
    <3>2. CASE card' = [card EXCEPT ![file] = <<>>] /\ pc' = "others" /\ UNCHANGED message
      <4>1. \A s \in Times : \A i \in DOMAIN card'[s] :
              i \in DOMAIN card[s] /\ card'[s][i] = card[s][i]
        BY <3>2 DEF TypeInv, TypeOK
      <4> QED BY <2>8, <3>2, <4>1 DEF Remove, FreshInv, CardFresh, SlotFresh, WritingFresh,
                                      BufferYoung, Building, Fresh
    <3> QED BY <2>8, <3>1, <3>2 DEF Remove
  <2>9. CASE Body
    <3>2. UNCHANGED <<slot, card, writing>> /\ pc = "body"
      BY <2>9 DEF Body, disk
    <3>3. pc' # "rest" /\ pc' # "flag" /\ (pc' \in Building => pc' = "publish" /\ buffer \subseteq buffer')
      BY <2>9 DEF Body, Return, TypeInv, Resumable, Building
    <3> QED BY <3>2, <3>3 DEF FreshInv, CardFresh, SlotFresh, WritingFresh, BufferYoung, Fresh,
                              Building
  <2>10. CASE Stage \/ Copy \/ CopyRest \/ StageLength \/ StageFlag
    BY <2>10, FreshFilled
  <2>11. CASE WriteFile
    <3>1. /\ writing'.as = slot.as /\ writing'.bytes = slot.bytes
          /\ UNCHANGED <<slot, card>> /\ pc = "write" /\ pc' = "rest"
      BY <2>11 DEF WriteFile
    <3>2. Fresh(slot)
      BY <3>1 DEF Waiting, FreshInv, SlotFresh
    <3> QED BY <3>1, <3>2 DEF FreshInv, CardFresh, SlotFresh, WritingFresh, BufferYoung, Fresh,
                              Building
  <2>12. CASE WriteRest
    <3>1. \A s \in Times : \A i \in DOMAIN card'[s] :
            \/ i \in DOMAIN card[s] /\ card'[s][i] = card[s][i]
            \/ card'[s][i] = [writing EXCEPT !.bytes = @ \cup slot.bytes]
      BY <2>12 DEF WriteRest, TypeInv, TypeOK
    <3>2. Fresh([writing EXCEPT !.bytes = @ \cup slot.bytes])
      BY <2>12 DEF WriteRest, FreshInv, WritingFresh, Fresh, TypeInv, TypeOK, Entries
    <3>3. CardFresh'
      BY <3>1, <3>2 DEF FreshInv, CardFresh, Fresh
    <3> QED BY <2>12, <3>3 DEF WriteRest, FreshInv, SlotFresh, WritingFresh, BufferYoung, Fresh,
                               Building
  <2>13. CASE MarkSaved
    BY <2>13 DEF MarkSaved, disk, FreshInv, CardFresh, SlotFresh, WritingFresh, BufferYoung, Fresh,
                 Building
  <2>14. CASE TimerMessage
    <3>1. /\ buffer' = {next} /\ UNCHANGED <<card, writing, pc>> /\ next \in Int
          /\ slot' = slot \/ (slot'.as = next /\ slot'.bytes = {next})
      BY <2>14 DEF TimerMessage, call, disk, TypeInv, TypeOK
    <3>2. CardFresh' /\ SlotFresh'
      BY <3>1 DEF FreshInv, CardFresh, SlotFresh, Fresh
    <3>3. WritingFresh'
      BY <3>1 DEF FreshInv, WritingFresh, Fresh, Numbered, Below, TypeInv, TypeOK, Entries, Numbers
    <3>4. BufferYoung'
      BY <3>1 DEF BufferYoung, Numbered, Below, TypeInv, TypeOK, Numbers
    <3> QED BY <3>2, <3>3, <3>4 DEF FreshInv
  <2>15. CASE Restart
    BY <2>15 DEF Restart, Emptied, FreshInv, CardFresh, SlotFresh, WritingFresh, BufferYoung, Fresh,
                 Building
  <2> QED
    BY <2>1, <2>2, <2>3, <2>4, <2>5, <2>6, <2>7, <2>8, <2>9, <2>10, <2>11, <2>12, <2>13,
       <2>14, <2>15 DEF Next, MainLoop, Build, SdCard
<1> QED BY <1>1, <1>2, TypeInvariant, OnceHolds, PTL DEF Spec

(* Wherever the timer thread falls into the building, the copying or the   *)
(* writing of a message, no byte of an older message is stored under its   *)
(* length: what is torn is torn towards the younger message, and nothing   *)
(* left in igh_msg_buffer or new_data_point by an earlier message reaches  *)
(* the card (igh_message.cpp:125, 232).                                    *)
THEOREM NothingOlderIsStored == Spec => []CardFresh
BY FreshHolds, PTL DEF FreshInv

(* What waits in new_data_point to be written to the card is replaced,     *)
(* even while it is being filled, by nothing that is older throughout: one *)
(* of the messages whose bytes are there afterwards is at least as young   *)
(* as any whose bytes were, unless the power fails                         *)
(* (igh_message_publish_built_payload).                                    *)
THEOREM ReplacedByYounger ==
  Spec => [][~slot.saved => (\A m \in slot.bytes : \E n \in slot'.bytes : m <= n) \/ Restart]_vars
<1>1. ASSUME TypeInv, Numbered, FreshInv, [Next]_vars, ~Restart
      PROVE  \A m \in slot.bytes : \E n \in slot'.bytes : m <= n
  <2>1. \A m \in slot.bytes : m \in Int
    BY <1>1 DEF TypeInv, TypeOK, Numbers
  <2>2. CASE slot.bytes \subseteq slot'.bytes
    BY <2>1, <2>2
  <2>3. CASE Copy
    BY <1>1, <2>3 DEF Copy, Filling, FreshInv, BufferYoung, Building, TypeInv, TypeOK
  <2>4. CASE TimerMessage /\ slot' # slot
    <3>1. slot'.bytes = {next} /\ next \in Int
      BY <1>1, <2>4 DEF TimerMessage, TypeInv, TypeOK
    <3> QED BY <1>1, <2>1, <3>1 DEF Numbered, Below
  <2>5. CASE Stage \/ CopyRest \/ StageLength \/ StageFlag \/ MarkSaved
    <3>1. slot.bytes \subseteq slot'.bytes
      BY <1>1, <2>5 DEF Filling, Stage, CopyRest, StageLength, StageFlag, MarkSaved, TypeInv, TypeOK
    <3> QED BY <2>2, <3>1
  <2>6. \/ slot' = slot \/ Copy \/ Stage \/ CopyRest \/ StageLength \/ StageFlag
        \/ MarkSaved \/ TimerMessage
    BY <1>1, Zenon DEF Next, MainLoop, Build, SdCard, Body, PublishNow, PublishLater, PublishNever,
       NothingToSave, OpenFile, WriteFile, WriteRest, SaveFails, Upload, UploadFails,
       UploadUnreadable, NoUpload, Remove, HandlerMessage, NoMessage, MqttSetup, MqttService,
       Second, World, vars
  <2> QED BY <2>2, <2>3, <2>4, <2>5, <2>6
<1>2. TypeInv /\ OnceInv /\ FreshInv /\ [Next]_vars =>
        [~slot.saved => (\A m \in slot.bytes : \E n \in slot'.bytes : m <= n) \/ Restart]_vars
  BY <1>1, Zenon DEF OnceInv
<1> QED BY <1>2, TypeInvariant, OnceHolds, FreshHolds, PTL DEF Spec

-----------------------------------------------------------------------------
(* What may become of a file in a step.                                    *)
Grown(second) ==
  /\ Len(card[second]) <= Len(card'[second])
  /\ \A i \in DOMAIN card[second] : card'[second][i] = card[second][i]

Dropped(second) ==
  card'[second] = <<>> /\ Head(card[second]).as \in sent /\ Remove

(* A file only grows at its end, whoever fails and wherever the power      *)
(* goes, until the main loop removes all of it; and it does that only once *)
(* the message the file was begun with has been handed to a connection     *)
(* found alive (igh_message_process_sd_data).                              *)
THEOREM FilesAreWholeOrGone ==
  Spec => [][\A second \in Times : Grown(second) \/ Dropped(second)]_vars
<1>1. ASSUME TypeInv, UploadedIsSent, [Next]_vars, NEW second \in Times
      PROVE  Grown(second) \/ Dropped(second)
  <2>1. card[second] \in Seq(Entries)
    BY <1>1 DEF TypeInv, TypeOK
  <2>2. CASE UNCHANGED card
    BY <2>1, <2>2 DEF Grown
  <2>3. CASE WriteRest
    BY <1>1, <2>1, <2>3 DEF WriteRest, Grown, TypeInv, TypeOK
  <2>4. CASE Remove /\ card' # card
    <3>1. card' = [card EXCEPT ![file] = <<>>] /\ Head(card[file]).as \in sent
      BY <1>1, <2>4 DEF Remove, UploadedIsSent
    <3>2. CASE second = file
      BY <1>1, <2>4, <3>1, <3>2 DEF Dropped, TypeInv, TypeOK
    <3>3. CASE second # file
      BY <1>1, <2>1, <3>1, <3>3 DEF Grown, TypeInv, TypeOK
    <3> QED BY <3>2, <3>3
  <2>5. card' = card \/ WriteRest \/ Remove
    BY <1>1, Zenon DEF Next, MainLoop, Build, SdCard, Body, PublishNow, PublishLater, PublishNever,
       Filling, Stage, Copy, CopyRest, StageLength, StageFlag, NothingToSave, OpenFile, WriteFile,
       SaveFails, MarkSaved, Upload, UploadFails,
       UploadUnreadable, NoUpload, HandlerMessage, NoMessage, MqttSetup, MqttService,
       TimerMessage, Second, World, Restart, vars, disk
  <2> QED BY <2>2, <2>3, <2>4, <2>5
<1>2. TypeInv /\ UploadedIsSent /\ [Next]_vars =>
        [\A second \in Times : Grown(second) \/ Dropped(second)]_vars
  BY <1>1, Zenon
<1> QED BY <1>2, TypeInvariant, UploadedInvariant, PTL DEF Spec
=============================================================================
