------------------------------ MODULE OtaBoot ------------------------------
(***************************************************************************)
(* The firmware update: the application downloads an image into the SPI    *)
(* flash and AT+OTA records the wanted MD5 (isp_process_xmpp.c); after a   *)
(* reset the bootloader (bootloader_main.c) checks the download, copies it *)
(* over the application, checks the copy and starts it.                    *)
(*                                                                         *)
(* The persistent configuration is the register of ConfigRegister here, as *)
(* ConfigStore is shown to implement it: a value and an older one that a   *)
(* reset in the middle of a save may bring back.  Two images are equal     *)
(* when their MD5s are.  The kind of an image is where its size lies:      *)
(*   "small" below the 100 KB the bootloader insists on,                   *)
(*   "fit"   within SYSTEM_APP_SIZE,                                       *)
(*   "wide"  running on into the 28 KB of CHIP_DOWNLOAD_ADDR behind it,    *)
(*   "huge"  running on into the configuration pages,                      *)
(*   "edge"  accepted by the download (< DOWNLOAD_ZONE_SIZE) but not by    *)
(*           start_get_down_zone_spiflash (>= DOWNLOAD_ZONE_SIZE - 4).     *)
(* A programming error of the flash is sticky: until a reset every erase   *)
(* and every half-word after it is refused, and nobody looks.              *)
(***************************************************************************)
CONSTANTS Image,        \* firmware images, named by their MD5
          Kind,         \* the kind of each image
          Factory,      \* the application programmed at the factory
          NoImage,      \* nothing, or a mixture
          Erased,       \* nothing but 0xFF
          EmptyMd5,     \* the empty string as the wanted MD5
          Target,       \* the texts an AT+OTA command may give as the MD5
          Within        \* the images, or NoImage, whose MD5 contains a text

Content == Image \cup {NoImage}
Wanted == Target \cup {EmptyMd5}

ASSUME OtaAssumption ==
    /\ Kind \in [Image -> {"small", "fit", "wide", "huge", "edge"}]
    /\ Factory \in Image /\ Kind[Factory] = "fit"
    /\ NoImage \notin Image
    /\ Erased \notin Content
    /\ Within \in [Wanted -> SUBSET Content]
    /\ Within[EmptyMd5] = Content
    /\ \A t \in Wanted \cap Image : Within[t] = {t}

\* OTAFLAG_NORMAL, OTAFLAG_READY_UPDATA, OTAFALG_PROGFINISH, OTAFALG_PROGERROR
Flag == {"NORMAL", "READY", "FINISH", "ERROR"}
Conf == [flag : Flag, target : Wanted]

VARIABLES zone,     \* image in the SPI download zone, NoImage when mixed
          zoneKind, \* kind of the size in the first 4 bytes of the zone
          head,     \* what SYSTEM_APP_SIZE bytes at SYSTEM_APP_ADDRESS hold
          tail,     \* what the 28 KB behind them hold
          stored,   \* the configuration in flash: ota_flag, ota_target_fw_md5
          older,    \* what a boot would load without its first copy
          uconfig,  \* the configuration in memory
          pgerr,    \* the flash refuses every operation
          pc,       \* "off", a step of the bootloader, or "app"
          plain,    \* history: every MD5 asked for was that of an image that
                    \* fits or is refused, no half-word read back wrong
          lapsed    \* history: a save that was cut brought another
                    \* configuration back

vars == <<zone, zoneKind, head, tail, stored, older, uconfig, pgerr, pc, plain,
          lapsed>>

TypeOK == /\ zone \in Content
          /\ zoneKind \in {"small", "fit", "wide", "huge", "edge"}
          /\ head \in Content
          /\ tail \in Content \cup {Erased}
          /\ stored \in Conf /\ older \in Conf /\ uconfig \in Conf
          /\ pgerr \in BOOLEAN
          /\ pc \in {"off", "check", "erase", "head", "tail", "verify", "app"}
          /\ plain \in BOOLEAN /\ lapsed \in BOOLEAN

Init == /\ zone = NoImage /\ zoneKind = "edge"
        /\ head = Factory /\ tail = Erased
        /\ stored = [flag |-> "NORMAL", target |-> EmptyMd5]
        /\ older = stored /\ uconfig = stored
        /\ pgerr = FALSE
        /\ pc = "off" /\ plain = TRUE /\ lapsed = FALSE

\* strstr(md5, wanted): a part of an MD5 is found too, the empty one in all.
Matches(md5, wanted) == md5 \in Within[wanted]

\* start_get_down_zone_spiflash takes an oversized length for no image.
ZoneMd5 == IF zoneKind = "edge" THEN NoImage ELSE zone

\* The bytes at SYSTEM_APP_ADDRESS spell image i completely.
Spells(i) == /\ head = i /\ i # NoImage
             /\ Kind[i] = "wide" => tail = i
             /\ Kind[i] # "huge"

\* The MD5 of the first bytes at SYSTEM_APP_ADDRESS, as many as the download.
CopyMd5 == IF Spells(zone) THEN zone ELSE NoImage

\* A whole MD5, and of an image that fits or is refused.
Ordinary(t) == t \in Image /\ Kind[t] \notin {"wide", "huge"}

\* __write_uconfig: a flash that refuses leaves the old text in place.
Save(c) == /\ uconfig' = c
           /\ IF pgerr THEN UNCHANGED <<stored, older>>
                       ELSE stored' = c /\ older' = c

-----------------------------------------------------------------------------
(* The bootloader *)

\* Faulty variant: the wanted MD5 is not read back.
StartWithoutTarget ==
    /\ pc = "off"
    /\ uconfig' = [stored EXCEPT !.target = NoImage]
    /\ pc' = IF stored.flag = "READY" THEN "check" ELSE "app"
    /\ UNCHANGED <<zone, zoneKind, head, tail, stored, older, pgerr, plain,
                   lapsed>>

\* A reset has cleared the error of the flash; the configuration is loaded, and
\* its second copy repaired unless it is taken for an equal one.
Start == /\ pc = "off"
         /\ uconfig' = stored
         /\ older' \in {older, stored}
         /\ pc' = IF stored.flag = "READY" THEN "check" ELSE "app"
         /\ UNCHANGED <<zone, zoneKind, head, tail, stored, pgerr, plain, lapsed>>

\* Faulty variants: a download of any size and content is taken; the request
\* is answered before it is served.
AcceptAny == /\ pc = "check"
             /\ pc' = "erase"
             /\ UNCHANGED <<zone, zoneKind, head, tail, stored, older, uconfig,
                            pgerr, plain, lapsed>>

AcceptAnswers == /\ pc = "check"
                 /\ Matches(ZoneMd5, uconfig.target)
                 /\ zoneKind \notin {"small", "edge"}
                 /\ Save([uconfig EXCEPT !.flag = "NORMAL"])
                 /\ pc' = "erase"
                 /\ UNCHANGED <<zone, zoneKind, head, tail, pgerr, plain, lapsed>>

\* Faulty variant: the answer is not saved.
RejectUnsaved == /\ pc = "check"
                 /\ \/ ~Matches(ZoneMd5, uconfig.target)
                    \/ zoneKind \in {"small", "edge"}
                 /\ uconfig' = [uconfig EXCEPT !.flag = "ERROR"]
                 /\ pc' = "app"
                 /\ UNCHANGED <<zone, zoneKind, head, tail, stored, older, pgerr,
                                plain, lapsed>>

\* The download is not the wanted image, or is too small to be one.
Refused == /\ pc = "check"
           /\ \/ ~Matches(ZoneMd5, uconfig.target)
              \/ zoneKind \in {"small", "edge"}

Reject == /\ Refused
          /\ Save([uconfig EXCEPT !.flag = "ERROR"])
          /\ pc' = "app"
          /\ UNCHANGED <<zone, zoneKind, head, tail, pgerr, plain, lapsed>>

Accept == /\ pc = "check" /\ ~Refused
          /\ pc' = "erase"
          /\ UNCHANGED <<zone, zoneKind, head, tail, stored, older, uconfig,
                         pgerr, plain, lapsed>>

\* FLASH_ProgramStart(SYSTEM_APP_ADDRESS, SYSTEM_APP_SIZE)
Erase == /\ pc = "erase"
         /\ head' = NoImage
         /\ pc' = "head"
         /\ UNCHANGED <<zone, zoneKind, tail, stored, older, uconfig, pgerr,
                        plain, lapsed>>

\* get_down_zone_buffer and FLASH_AppendBuffer, in pieces of 1 KB.
CopyHead == /\ pc = "head"
            /\ \/ head' = zone /\ UNCHANGED plain
               \/ head' = NoImage /\ plain' = FALSE
            /\ pc' = IF zoneKind = "fit" THEN "verify" ELSE "tail"
            /\ UNCHANGED <<zone, zoneKind, tail, stored, older, uconfig, pgerr,
                           lapsed>>

\* The part beyond SYSTEM_APP_SIZE was not erased.
CopyTail == /\ pc = "tail"
            /\ tail' = IF tail = Erased THEN zone ELSE tail
            /\ pgerr' = (tail # Erased \/ zoneKind = "huge")
            /\ pc' = "verify"
            /\ UNCHANGED <<zone, zoneKind, head, stored, older, uconfig, plain,
                           lapsed>>

\* Faulty variant: the copy is not checked.
FinishUnverified == /\ pc = "verify"
                    /\ Save([uconfig EXCEPT !.flag = "FINISH"])
                    /\ pc' = "app"
                    /\ UNCHANGED <<zone, zoneKind, head, tail, pgerr, plain,
                                   lapsed>>

\* The MD5 of the copy is the wanted one.
Verified == pc = "verify" /\ Matches(CopyMd5, uconfig.target)

Finish == /\ Verified
          /\ Save([uconfig EXCEPT !.flag = "FINISH"])
          /\ pc' = "app"
          /\ UNCHANGED <<zone, zoneKind, head, tail, pgerr, plain, lapsed>>

\* The MD5 of the copy is another one: the application is started anyway.
StartUnverified == /\ pc = "verify" /\ ~Verified
                   /\ pc' = "app"
                   /\ UNCHANGED <<zone, zoneKind, head, tail, stored, older,
                                  uconfig, pgerr, plain, lapsed>>

-----------------------------------------------------------------------------
(* The running application *)

\* The first sector of a download, or of a download cut short, is flushed.
DownloadBegins == /\ pc = "app"
                  /\ \E i \in Image : zoneKind' \in {Kind[i], "edge"}
                  /\ zone' = NoImage
                  /\ UNCHANGED <<head, tail, stored, older, uconfig, pgerr, pc,
                                 plain, lapsed>>

\* w25x_append_end after the last byte.
DownloadEnds == /\ pc = "app" /\ zone = NoImage
                /\ \E i \in Image : zone' = i /\ zoneKind' = Kind[i]
                /\ UNCHANGED <<head, tail, stored, older, uconfig, pgerr, pc,
                               plain, lapsed>>

\* resp_ota: the request is saved unchecked; makeJson may find no memory.
Request(t) == [flag |-> "READY", target |-> t]

RequestUpdate ==
    /\ pc = "app"
    /\ \E t \in Target :
          /\ \/ Save(Request(t))
             \/ uconfig' = Request(t) /\ UNCHANGED <<stored, older>>
          /\ plain' = (plain /\ Ordinary(t))
    /\ UNCHANGED <<zone, zoneKind, head, tail, pgerr, pc, lapsed>>

\* Another command saves the whole of uconfig.
SaveOther == /\ pc = "app"
             /\ Save(uconfig)
             /\ UNCHANGED <<zone, zoneKind, head, tail, pgerr, pc, plain, lapsed>>

-----------------------------------------------------------------------------
(* Resets *)

\* A reset at any moment: memory is lost, and not read before Start loads it.
\* One during CopyTail leaves the tail half written.
Reset == /\ pc # "off"
         /\ pc' = "off"
         /\ pgerr' = FALSE
         /\ tail' \in IF pc = "tail" /\ tail = Erased THEN {Erased, NoImage}
                                                     ELSE {tail}
         /\ uconfig' = stored
         /\ UNCHANGED <<zone, zoneKind, head, stored, older, plain, lapsed>>

\* What the program may be saving at this moment.
Saving(c) == \/ Refused /\ c = [uconfig EXCEPT !.flag = "ERROR"]
             \/ Verified /\ c = [uconfig EXCEPT !.flag = "FINISH"]
             \/ pc = "app" /\ (c = uconfig \/ \E t \in Target : c = Request(t))

\* A reset in the middle of a save, as ConfigRegister has it: after the erase
\* of the first copy, with the new text in it, or in the second one as well.
ResetInSave ==
    /\ ~pgerr
    /\ \E c \in Conf :
          /\ Saving(c)
          /\ stored' \in {older, c}
          /\ older' \in {older, stored'}
          /\ plain' = (plain /\ (c = Request(c.target) => Ordinary(c.target)))
          /\ lapsed' = (lapsed \/ stored' \notin {stored, c})
    /\ pc' = "off" /\ uconfig' = stored'
    /\ UNCHANGED <<zone, zoneKind, head, tail, pgerr>>

Boot == \/ Start \/ Reject \/ Accept \/ Erase \/ CopyHead \/ CopyTail
        \/ Finish \/ StartUnverified

Application == DownloadBegins \/ DownloadEnds \/ RequestUpdate \/ SaveOther

Next == Boot \/ Application \/ Reset \/ ResetInSave

Spec == Init /\ [][Next]_vars

\* The processor executes the bootloader.
FairSpec == Spec /\ WF_vars(Boot)

-----------------------------------------------------------------------------
(* Properties *)

\* bootloader_main.c:110-162: in a plain history the bootloader never starts an
\* application that is not one complete image.  ("The write merely failed, so
\* write again", bootloader_main.c:162.)
NeverStartsBrokenApp == pc = "app" /\ plain => \E i \in Image : Spells(i)

\* bootloader_main.c:91-180: in a plain history the application is not started
\* while the request it made is unanswered.
RequestAnswered ==
    [][pc # "app" /\ pc' = "app" /\ plain => stored'.flag # "READY"]_vars

\* bootloader_main.c:110-159: once the application is erased for an image that
\* fits, that image is installed and started, over any number of resets in the
\* copy or in the save after it, unless they never cease.
UpdateCompletes ==
    []<>(pc = "off") \/
    \A t \in {i \in Image : Kind[i] = "fit"} :
        (pc = "erase" /\ uconfig.target = t /\ plain)
            ~> (pc = "app" /\ Spells(t)) \/ ~plain

\* bootloader_main.c:154-157: the persistent flag says finished only while an
\* image of the wanted MD5 is what the flash holds, across later downloads,
\* requests that were not saved, and resets, in the middle of saves too.  Two
\* saves cut one after the other are the exception (flash_config.c:29).
FinishedMeansInstalled ==
    stored.flag = "FINISH" /\ NoImage \notin Within[stored.target] /\ ~lapsed
        => \E i \in Within[stored.target] : Spells(i)
=============================================================================
