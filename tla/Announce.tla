----------------------------- MODULE Announce -----------------------------
(***************************************************************************)
(* Announcements: a thread fetches a signed digest and the files it names  *)
(* (announcefetch.py), the window looks for changed files once a minute,   *)
(* parses them and shows notifications (ArmoryQt.py), and the secure       *)
(* downloader fetches a program that the files name (UpgradeDownloader.py).*)
(*                                                                         *)
(* A file's text is its version, a number: 0 is one that was never read,   *)
(* -1 half a file.  A file's hash is the hash of its text, so it is that   *)
(* number, too.  The server publishes new versions, each file first and    *)
(* the signed digest after it.  The window waits until the thread is idle  *)
(* and reads a file afterwards: in between the thread may have begun to    *)
(* write it.                                                               *)
(*                                                                         *)
(* The thread is at the top of its loop, fetches the digest, and then for  *)
(* each file with a new hash fetches, truncates and writes it:             *)
(*    pc = "off" | "top" | "digest" | "files" | "write"                    *)
(***************************************************************************)
EXTENDS Integers, Sequences, FiniteSets, Functions

CONSTANT AdWorlds

\* A scenario `ads' fixes what the environment does:
\*    on       whether announcements are fetched (SkipAnnounceCheck)
\*    publish  the digests that the server signs, one after another
\*    disk     the files in fetchDir at the start
\*    notes    the notifications in each version of "notify": id, priority in
\*             units of 1024, start time
\*    upgrade  the notification in each version of "downloads", or none
\*    faults   how many fetches fail or bring something else
\*    starts   how often the program is started
\*    forces   how often the user asks for a fetch
\*    gets     how many downloads of a program are started
\*    later    whether the start time of notifications comes
VARIABLES
  ads,      \* the scenario
  server,   \* how many digests are signed, what files it has, what time it is
  disk,     \* the files in fetchDir
  adf,      \* the AnnounceDataFetcher
  win,      \* what the window knows of announcements
  dl,       \* the secure downloader
  count     \* faults, starts, forced fetches and downloads so far, and the
            \* files whose writing was broken off

announceVars == <<ads, server, disk, adf, win, dl, count>>

Fids   == {"downloads", "notify"}
Half   == -1
Hashes == [f \in Fids |-> disk[f]]

\* What is published, and what lies on the disk at the start, are whole files.
ASSUME AdWorldsAssumption ==
  \A a \in AdWorlds : a.publish \in Seq([Fids -> Nat]) /\ a.disk \in [Fids -> Nat]

\* AnnounceDataFetcher.__init__ hashes the files that are there, and the
\* thread is started; lastAnnounceUpdate is empty
NoDigest == [f \in Fids |-> 0]

Fetcher(files) ==
  [fileHashMap |-> files, pc |-> IF ads.on THEN "top" ELSE "off", force |-> FALSE,
   forceIsFinished |-> FALSE, digest |-> NoDigest, left |-> {}, fid |-> "none", got |-> 0]

Window(ignoreLong) ==
  [text |-> [f \in Fids |-> 0], modified |-> Fids, todo |-> <<>>, waits |-> FALSE,
   reading |-> "none", tested |-> FALSE, beat |-> "due",
   missed |-> {}, popups |-> {}, versionNotification |-> {}, ignoreShort |-> ignoreLong, ignoreLong |-> ignoreLong,
   saved |-> ignoreLong, refused |-> ignoreLong]

Closed == [open |-> FALSE, url |-> "none", downloadFile |-> 0, of |-> "none",
           receivedData |-> "none", replies |-> {}, boxes |-> <<>>, enabled |-> TRUE, saved |-> {}]

InitAnnounce ==
  /\ ads \in AdWorlds
  /\ server = [signed |-> 0, files |-> [f \in Fids |-> 0], now |-> 0]
  /\ disk = ads.disk
  /\ adf = Fetcher(disk)
  /\ win = Window({})
  /\ dl = Closed
  /\ count = [faults |-> 0, starts |-> 1, forces |-> 0, gets |-> 0, broken |-> {}]

-----------------------------------------------------------------------------
(* The server *)

\* one file is put on the server
upload(f) ==
  /\ server.signed < Len(ads.publish)
  /\ server.files[f] # ads.publish[server.signed + 1][f]
  /\ server' = [server EXCEPT !.files[f] = ads.publish[server.signed + 1][f]]
  /\ UNCHANGED <<ads, disk, adf, win, dl, count>>

\* the digest of all of them is signed
sign ==
  /\ server.signed < Len(ads.publish)
  /\ server.files = ads.publish[server.signed + 1]
  /\ server' = [server EXCEPT !.signed = @ + 1]
  /\ UNCHANGED <<ads, disk, adf, win, dl, count>>

\* the start time of notifications comes
timePasses ==
  /\ server.now = 0 /\ ads.later
  /\ server' = [server EXCEPT !.now = 1]
  /\ UNCHANGED <<ads, disk, adf, win, dl, count>>

Digest == ads.publish[server.signed]

-----------------------------------------------------------------------------
(* The thread: __runFetchLoop and __runFetchSequence *)

\* half an hour has passed, or a fetch is forced
loopTop ==
  /\ adf.pc = "top"
  /\ adf' = [adf EXCEPT !.pc = "digest",
                        !.forceIsFinished = IF adf.force THEN FALSE ELSE @]
  /\ UNCHANGED <<ads, server, disk, win, dl, count>>

\* every return of __runFetchSequence before its end
giveUp == adf' = [adf EXCEPT !.pc = "top", !.left = {}, !.digest = NoDigest,
                             !.fid = "none", !.got = 0]

fails ==
  /\ adf.pc \in {"digest", "files"}
  /\ count.faults < ads.faults
  /\ count' = [count EXCEPT !.faults = @ + 1]
  /\ giveUp
  /\ UNCHANGED <<ads, server, disk, win, dl>>

\* the digest carries a valid signature
fetchDigest ==
  /\ adf.pc = "digest"
  /\ IF server.signed = 0 THEN giveUp
     ELSE adf' = [adf EXCEPT !.pc = "files", !.digest = Digest, !.left = Fids]
  /\ UNCHANGED <<ads, server, disk, win, dl, count>>

\* one row of the digest: a file whose hash has not changed is left alone, and
\* one that does not have the hash of the digest ends the sequence
matches_Any(new, hash) == TRUE

matches(new, hash) == new = hash

upToDate(f) == adf.fileHashMap[f] = adf.digest[f]

\* The text that a file server returns may be another one.  The file is opened
\* for writing, which truncates it and is its last change for now.
fetchFile(f, new) ==
  /\ adf.pc = "files" /\ f \in adf.left
  /\ \/ new = server.files[f] /\ UNCHANGED count
     \/ /\ new # server.files[f] /\ count.faults < ads.faults
        /\ count' = [count EXCEPT !.faults = @ + 1]
  /\ IF upToDate(f)
     THEN adf' = [adf EXCEPT !.left = @ \ {f}] /\ UNCHANGED <<disk, win>>
     ELSE IF ~matches(new, adf.digest[f]) THEN giveUp /\ UNCHANGED <<disk, win>>
     ELSE /\ disk' = [disk EXCEPT ![f] = Half]
          /\ win' = [win EXCEPT !.modified = @ \cup {f}]
          /\ adf' = [adf EXCEPT !.pc = "write", !.fid = f, !.got = new]
  /\ UNCHANGED <<ads, server, dl>>

writeFile ==
  /\ adf.pc = "write"
  /\ disk' = [disk EXCEPT ![adf.fid] = adf.got]
  /\ win' = [win EXCEPT !.modified = @ \cup {adf.fid}]
  /\ adf' = [adf EXCEPT !.pc = "files", !.left = @ \ {adf.fid},
                        !.fid = "none", !.got = 0,
                        !.fileHashMap[adf.fid] = adf.digest[adf.fid]]
  /\ count' = [count EXCEPT !.broken = @ \ {adf.fid}]
  /\ UNCHANGED <<ads, server, dl>>

\* f.write raises, which __runFetchLoop catches: half of the file stays, and
\* fileHashMap has the hash of the one before
writeFails ==
  /\ adf.pc = "write"
  /\ count.faults < ads.faults
  /\ count' = [count EXCEPT !.faults = @ + 1, !.broken = @ \cup {adf.fid}]
  /\ giveUp
  /\ UNCHANGED <<ads, server, disk, win, dl>>

fetchDone ==
  /\ adf.pc = "files" /\ adf.left = {}
  /\ adf' = [adf EXCEPT !.pc = "top", !.force = FALSE, !.digest = NoDigest,
                        !.forceIsFinished = @ \/ adf.force]
  /\ UNCHANGED <<ads, server, disk, win, dl, count>>

\* the event loopIsIdle
loopIsIdle == adf.pc \in {"off", "top"}

-----------------------------------------------------------------------------
(* The window *)

\* processAnnounceData, in the Heartbeat, which waits for its end
processAnnounceData ==
  /\ ads.on
  /\ win' = [win EXCEPT !.todo = <<"downloads", "notify">>, !.beat = "busy"]
  /\ UNCHANGED <<ads, server, disk, adf, dl, count>>

\* explicitCheckAnnouncements: fetchRightNow, until it waits
fetchRightNow ==
  /\ ads.on /\ ~dl.open /\ count.forces < ads.forces
  /\ count' = [count EXCEPT !.forces = @ + 1]
  /\ win' = [win EXCEPT !.waits = TRUE]
  /\ adf' = [adf EXCEPT !.force = TRUE, !.forceIsFinished = FALSE]
  /\ UNCHANGED <<ads, server, disk, dl>>

\* the fetch has finished, or the time is over; the files are looked at
fetchedOrTimeout ==
  /\ win.waits
  /\ adf' = [adf EXCEPT !.force = FALSE]
  /\ win' = [win EXCEPT !.waits = FALSE, !.todo = <<"downloads", "notify">>]
  /\ UNCHANGED <<ads, server, disk, dl, count>>

\* The notifications that a text holds: half a file has some of them, and the
\* last one may be cut within its priority or before it.
NoPriority == -1

Cut(n) == {[n EXCEPT !.priority = NoPriority], [n EXCEPT !.priority = 0]}

ParsedNotes(text) ==
  LET notes == UNION Range(ads.notes)
  IN  CASE text > 0    -> {ads.notes[text]}
        [] text = 0    -> {{}}
        [] text = Half -> SUBSET notes \cup
             UNION {{S \cup {c} : S \in SUBSET {k \in notes : k.id # n.id}, c \in Cut(n)} : n \in notes}

\* processDownloads: versionNotification stays as it is if there is no list;
\* half a list may lack the newest version or all of them
processDownloads(v, text) ==
  CASE text > 0    -> {[v EXCEPT !.versionNotification = ads.upgrade[text]]}
    [] text = 0    -> {v}
    [] text = Half -> {v} \cup {[v EXCEPT !.versionNotification = u] : u \in Range(ads.upgrade) \cup {{}}}

\* notificationIsRelevant
DEFAULT_MIN_PRIORITY == 2

notificationIsRelevant(n, short) ==
  n.priority >= DEFAULT_MIN_PRIORITY /\ n.id \notin short /\ n.start <= server.now

\* A handler raises: the files that are left are not looked at.  Heartbeat does
\* not catch it and asks for no next beat.
raised(v) == [v EXCEPT !.todo = <<>>, !.beat = IF @ = "busy" THEN "dead" ELSE @]

\* processNotifications: one that is not relevant is ignored from now on, and
\* the one with the highest priority is shown if that is high enough.  One that
\* lacks a field raises, after some of the others were ignored.
notified(v, all) ==
  LET rel  == {n \in all : notificationIsRelevant(n, v.ignoreShort)}
      most == CHOOSE n \in rel : \A k \in rel : k.priority <= n.priority
      short == v.ignoreShort \cup {n.id : n \in all \ rel}
      pop  == IF rel # {} /\ most.priority >= 3 THEN {most.id}
              ELSE {n.id : n \in v.versionNotification} \ short
  IN  IF \A n \in all : n.priority # NoPriority
      THEN {[v EXCEPT !.ignoreShort = short, !.popups = @ \cup pop]}
      ELSE {raised([v EXCEPT !.ignoreShort = @ \cup ids]) :
              ids \in SUBSET {n.id : n \in {k \in all \ rel : k.priority # NoPriority}}}

processNotifications(v, text) ==
  UNION {notified(v, parsed \cup v.versionNotification) : parsed \in ParsedNotes(text)}

\* one file of processAnnounceData: it is noted as up to date before it is read
processFile ==
  /\ win.todo # <<>> /\ win.reading = "none"
  /\ LET f == Head(win.todo)
     IN  win' = IF f \notin win.modified THEN [win EXCEPT !.todo = Tail(@)]
                ELSE [win EXCEPT !.todo = Tail(@), !.modified = @ \ {f}, !.reading = f]
  /\ UNCHANGED <<ads, server, disk, adf, dl, count>>

\* what the caller of getAnnounceFile does with the text
processText(text, inTime) ==
  LET f == win.reading
      v == [win EXCEPT !.reading = "none", !.tested = FALSE, !.text[f] = text,
               !.missed = IF inTime THEN @ \ {f} ELSE @ \cup {f}]
  IN  \/ f = "downloads" /\ win' \in processDownloads(v, text) /\ UNCHANGED dl
      \/ f = "notify" /\ win' \in processNotifications(v, text) /\ UNCHANGED dl
      \/ /\ f = "secure downloader"
         /\ win' = [win EXCEPT !.reading = "none", !.tested = FALSE]
         /\ \/ text # 0 /\ dl' = [Closed EXCEPT !.open = TRUE, !.saved = dl.saved]
            \/ text \in {0, Half} /\ UNCHANGED dl

\* getAnnounceFile waits for a second: the thread is idle, or stays busy
waitForIdle ==
  /\ win.reading # "none" /\ ~win.tested
  /\ \/ loopIsIdle /\ win' = [win EXCEPT !.tested = TRUE] /\ UNCHANGED dl
     \/ ~loopIsIdle /\ processText(0, FALSE)
  /\ UNCHANGED <<ads, server, disk, adf, count>>

\* and reads what is there by then
fileOf(reading) == IF reading = "secure downloader" THEN "downloads" ELSE reading

getAnnounceFile ==
  /\ win.reading # "none" /\ win.tested
  /\ processText(disk[fileOf(win.reading)], TRUE)
  /\ UNCHANGED <<ads, server, disk, adf, count>>

\* DlgNotificationWithDNAA: Close, Do not popup again, or Secure Download
acceptShortIgnore(id) ==
  /\ id \in win.popups
  /\ win' = [win EXCEPT !.popups = @ \ {id}, !.ignoreShort = @ \cup {id}]
  /\ UNCHANGED <<ads, server, disk, adf, dl, count>>

NotifyIgnore(v, id) == v.ignoreLong \cup {id}

acceptLongIgnore(id) ==
  /\ id \in win.popups
  /\ win' = [win EXCEPT !.popups = @ \ {id}, !.ignoreShort = @ \cup {id},
               !.ignoreLong = @ \cup {id}, !.saved = NotifyIgnore(win, id),
               !.refused = @ \cup {id}]
  /\ UNCHANGED <<ads, server, disk, adf, dl, count>>

-----------------------------------------------------------------------------
(* The secure downloader.  Of what has been received it matters whether it is
   nothing, a part, the whole program, or something else. *)

\* openDLArmory and getDownloaderData: the list is read as any other file
openDLArmory ==
  /\ ads.on /\ ~dl.open /\ count.gets < ads.gets
  /\ win' = [win EXCEPT !.reading = "secure downloader"]
  /\ UNCHANGED <<ads, server, disk, adf, dl, count>>

\* a box that waits for an answer keeps the user from the rest of the dialog
closeDL ==
  /\ dl.open /\ dl.enabled /\ dl.boxes = <<>>
  /\ dl' = [Closed EXCEPT !.saved = dl.saved]
  /\ UNCHANGED <<ads, server, disk, adf, win, count>>

\* useSelectedPackage and setFile
useSelectedPackage(pkg) ==
  /\ dl.open /\ dl.enabled /\ dl.boxes = <<>> /\ pkg # dl.url
  /\ dl' = [dl EXCEPT !.url = pkg]
  /\ UNCHANGED <<ads, server, disk, adf, win, count>>

\* startOrStopDownload: the reply that is closed may still send its signals
startOrStopDownload ==
  /\ dl.open /\ dl.url # "none" /\ dl.boxes = <<>>
  /\ IF dl.downloadFile # 0
     THEN dl' = [dl EXCEPT !.downloadFile = 0] /\ UNCHANGED count
     ELSE /\ count.gets < ads.gets
          /\ count' = [count EXCEPT !.gets = @ + 1]
          /\ dl' = [dl EXCEPT !.downloadFile = count'.gets, !.of = dl.url,
                       !.receivedData = "", !.replies = @ \cup {count'.gets},
                       !.enabled = FALSE]
  /\ UNCHANGED <<ads, server, disk, adf, win>>

\* readMoreDownloadData: a signal of any reply reads from the present one
readMoreDownloadData(r, data) ==
  /\ r \in dl.replies /\ dl.receivedData \in {"", "part"}
  /\ dl.downloadFile # 0
  /\ data = "other" => count.faults < ads.faults
  /\ count' = [count EXCEPT !.faults = IF data = "other" THEN @ + 1 ELSE @]
  /\ dl' = [dl EXCEPT !.receivedData = data]
  /\ UNCHANGED <<ads, server, disk, adf, win>>

\* downloadFinished, the signal of any reply.  What has the hash of the list's
\* entry is to be saved, and the user is asked where; of the rest the user is
\* told.  Other signals are handled while a box is open, so the boxes are a
\* stack of the handlers that wait.
verified(d) == d.receivedData = "whole" /\ d.of = d.url

handlerEnds(d) == [d EXCEPT !.receivedData = "none", !.downloadFile = 0, !.enabled = TRUE]

downloadFinished(r) ==
  /\ r \in dl.replies
  /\ LET d == [dl EXCEPT !.replies = @ \ {r}]
     IN  dl' = IF dl.downloadFile = 0 THEN handlerEnds(d)
               ELSE [d EXCEPT !.boxes = <<IF verified(dl) THEN "where" ELSE "told">> \o @]
  /\ UNCHANGED <<ads, server, disk, adf, win, count>>

\* getFileSave returns: what has been received is written, and the user is told.
\* If a handler that came later has ended, nothing is left of it: write raises.
savedFile(d) == [url |-> d.url, of |-> d.of, data |-> d.receivedData]

getFileSave ==
  /\ dl.boxes # <<>> /\ Head(dl.boxes) = "where"
  /\ LET d == [dl EXCEPT !.boxes = Tail(@)]
     IN  \/ dl' = handlerEnds(d)
         \/ dl' = [d EXCEPT !.saved = @ \cup {savedFile(dl)},
                      !.boxes = IF dl.receivedData = "none" THEN @ ELSE <<"told">> \o @]
  /\ UNCHANGED <<ads, server, disk, adf, win, count>>

messageRead ==
  /\ dl.boxes # <<>> /\ Head(dl.boxes) = "told"
  /\ dl' = handlerEnds([dl EXCEPT !.boxes = Tail(@)])
  /\ UNCHANGED <<ads, server, disk, adf, win, count>>

\* the program ends, in whatever it is doing, and is started again
restart ==
  /\ count.starts < ads.starts
  /\ count' = [count EXCEPT !.starts = @ + 1,
                 !.broken = IF adf.pc = "write" THEN @ \cup {adf.fid} ELSE @]
  /\ adf' = Fetcher(Hashes)
  /\ win' = [Window(win.saved) EXCEPT !.refused = win.refused]
  /\ dl' = [Closed EXCEPT !.saved = dl.saved]
  /\ UNCHANGED <<ads, server, disk>>

-----------------------------------------------------------------------------
Thread == loopTop \/ fetchDigest \/ writeFile \/ fetchDone
          \/ \E f \in Fids : fetchFile(f, server.files[f])

Server == sign \/ \E f \in Fids : upload(f)

\* what goes on outside of the window's thread
AnnounceOthers ==
  \/ loopTop \/ fails \/ fetchDigest \/ writeFile \/ writeFails \/ fetchDone
  \/ \E f \in Fids, new \in 0..Len(ads.publish) : fetchFile(f, new)
  \/ Server \/ timePasses

\* the window's thread in the middle of a call
AnnounceCalls == processFile \/ waitForIdle \/ getAnnounceFile \/ fetchedOrTimeout

AnnounceWindow ==
  \/ fetchRightNow
  \/ \E id \in win.popups : acceptShortIgnore(id) \/ acceptLongIgnore(id)
  \/ openDLArmory \/ closeDL \/ startOrStopDownload \/ getFileSave \/ messageRead
  \/ \E pkg \in {"a", "b"} : useSelectedPackage(pkg)
  \/ \E r \in dl.replies : \/ downloadFinished(r)
                           \/ \E data \in {"part", "whole", "other"} :
                                readMoreDownloadData(r, data)

-----------------------------------------------------------------------------

Writing(f) == adf.pc = "write" /\ adf.fid = f

\* The texts that the fetcher stores were signed: each file in the directory is
\* the one of a digest signed so far, however the server's files change between
\* the digest and the fetch, and the hash that the fetcher believes it has is
\* the file's.  Half a file is one that is being written, or whose writing was
\* broken off, by an error or the end of the program, and has not been repeated
\* (__runFetchSequence).
StoredIsSigned ==
  \A f \in Fids :
    /\ disk[f] \in {ads.disk[f], Half} \cup {ads.publish[k][f] : k \in 1..server.signed}
    /\ disk[f] = Half \/ adf.fileHashMap[f] # disk[f] => Writing(f) \/ f \in count.broken

\* The window may parse half a file, since the thread may begin to write it after
\* the window has found the thread idle.  It then takes the file for a modified
\* one, or is about to read it, so that it parses the whole file as well; unless
\* the writing was broken off (processAnnounceData, getAnnounceFile).
HalfIsReread ==
  \A f \in Fids :
    win.text[f] = Half => f \in win.modified \cup count.broken \/ win.reading = f

\* What the secure downloader saves is the program of the entry that is
\* selected, whole, although the hash was checked before the user was asked for
\* a name and other replies' signals come in between; or an empty file, if the
\* signal of a cancelled reply has taken the data away (downloadFinished).
SavedIsVerified ==
  \A s \in dl.saved : s.data = "none" \/ (s.data = "whole" /\ s.of = s.url)

\* What is signed last gets into the directory, and from there to the window
\* or is noted as missed: a file that is written while the window looks and
\* the thread goes on with the next one is not looked at again.  Two exceptions:
\* half a file stays for good if its writing failed and the file before it is
\* signed again, since its hash is the one noted; and nothing is looked at after
\* half a notification has ended the Heartbeat.
CatchesUp ==
  <>[](ads.on => \A f \in Fids :
         /\ \/ ads.publish = <<>>
            \/ disk[f] = ads.publish[Len(ads.publish)][f]
            \/ f \in count.broken /\ adf.fileHashMap[f] = ads.publish[Len(ads.publish)][f]
         /\ win.text[f] = disk[f] \/ f \in win.missed \/ win.beat = "dead")

\* What is stored, parsed and saved is whole and signed, or is known not to be,
\* whatever the server, the user and the fetcher's thread do in between.
KeptIsSigned == StoredIsSigned /\ HalfIsReread /\ SavedIsVerified

=============================================================================
