--------------------------- MODULE AnnounceProofs ---------------------------
(***************************************************************************)
(* What the announcement thread stores, the window parses and the secure   *)
(* downloader saves is whole and was signed, or is known not to be         *)
(* (KeptIsSigned), for any scenarios of the window and of the              *)
(* announcements: any number of published digests, faults, restarts,       *)
(* forced fetches and downloads.                                           *)
(*                                                                         *)
(* Nothing is synchronised.  Between the digest and the files that it      *)
(* names the server may publish new ones; between the window's test        *)
(* whether the thread is idle and its reading the thread may truncate the  *)
(* file; between the check of a program's hash and its being saved other   *)
(* replies may end.  The invariant therefore relates the thread's place in *)
(* __runFetchSequence to a digest that was signed at some time, half a     *)
(* file to the one being written or broken off, a file that is written     *)
(* after the test to the modified ones, and each box that asks for a name  *)
(* to what has been received.                                              *)
(***************************************************************************)
EXTENDS MainThread, TLAPS

AdfFields == {"fileHashMap", "pc", "digest", "fid", "got", "left"}
WinFields == {"text", "modified", "reading", "tested"}
DlFields  == {"url", "of", "receivedData", "saved", "boxes"}

HasFields(r, S) == r = [k \in DOMAIN r |-> r[k]] /\ S \subseteq DOMAIN r

\* The fields that the argument reads are there.
Fields ==
  /\ HasFields(adf, AdfFields)
  /\ HasFields(win, WinFields)
  /\ HasFields(dl, DlFields)
  /\ HasFields(server, {"signed"})
  /\ HasFields(count, {"broken"})
  /\ adf.fileHashMap = [f \in Fids |-> adf.fileHashMap[f]]
  /\ win.text = [f \in Fids |-> win.text[f]]
  /\ disk = [f \in Fids |-> disk[f]]

\* The texts of the file f that were signed so far or were there before.
Known(f) == {ads.disk[f]} \cup {ads.publish[k][f] : k \in 1..server.signed}

Whole == ads.publish \in Seq([Fids -> Nat]) /\ ads.disk \in [Fids -> Nat]

\* What was checked before the user was asked for a name is still there, or
\* nothing is, and only that was ever saved.
BoxesInv ==
  /\ dl.boxes \in Seq({"where", "told"})
  /\ \A i \in DOMAIN dl.boxes : dl.boxes[i] = "where" => dl.receivedData = "none" \/ verified(dl)
  /\ SavedIsVerified

SignedInv ==
  /\ Fields
  /\ Whole
  /\ server.signed \in 0..Len(ads.publish)
  \* the digest at hand was signed
  /\ adf.pc \in {"files", "write"} => \E k \in 1..server.signed : adf.digest = ads.publish[k]
  \* what is about to be written has the digest's hash
  /\ adf.pc = "write" => adf.fid \in Fids /\ adf.got = adf.digest[adf.fid]
  \* half a file is the one being written, or one whose writing was broken off
  /\ \A f \in Fids : disk[f] \in Known(f) \cup {Half}
  /\ \A f \in Fids : disk[f] = Half \/ adf.fileHashMap[f] # disk[f] => Writing(f) \/ f \in count.broken
  \* a file that is written after the window has tested is a modified one
  /\ win.modified \subseteq Fids
  /\ win.tested \in BOOLEAN
  /\ win.tested => win.reading # "none" /\ \A f \in Fids : Writing(f) => f \in win.modified
  /\ HalfIsReread
  /\ BoxesInv

-----------------------------------------------------------------------------
\* At the start the thread knows the hashes of the files that are there.
LEMMA InitOK == Init => SignedInv
<1> SUFFICES ASSUME Init PROVE SignedInv
  OBVIOUS
<1>1. ads \in AdWorlds /\ disk = ads.disk /\ adf = Fetcher(disk) /\ win = Window({}) /\ dl = Closed
      /\ server = [signed |-> 0, files |-> [f \in Fids |-> 0], now |-> 0]
      /\ count = [faults |-> 0, starts |-> 1, forces |-> 0, gets |-> 0, broken |-> {}]
  BY DEF Init, InitAnnounce
<1>2. Whole
  BY <1>1, AdWorldsAssumption DEF Whole
<1>3. /\ adf.fileHashMap = disk /\ adf.pc \in {"top", "off"}
      /\ HasFields(adf, AdfFields)
  BY <1>1, Zenon DEF Fetcher, HasFields, AdfFields
<1>4. /\ HasFields(win, WinFields) /\ win.text = [f \in Fids |-> 0] /\ win.modified = Fids
      /\ win.tested = FALSE
  BY <1>1, Zenon DEF Window, HasFields, WinFields
<1>5. HasFields(dl, DlFields) /\ dl.saved = {} /\ dl.boxes = <<>>
  BY <1>1, Zenon DEF Closed, HasFields, DlFields
<1>6. HasFields(server, {"signed"}) /\ HasFields(count, {"broken"}) /\ server.signed = 0
  BY <1>1 DEF HasFields
<1>7. disk = [f \in Fids |-> disk[f]] /\ \A f \in Fids : disk[f] = ads.disk[f] /\ disk[f] \in Nat
  BY <1>1, <1>2 DEF Whole
<1>8. Fields
  BY <1>3, <1>4, <1>5, <1>6, <1>7 DEF Fields
<1>9. HalfIsReread /\ BoxesInv
  BY <1>4, <1>5 DEF HalfIsReread, BoxesInv, SavedIsVerified, Half
<1>10. \A f \in Fids : disk[f] \in Known(f) /\ disk[f] # Half /\ adf.fileHashMap[f] = disk[f]
  BY <1>3, <1>7 DEF Known, Half
<1>11. server.signed \in 0..Len(ads.publish)
  BY <1>2, <1>6 DEF Whole
<1> QED BY <1>2, <1>3, <1>4, <1>8, <1>9, <1>10, <1>11 DEF SignedInv

\* The window and the other threads of the program touch none of it.
LEMMA StutterKeeps == ASSUME SignedInv, UNCHANGED announceVars PROVE SignedInv'
<1>1. UNCHANGED <<ads, server, disk, adf, win, dl, count>>
  BY DEF announceVars
<1>2. Fields' /\ Whole'
  BY <1>1 DEF SignedInv, Fields, Whole
<1>3. HalfIsReread' /\ BoxesInv'
  BY <1>1 DEF SignedInv, HalfIsReread, BoxesInv, SavedIsVerified, verified
<1>4. \A f \in Fids : Known(f)' = Known(f) /\ Writing(f)' = Writing(f)
  BY <1>1 DEF Known, Writing
<1> QED BY <1>1, <1>2, <1>3, <1>4 DEF SignedInv

-----------------------------------------------------------------------------
(* The server. *)

\* New files and new digests leave what is known as it was.
LEMMA ServerKeeps == ASSUME SignedInv, Server \/ timePasses PROVE SignedInv'
<1>1. UNCHANGED <<ads, disk, adf, win, dl, count>>
  BY DEF Server, upload, sign, timePasses
<1>2. HasFields(server', {"signed"}) /\ server'.signed \in 0..Len(ads.publish)
      /\ server'.signed >= server.signed
  <2>1. /\ HasFields(server, {"signed"}) /\ server.signed \in 0..Len(ads.publish)
        /\ ads.publish \in Seq([Fids -> Nat])
    BY DEF SignedInv, Fields, Whole
  <2>2. CASE sign
    BY <2>1, <2>2 DEF sign, HasFields
  <2>3. ASSUME NEW f \in Fids, upload(f)
        PROVE  HasFields(server', {"signed"}) /\ server'.signed = server.signed
    BY <2>1, <2>3, ZenonT(60) DEF upload, HasFields
  <2>4. CASE timePasses
    BY <2>1, <2>4 DEF timePasses, HasFields
  <2> QED BY <2>1, <2>2, <2>3, <2>4 DEF Server
<1>3. server.signed \in Nat /\ server'.signed \in Nat
  BY <1>2 DEF SignedInv, Whole
<1>4. 1..server.signed \subseteq 1..server'.signed
  BY <1>2, <1>3
<1>5. \A f \in Fids : Known(f) \subseteq Known(f)'
  BY <1>1, <1>4 DEF Known
<1>6. Fields' /\ Whole'
  BY <1>1, <1>2 DEF SignedInv, Fields, Whole
<1>7. adf.pc \in {"files", "write"} => \E k \in 1..server'.signed : adf.digest = ads.publish[k]
  BY <1>4 DEF SignedInv
<1>8. HalfIsReread' /\ BoxesInv' /\ \A f \in Fids : Writing(f)' = Writing(f)
  BY <1>1 DEF SignedInv, HalfIsReread, BoxesInv, SavedIsVerified, verified, Writing
<1> QED BY <1>1, <1>2, <1>5, <1>6, <1>7, <1>8 DEF SignedInv

-----------------------------------------------------------------------------
(* The thread. *)

\* A step of the thread or of the window that changes neither the files nor what
\* is known of them.
LEMMA ThreadKeeps ==
  ASSUME SignedInv, UNCHANGED <<ads, server, disk, dl>>,
         HasFields(win', WinFields), win'.text = win.text, win'.modified = win.modified,
         win'.reading = win.reading, win'.tested = win.tested,
         HasFields(count', {"broken"}), count'.broken = count.broken,
         HasFields(adf', AdfFields), adf'.fileHashMap = adf.fileHashMap,
         \/ adf'.pc = adf.pc /\ adf'.digest = adf.digest /\ adf'.fid = adf.fid /\ adf'.got = adf.got
         \/ /\ adf.pc # "write" /\ adf'.pc # "write"
            /\ adf'.pc = "files" => \E k \in 1..server.signed : adf'.digest = ads.publish[k]
  PROVE  SignedInv'
<1>1. Fields' /\ Whole'
  BY DEF SignedInv, Fields, Whole, AdfFields
<1>2. HalfIsReread' /\ BoxesInv'
  BY DEF SignedInv, HalfIsReread, BoxesInv, SavedIsVerified, verified
<1>3. \A f \in Fids : Known(f)' = Known(f) /\ Writing(f)' = Writing(f)
  BY DEF Known, Writing
<1> QED BY <1>1, <1>2, <1>3 DEF SignedInv

\* The records that the steps change.
LEMMA Records ==
  SignedInv => /\ HasFields(adf, AdfFields) /\ HasFields(win, WinFields)
               /\ HasFields(count, {"broken"}) /\ HasFields(dl, DlFields)
BY DEF SignedInv, Fields

\* The steps of the thread before and after the files.
LEMMA LoopKeeps == ASSUME SignedInv, loopTop \/ fails \/ fetchDigest \/ fetchDone PROVE SignedInv'
<1>1. HasFields(adf, AdfFields)
  BY Records
<1>2. HasFields(count, {"broken"}) /\ HasFields(win, WinFields)
  BY Records
<1>3. CASE loopTop
  <2>1. HasFields(adf', AdfFields) /\ adf'.fileHashMap = adf.fileHashMap /\ adf'.pc = "digest"
    BY <1>1, <1>3, Zenon DEF loopTop, HasFields, AdfFields
  <2> QED BY <1>2, <1>3, <2>1, ThreadKeeps DEF loopTop
<1>4. giveUp => HasFields(adf', AdfFields) /\ adf'.fileHashMap = adf.fileHashMap /\ adf'.pc = "top"
  BY <1>1, ZenonT(60) DEF giveUp, HasFields, AdfFields
<1>5. CASE fails
  <2>1. HasFields(count', {"broken"}) /\ count'.broken = count.broken
    BY <1>2, <1>5 DEF fails, HasFields
  <2>2. adf.pc # "write"
    BY <1>5 DEF fails
  <2> QED BY <1>2, <1>4, <1>5, <2>1, <2>2, ThreadKeeps DEF fails
<1>6. CASE fetchDigest
  <2>1. CASE server.signed = 0
    BY <1>2, <1>4, <1>6, <2>1, ThreadKeeps DEF fetchDigest
  <2>2. CASE server.signed # 0
    <3>1. /\ HasFields(adf', AdfFields) /\ adf'.fileHashMap = adf.fileHashMap /\ adf'.pc = "files"
          /\ adf'.digest = ads.publish[server.signed]
      BY <1>1, <1>6, <2>2, ZenonT(60) DEF fetchDigest, HasFields, AdfFields, Digest
    <3>2. server.signed \in 1..server.signed
      BY <2>2 DEF SignedInv, Whole
    <3>3. \E k \in 1..server.signed : adf'.digest = ads.publish[k]
      BY <3>1, <3>2
    <3> QED BY <1>2, <1>6, <3>1, <3>3, ThreadKeeps DEF fetchDigest
  <2> QED BY <2>1, <2>2
<1>7. CASE fetchDone
  <2>1. HasFields(adf', AdfFields) /\ adf'.fileHashMap = adf.fileHashMap /\ adf'.pc = "top"
    BY <1>1, <1>7, ZenonT(60) DEF fetchDone, HasFields, AdfFields
  <2> QED BY <1>2, <1>7, <2>1, ThreadKeeps DEF fetchDone
<1> QED BY <1>3, <1>5, <1>6, <1>7

\* A file is fetched: it is up to date, or is not the one of the digest, or is
\* truncated, which makes it a modified one.
LEMMA FetchKeeps == ASSUME SignedInv, NEW f \in Fids, NEW new, fetchFile(f, new) PROVE SignedInv'
<1>1. HasFields(adf, AdfFields)
  BY Records
<1>2. HasFields(count, {"broken"}) /\ HasFields(win, WinFields)
  BY Records
<1>3. HasFields(count', {"broken"}) /\ count'.broken = count.broken
  BY <1>2 DEF fetchFile, HasFields
<1>4. adf.pc = "files" /\ UNCHANGED <<ads, server, dl>>
  BY DEF fetchFile
<1>5. CASE upToDate(f)
  <2>1. /\ UNCHANGED <<disk, win>> /\ HasFields(adf', AdfFields) /\ adf'.fileHashMap = adf.fileHashMap
        /\ adf'.pc = adf.pc /\ adf'.digest = adf.digest /\ adf'.fid = adf.fid /\ adf'.got = adf.got
    BY <1>1, <1>5 DEF fetchFile, HasFields, AdfFields
  <2> QED BY <1>2, <1>3, <1>4, <2>1, ThreadKeeps
<1>6. CASE ~upToDate(f) /\ ~matches(new, adf.digest[f])
  <2>1. /\ UNCHANGED <<disk, win>> /\ HasFields(adf', AdfFields) /\ adf'.fileHashMap = adf.fileHashMap
        /\ adf'.pc = "top"
    BY <1>1, <1>6, ZenonT(60) DEF fetchFile, giveUp, HasFields, AdfFields
  <2> QED BY <1>2, <1>3, <1>4, <2>1, ThreadKeeps
<1>7. CASE ~upToDate(f) /\ matches(new, adf.digest[f])
  <2>1. /\ HasFields(adf', AdfFields) /\ adf'.fileHashMap = adf.fileHashMap /\ adf'.pc = "write"
        /\ adf'.digest = adf.digest /\ adf'.fid = f /\ adf'.got = adf.digest[f]
    BY <1>1, <1>7, ZenonT(60) DEF fetchFile, HasFields, AdfFields, matches
  <2>2. disk' = [disk EXCEPT ![f] = Half] /\ disk = [g \in Fids |-> disk[g]]
    BY <1>7 DEF fetchFile, SignedInv, Fields
  <2>3. disk'[f] = Half /\ disk' = [g \in Fids |-> disk'[g]] /\ \A g \in Fids : g # f => disk'[g] = disk[g]
    BY <2>2
  <2>4. /\ HasFields(win', WinFields) /\ win'.text = win.text /\ win'.modified = win.modified \cup {f}
        /\ win'.reading = win.reading /\ win'.tested = win.tested
    BY <1>2, <1>7, ZenonT(60) DEF fetchFile, HasFields, WinFields
  <2>5. Fields' /\ Whole'
    BY <1>2, <1>3, <1>4, <2>1, <2>3, <2>4 DEF SignedInv, Fields, Whole, AdfFields
  <2>6. HalfIsReread' /\ BoxesInv'
    BY <1>3, <1>4, <2>4 DEF SignedInv, HalfIsReread, BoxesInv, SavedIsVerified, verified
  <2>7. /\ \A g \in Fids : Known(g)' = Known(g) /\ ~Writing(g)
        /\ \A g \in Fids : Writing(g)' <=> g = f
    BY <1>4, <2>1 DEF Known, Writing
  <2>8. /\ win'.modified \subseteq Fids
        /\ \A g \in Fids : Writing(g)' => g \in win'.modified
    BY <2>4, <2>7 DEF SignedInv
  <2>9. /\ \A g \in Fids : disk'[g] \in Known(g)' \cup {Half}
        /\ \A g \in Fids : disk'[g] = Half \/ adf'.fileHashMap[g] # disk'[g]
                             => Writing(g)' \/ g \in count'.broken
    BY <1>3, <2>1, <2>3, <2>7 DEF SignedInv
  <2>10. \E k \in 1..server'.signed : adf'.digest = ads'.publish[k]
    BY <1>4, <2>1 DEF SignedInv
  <2>11. win'.tested \in BOOLEAN /\ (win'.tested => win'.reading # "none")
    BY <2>4 DEF SignedInv
  <2> QED BY <1>4, <2>1, <2>5, <2>6, <2>8, <2>9, <2>10, <2>11 DEF SignedInv
<1> QED BY <1>5, <1>6, <1>7

\* The file is written: it is the one of a signed digest, and its hash is noted.
LEMMA WriteKeeps == ASSUME SignedInv, writeFile PROVE SignedInv'
<1>1. HasFields(adf, AdfFields) /\ adf.fileHashMap = [g \in Fids |-> adf.fileHashMap[g]]
  BY Records DEF SignedInv, Fields
<1>2. PICK f \in Fids : f = adf.fid
  BY DEF SignedInv, writeFile
<1>3. UNCHANGED <<ads, server, dl>> /\ adf.pc = "write"
  BY DEF writeFile
<1>4. /\ HasFields(win', WinFields) /\ win'.text = win.text /\ win'.modified = win.modified \cup {f}
      /\ win'.reading = win.reading /\ win'.tested = win.tested
  BY <1>2, Records, ZenonT(60) DEF writeFile, HasFields, WinFields
<1>5. HasFields(count', {"broken"}) /\ count'.broken = count.broken \ {f}
  BY <1>2, Records, ZenonT(60) DEF writeFile, HasFields
<1>6. disk' = [disk EXCEPT ![f] = adf.digest[f]] /\ disk = [g \in Fids |-> disk[g]]
  BY <1>2, Zenon DEF writeFile, SignedInv, Fields
<1>7. disk'[f] = adf.digest[f] /\ disk' = [g \in Fids |-> disk'[g]] /\ \A g \in Fids : g # f => disk'[g] = disk[g]
  BY <1>6
<1>8. /\ HasFields(adf', AdfFields) /\ adf'.pc = "files" /\ adf'.digest = adf.digest
      /\ adf'.fileHashMap = [adf.fileHashMap EXCEPT ![f] = adf.digest[f]]
  BY <1>1, <1>2, ZenonT(60) DEF writeFile, HasFields, AdfFields
<1>9. PICK k \in 1..server.signed : adf.digest = ads.publish[k]
  BY <1>3 DEF SignedInv
<1>10. adf.digest[f] \in Known(f) /\ adf.digest[f] # Half
  <2>1. k \in 1..Len(ads.publish) /\ ads.publish \in Seq([Fids -> Nat])
    BY <1>9 DEF SignedInv, Whole
  <2>2. ads.publish[k] \in [Fids -> Nat]
    BY <2>1
  <2> QED BY <1>2, <1>9, <2>2 DEF Known, Half
<1>11. /\ adf'.fileHashMap = [g \in Fids |-> adf'.fileHashMap[g]]
       /\ adf'.fileHashMap[f] = disk'[f]
       /\ \A g \in Fids : g # f => adf'.fileHashMap[g] = adf.fileHashMap[g]
  BY <1>1, <1>2, <1>7, <1>8
<1>12. Fields' /\ Whole'
  BY <1>3, <1>4, <1>5, <1>7, <1>8, <1>11 DEF SignedInv, Fields, Whole, AdfFields
<1>13. HalfIsReread' /\ BoxesInv'
  BY <1>3, <1>4, <1>5 DEF SignedInv, HalfIsReread, BoxesInv, SavedIsVerified, verified
<1>14. \A g \in Fids : Known(g)' = Known(g) /\ ~Writing(g)' /\ (Writing(g) <=> g = f)
  BY <1>2, <1>3, <1>8 DEF Known, Writing
<1>15. \A g \in Fids : disk'[g] \in Known(g)' \cup {Half}
  BY <1>7, <1>10, <1>14 DEF SignedInv
<1>16. \A g \in Fids : disk'[g] = Half \/ adf'.fileHashMap[g] # disk'[g] => g \in count'.broken
  <2> TAKE g \in Fids
  <2>1. CASE g = f
    BY <2>1, <1>7, <1>10, <1>11
  <2>2. CASE g # f
    BY <2>2, <1>5, <1>7, <1>11, <1>14 DEF SignedInv
  <2> QED BY <2>1, <2>2
<1>17. \E j \in 1..server'.signed : adf'.digest = ads'.publish[j]
  BY <1>3, <1>8, <1>9
<1> QED BY <1>3, <1>4, <1>8, <1>12, <1>13, <1>14, <1>15, <1>16, <1>17 DEF SignedInv

\* The writing fails: half of the file stays.
LEMMA WriteFailsKeeps == ASSUME SignedInv, writeFails PROVE SignedInv'
<1>1. PICK f \in Fids : f = adf.fid
  BY DEF SignedInv, writeFails
<1>2. UNCHANGED <<ads, server, disk, win, dl>> /\ adf.pc = "write"
  BY DEF writeFails
<1>3. HasFields(count', {"broken"}) /\ count'.broken = count.broken \cup {f}
  BY <1>1, Records, ZenonT(60) DEF writeFails, HasFields
<1>4. HasFields(adf', AdfFields) /\ adf'.fileHashMap = adf.fileHashMap /\ adf'.pc = "top"
  BY Records, ZenonT(60) DEF writeFails, giveUp, HasFields, AdfFields
<1>5. Fields' /\ Whole'
  BY <1>2, <1>3, <1>4 DEF SignedInv, Fields, Whole, AdfFields
<1>6. HalfIsReread' /\ BoxesInv'
  BY <1>2, <1>3 DEF SignedInv, HalfIsReread, BoxesInv, SavedIsVerified, verified
<1>7. \A g \in Fids : Known(g)' = Known(g) /\ ~Writing(g)' /\ (Writing(g) <=> g = f)
  BY <1>1, <1>2, <1>4 DEF Known, Writing
<1>8. \A g \in Fids : disk'[g] = Half \/ adf'.fileHashMap[g] # disk'[g] => g \in count'.broken
  BY <1>2, <1>3, <1>4, <1>7 DEF SignedInv
<1> QED BY <1>2, <1>4, <1>5, <1>6, <1>7, <1>8 DEF SignedInv

-----------------------------------------------------------------------------
(* The window. *)

\* A step of the window in which no text is read.
LEMMA WindowKeeps ==
  ASSUME SignedInv, UNCHANGED <<ads, server, disk, adf>>,
         HasFields(win', WinFields), win'.text = win.text, win'.modified = win.modified,
         win'.reading = win.reading, win'.tested = win.tested,
         HasFields(count', {"broken"}), count'.broken = count.broken,
         HasFields(dl', DlFields), BoxesInv'
  PROVE  SignedInv'
<1>1. Fields' /\ Whole'
  BY DEF SignedInv, Fields, Whole
<1>2. HalfIsReread'
  BY DEF SignedInv, HalfIsReread
<1>3. \A f \in Fids : Known(f)' = Known(f) /\ Writing(f)' = Writing(f)
  BY DEF Known, Writing
<1> QED BY <1>1, <1>2, <1>3 DEF SignedInv

\* The window begins to look at the files or ends it, or asks for a fetch, or a
\* notification is answered.
LEMMA CallsKeep ==
  ASSUME SignedInv,
         \/ processAnnounceData \/ fetchRightNow \/ fetchedOrTimeout \/ BeatGoesOn
         \/ \E id \in win.popups : acceptShortIgnore(id) \/ acceptLongIgnore(id)
  PROVE  SignedInv'
<1> DEFINE Same(v, u) == /\ HasFields(v, WinFields) /\ v.text = u.text /\ v.modified = u.modified
                         /\ v.reading = u.reading /\ v.tested = u.tested
<1>1. /\ HasFields(win, WinFields) /\ HasFields(count, {"broken"}) /\ HasFields(adf, AdfFields)
      /\ HasFields(dl, DlFields) /\ BoxesInv
  BY Records DEF SignedInv
<1>2. ASSUME UNCHANGED <<ads, server, disk, adf, dl, count>>, Same(win', win) PROVE SignedInv'
  <2>1. BoxesInv'
    BY <1>1, <1>2 DEF BoxesInv, SavedIsVerified, verified
  <2> QED BY <1>1, <1>2, <2>1, WindowKeeps
<1>3. CASE processAnnounceData
  <2>1. Same(win', win)
    BY <1>1, <1>3, ZenonT(60) DEF processAnnounceData, HasFields, WinFields
  <2> QED BY <1>2, <1>3, <2>1 DEF processAnnounceData
<1>4. CASE BeatGoesOn
  <2>1. Same(win', win)
    BY <1>1, <1>4, ZenonT(60) DEF BeatGoesOn, HasFields, WinFields
  <2> QED BY <1>2, <1>4, <2>1 DEF BeatGoesOn
<1>5. CASE fetchRightNow
  <2>1. Same(win', win) /\ HasFields(count', {"broken"}) /\ count'.broken = count.broken
    BY <1>1, <1>5, ZenonT(60) DEF fetchRightNow, HasFields, WinFields
  <2>2. /\ HasFields(adf', AdfFields) /\ adf'.fileHashMap = adf.fileHashMap
        /\ adf'.pc = adf.pc /\ adf'.digest = adf.digest /\ adf'.fid = adf.fid /\ adf'.got = adf.got
    BY <1>1, <1>5, ZenonT(60) DEF fetchRightNow, HasFields, AdfFields
  <2> QED BY <1>5, <2>1, <2>2, ThreadKeeps DEF fetchRightNow
<1>6. CASE fetchedOrTimeout
  <2>1. Same(win', win)
    BY <1>1, <1>6, ZenonT(60) DEF fetchedOrTimeout, HasFields, WinFields
  <2>2. /\ HasFields(adf', AdfFields) /\ adf'.fileHashMap = adf.fileHashMap
        /\ adf'.pc = adf.pc /\ adf'.digest = adf.digest /\ adf'.fid = adf.fid /\ adf'.got = adf.got
    BY <1>1, <1>6, ZenonT(60) DEF fetchedOrTimeout, HasFields, AdfFields
  <2> QED BY <1>1, <1>6, <2>1, <2>2, ThreadKeeps DEF fetchedOrTimeout
<1>7. ASSUME NEW id, acceptShortIgnore(id) \/ acceptLongIgnore(id)
      PROVE  SignedInv'
  <2>1. Same(win', win)
    <3>1. CASE acceptShortIgnore(id)
      BY <1>1, <3>1, ZenonT(60) DEF acceptShortIgnore, HasFields, WinFields
    <3>2. CASE acceptLongIgnore(id)
      <4>1. PICK short, long, kept, no :
              win' = [win EXCEPT !.popups = @ \ {id}, !.ignoreShort = short,
                        !.ignoreLong = long, !.saved = kept, !.refused = no]
        BY <3>2, ZenonT(60) DEF acceptLongIgnore
      <4>2. PICK v : v = [win EXCEPT !.popups = @ \ {id}, !.ignoreShort = short]
        OBVIOUS
      <4>3. Same(v, win)
        BY <1>1, <4>2, ZenonT(60) DEF HasFields, WinFields
      <4>4. win' = [v EXCEPT !.ignoreLong = long, !.saved = kept, !.refused = no]
        BY <4>1, <4>2
      <4> QED BY <4>3, <4>4, ZenonT(60) DEF HasFields, WinFields
    <3> QED BY <1>7, <3>1, <3>2
  <2> QED BY <1>2, <1>7, <2>1, ZenonT(60) DEF acceptShortIgnore, acceptLongIgnore
<1> QED BY <1>3, <1>4, <1>5, <1>6, <1>7

\* A file that was modified is noted as up to date and is to be read.
LEMMA ProcessKeeps == ASSUME SignedInv, processFile PROVE SignedInv'
<1>1. HasFields(win, WinFields) /\ HasFields(count, {"broken"}) /\ HasFields(dl, DlFields)
  BY Records
<1>2. UNCHANGED <<ads, server, disk, adf, dl, count>> /\ BoxesInv'
  BY DEF processFile, SignedInv, BoxesInv, SavedIsVerified, verified
<1>3. PICK f : f = Head(win.todo)
  OBVIOUS
<1>4. CASE f \notin win.modified
  <2>1. win' = [win EXCEPT !.todo = Tail(@)]
    BY <1>3, <1>4 DEF processFile
  <2>2. /\ HasFields(win', WinFields) /\ win'.text = win.text /\ win'.modified = win.modified
        /\ win'.reading = win.reading /\ win'.tested = win.tested
    BY <1>1, <2>1, ZenonT(60) DEF HasFields, WinFields
  <2> QED BY <1>1, <1>2, <2>2, WindowKeeps
<1>5. CASE f \in win.modified
  <2>1. win' = [win EXCEPT !.todo = Tail(@), !.modified = @ \ {f}, !.reading = f]
    BY <1>3, <1>5 DEF processFile
  <2>2. /\ HasFields(win', WinFields) /\ win'.text = win.text /\ win'.modified = win.modified \ {f}
        /\ win'.reading = f /\ win'.tested = win.tested
    BY <1>1, <2>1, ZenonT(60) DEF HasFields, WinFields
  <2>3. Fields' /\ Whole'
    BY <1>2, <2>2 DEF SignedInv, Fields, Whole
  <2>4. HalfIsReread'
    <3>1. win.reading = "none" /\ HalfIsReread
      BY DEF SignedInv, processFile
    <3> QED BY <1>2, <2>2, <3>1 DEF HalfIsReread, Fids
  <2>5. \A g \in Fids : Known(g)' = Known(g) /\ Writing(g)' = Writing(g)
    BY <1>2 DEF Known, Writing
  <2>6. win.tested = FALSE
    BY DEF SignedInv, processFile
  <2> QED BY <1>2, <2>2, <2>3, <2>4, <2>5, <2>6 DEF SignedInv
<1> QED BY <1>4, <1>5

\* What processNotifications makes of the window leaves the texts alone.
LEMMA NotifiedKeeps ==
  ASSUME NEW v, HasFields(v, WinFields), NEW all, NEW u \in notified(v, all)
  PROVE  /\ HasFields(u, WinFields) /\ u.text = v.text /\ u.modified = v.modified
         /\ u.reading = v.reading /\ u.tested = v.tested
<1>1. \/ \E short, pop : u = [v EXCEPT !.ignoreShort = short, !.popups = pop]
      \/ \E ids : u = raised([v EXCEPT !.ignoreShort = ids])
  BY ZenonT(60) DEF notified
<1>2. CASE \E short, pop : u = [v EXCEPT !.ignoreShort = short, !.popups = pop]
  BY <1>2, ZenonT(60) DEF HasFields, WinFields
<1>3. ASSUME NEW ids, u = raised([v EXCEPT !.ignoreShort = ids])
      PROVE  /\ HasFields(u, WinFields) /\ u.text = v.text /\ u.modified = v.modified
             /\ u.reading = v.reading /\ u.tested = v.tested
  <2>1. PICK t : t = [v EXCEPT !.ignoreShort = ids]
    OBVIOUS
  <2>2. /\ HasFields(t, WinFields) /\ t.text = v.text /\ t.modified = v.modified
        /\ t.reading = v.reading /\ t.tested = v.tested
    BY <2>1, ZenonT(60) DEF HasFields, WinFields
  <2>3. PICK b : u = [t EXCEPT !.todo = <<>>, !.beat = b]
    BY <1>3, <2>1, ZenonT(60) DEF raised
  <2> QED BY <2>2, <2>3, ZenonT(60) DEF HasFields, WinFields
<1> QED BY <1>1, <1>2, <1>3

\* A text is given to the one that has asked for it.
LEMMA TextKeeps ==
  ASSUME SignedInv, UNCHANGED <<ads, server, disk, adf, count>>, NEW text \in Nat \cup {Half},
         NEW inTime \in BOOLEAN,
         processText(text, inTime),
         \A f \in Fids : win.reading = f /\ text = Half => f \in win.modified \cup count.broken
  PROVE  SignedInv'
<1>1. /\ HasFields(win, WinFields) /\ HasFields(count, {"broken"}) /\ HasFields(dl, DlFields)
      /\ win.text = [g \in Fids |-> win.text[g]]
  BY Records DEF SignedInv, Fields
<1>2. \A g \in Fids : Known(g)' = Known(g) /\ Writing(g)' = Writing(g)
  BY DEF Known, Writing
<1>3. CASE win.reading \in Fids
  <2>1. PICK f \in Fids : f = win.reading
    BY <1>3
  <2>2. PICK v : v = [win EXCEPT !.reading = "none", !.tested = FALSE, !.text[f] = text,
                        !.missed = IF inTime THEN @ \ {f} ELSE @ \cup {f}]
    OBVIOUS
  <2>3. /\ HasFields(v, WinFields) /\ v.modified = win.modified /\ v.text = [win.text EXCEPT ![f] = text]
        /\ v.reading = "none" /\ v.tested = FALSE
    <3>1. PICK gone : v = [win EXCEPT !.reading = "none", !.tested = FALSE, !.text[f] = text, !.missed = gone]
      BY <2>2, ZenonT(60)
    <3> QED BY <1>1, <3>1, ZenonT(60) DEF HasFields, WinFields
  <2>4. /\ win' \in processDownloads(v, text) \/ win' \in processNotifications(v, text)
        /\ UNCHANGED dl
    BY <2>1, <2>2 DEF processText, Fids
  <2>5. /\ HasFields(win', WinFields) /\ win'.text = v.text /\ win'.modified = v.modified
        /\ win'.reading = v.reading /\ win'.tested = v.tested
    <3>1. CASE win' \in processDownloads(v, text)
      <4>1. win' = v \/ \E u : win' = [v EXCEPT !.versionNotification = u]
        BY <3>1 DEF processDownloads, Half
      <4> QED BY <2>3, <4>1, ZenonT(60) DEF HasFields, WinFields
    <3>2. CASE win' \in processNotifications(v, text)
      <4>1. PICK all : win' \in notified(v, all)
        BY <3>2, ZenonT(60) DEF processNotifications
      <4> QED BY <2>3, <4>1, NotifiedKeeps
    <3> QED BY <2>4, <3>1, <3>2
  <2>6. HalfIsReread'
    BY <1>1, <2>1, <2>3, <2>5 DEF SignedInv, HalfIsReread
  <2>7. win'.text = [g \in Fids |-> win'.text[g]]
    BY <1>1, <2>3, <2>5
  <2>8. Fields' /\ Whole' /\ BoxesInv'
    BY <2>4, <2>5, <2>7 DEF SignedInv, Fields, Whole, BoxesInv, SavedIsVerified, verified
  <2> QED BY <1>2, <2>3, <2>5, <2>6, <2>8 DEF SignedInv
<1>4. CASE win.reading \notin Fids
  <2>1. /\ win.reading = "secure downloader"
        /\ win' = [win EXCEPT !.reading = "none", !.tested = FALSE]
        /\ dl' = [Closed EXCEPT !.open = TRUE, !.saved = dl.saved] \/ dl' = dl
    BY <1>4 DEF processText, Fids
  <2>2. /\ HasFields(win', WinFields) /\ win'.text = win.text /\ win'.modified = win.modified
        /\ win'.reading = "none" /\ win'.tested = FALSE
    BY <1>1, <2>1, ZenonT(60) DEF HasFields, WinFields
  <2>3. HasFields(dl', DlFields) /\ BoxesInv'
    <3>1. CASE dl' = dl
      BY <1>1, <3>1 DEF SignedInv, BoxesInv, SavedIsVerified, verified
    <3>2. CASE dl' = [Closed EXCEPT !.open = TRUE, !.saved = dl.saved]
      <4>1. HasFields(dl', DlFields) /\ dl'.saved = dl.saved /\ dl'.boxes = <<>>
        BY <3>2, ZenonT(60) DEF Closed, HasFields, DlFields
      <4> QED BY <4>1 DEF SignedInv, BoxesInv, SavedIsVerified
    <3> QED BY <2>1, <3>1, <3>2
  <2>4. HalfIsReread'
    BY <1>4, <2>2 DEF SignedInv, HalfIsReread
  <2>5. Fields' /\ Whole'
    BY <2>2, <2>3 DEF SignedInv, Fields, Whole
  <2> QED BY <1>2, <2>2, <2>3, <2>4, <2>5 DEF SignedInv
<1> QED BY <1>3, <1>4

\* The window has waited: the thread is idle and writes nothing, or no text is
\* given.
LEMMA WaitKeeps == ASSUME SignedInv, waitForIdle PROVE SignedInv'
<1>1. UNCHANGED <<ads, server, disk, adf, count>> /\ win.reading # "none"
  BY DEF waitForIdle
<1>2. CASE loopIsIdle /\ win' = [win EXCEPT !.tested = TRUE] /\ UNCHANGED dl
  <2>1. /\ HasFields(win', WinFields) /\ win'.text = win.text /\ win'.modified = win.modified
        /\ win'.reading = win.reading /\ win'.tested = TRUE
    BY <1>2, Records, ZenonT(60) DEF HasFields, WinFields
  <2>2. \A g \in Fids : Known(g)' = Known(g) /\ Writing(g)' = Writing(g) /\ ~Writing(g)
    BY <1>1, <1>2 DEF Known, Writing, loopIsIdle
  <2>3. HalfIsReread' /\ BoxesInv'
    BY <1>1, <1>2, <2>1 DEF SignedInv, HalfIsReread, BoxesInv, SavedIsVerified, verified
  <2>4. Fields' /\ Whole'
    BY <1>1, <1>2, <2>1 DEF SignedInv, Fields, Whole
  <2> QED BY <1>1, <2>1, <2>2, <2>3, <2>4 DEF SignedInv
<1>3. CASE processText(0, FALSE)
  <2>1. 0 \in Nat \cup {Half} /\ 0 # Half
    BY DEF Half
  <2>2. PICK text \in Nat \cup {Half}, late \in BOOLEAN : processText(text, late) /\ text # Half
    BY <1>3, <2>1, ZenonT(60)
  <2> QED BY <1>1, <2>1, <2>2, TextKeeps
<1> QED BY <1>2, <1>3 DEF waitForIdle

\* The file is read: if it is half a file, the thread has begun to write it since
\* the window has tested, or its writing was broken off.
LEMMA ReadKeeps == ASSUME SignedInv, getAnnounceFile PROVE SignedInv'
<1>1. UNCHANGED <<ads, server, disk, adf, count>> /\ win.tested
  BY DEF getAnnounceFile
<1>2. PICK text : text = disk[fileOf(win.reading)]
  OBVIOUS
<1>3. \A f \in Fids : win.reading = f /\ text = Half => f \in win.modified \cup count.broken
  BY <1>1, <1>2 DEF SignedInv, fileOf, Fids
<1>4. processText(text, TRUE)
  BY <1>2 DEF getAnnounceFile
<1>5. fileOf(win.reading) \in Fids
  BY <1>4 DEF processText, fileOf, Fids
<1>6. \A f \in Fids : Known(f) \subseteq Nat
  <2>1. /\ ads.publish \in Seq([Fids -> Nat]) /\ ads.disk \in [Fids -> Nat]
        /\ server.signed \in 0..Len(ads.publish)
    BY DEF SignedInv, Whole
  <2>2. \A k \in 1..server.signed : ads.publish[k] \in [Fids -> Nat]
    BY <2>1
  <2> QED BY <2>1, <2>2 DEF Known
<1>7. text \in Nat \cup {Half}
  BY <1>2, <1>5, <1>6 DEF SignedInv
<1> QED BY <1>1, <1>3, <1>4, <1>7, TextKeeps

\* The list of downloads is to be read; no other file is being read.
LEMMA OpenKeeps == ASSUME SignedInv, Free, openDLArmory PROVE SignedInv'
<1>1. /\ HasFields(win', WinFields) /\ win'.text = win.text /\ win'.modified = win.modified
      /\ win'.reading = "secure downloader" /\ win'.tested = win.tested
  BY Records, ZenonT(60) DEF openDLArmory, HasFields, WinFields
<1>2. UNCHANGED <<ads, server, disk, adf, dl, count>> /\ win.reading = "none"
  BY DEF openDLArmory, Free, Looking
<1>3. \A g \in Fids : Known(g)' = Known(g) /\ Writing(g)' = Writing(g)
  BY <1>2 DEF Known, Writing
<1>4. HalfIsReread' /\ BoxesInv'
  BY <1>1, <1>2 DEF SignedInv, HalfIsReread, BoxesInv, SavedIsVerified, verified, Fids
<1>5. Fields' /\ Whole'
  BY <1>1, <1>2 DEF SignedInv, Fields, Whole
<1> QED BY <1>1, <1>2, <1>3, <1>4, <1>5 DEF SignedInv

\* A handler that ends leaves nothing of what was received.
LEMMA HandlerEnds ==
  ASSUME NEW d, HasFields(d, DlFields)
  PROVE  /\ HasFields(handlerEnds(d), DlFields) /\ handlerEnds(d).saved = d.saved
         /\ handlerEnds(d).boxes = d.boxes /\ handlerEnds(d).receivedData = "none"
BY ZenonT(60) DEF handlerEnds, HasFields, DlFields

\* The secure downloader: what is in the boxes fits what has been received.
LEMMA DownloadKeeps ==
  ASSUME SignedInv,
         \/ closeDL \/ startOrStopDownload \/ getFileSave \/ messageRead
         \/ \E pkg \in {"a", "b"} : useSelectedPackage(pkg)
         \/ \E r \in dl.replies : \/ downloadFinished(r)
                                  \/ \E data \in {"part", "whole", "other"} :
                                        readMoreDownloadData(r, data)
  PROVE  SignedInv'
<1>1. /\ HasFields(win, WinFields) /\ HasFields(count, {"broken"}) /\ HasFields(dl, DlFields)
      /\ BoxesInv /\ SavedIsVerified /\ dl.boxes \in Seq({"where", "told"})
  BY Records DEF SignedInv, BoxesInv
<1>2. ASSUME UNCHANGED <<ads, server, disk, adf, win>>,
             HasFields(count', {"broken"}), count'.broken = count.broken,
             HasFields(dl', DlFields), BoxesInv'
      PROVE  SignedInv'
  BY <1>1, <1>2, WindowKeeps
<1>3. CASE closeDL
  <2>1. HasFields(dl', DlFields) /\ dl'.saved = dl.saved /\ dl'.boxes = <<>>
    BY <1>3, ZenonT(60) DEF closeDL, Closed, HasFields, DlFields
  <2>2. BoxesInv'
    BY <1>1, <2>1 DEF BoxesInv, SavedIsVerified
  <2> QED BY <1>1, <1>2, <1>3, <2>1, <2>2 DEF closeDL
<1>4. CASE startOrStopDownload
  <2>1. HasFields(count', {"broken"}) /\ count'.broken = count.broken
    BY <1>1, <1>4 DEF startOrStopDownload, HasFields
  <2>2. HasFields(dl', DlFields) /\ dl'.saved = dl.saved /\ dl'.boxes = <<>>
    BY <1>1, <1>4, ZenonT(60) DEF startOrStopDownload, HasFields, DlFields
  <2>3. BoxesInv'
    BY <1>1, <2>2 DEF BoxesInv, SavedIsVerified
  <2> QED BY <1>2, <1>4, <2>1, <2>2, <2>3 DEF startOrStopDownload
<1>5. ASSUME NEW pkg, useSelectedPackage(pkg) PROVE SignedInv'
  <2>1. HasFields(dl', DlFields) /\ dl'.saved = dl.saved /\ dl'.boxes = <<>>
    BY <1>1, <1>5 DEF useSelectedPackage, HasFields, DlFields
  <2>2. BoxesInv'
    BY <1>1, <2>1 DEF BoxesInv, SavedIsVerified
  <2> QED BY <1>1, <1>2, <1>5, <2>1, <2>2 DEF useSelectedPackage
<1>6. ASSUME NEW r, NEW data, readMoreDownloadData(r, data) PROVE SignedInv'
  <2>1. HasFields(count', {"broken"}) /\ count'.broken = count.broken
    <3>1. PICK n : count' = [count EXCEPT !.faults = n]
      BY <1>6, Zenon DEF readMoreDownloadData
    <3> QED BY <1>1, <3>1 DEF HasFields
  <2>2. HasFields(dl', DlFields) /\ dl'.saved = dl.saved /\ dl'.boxes = dl.boxes
    BY <1>1, <1>6, ZenonT(60) DEF readMoreDownloadData, HasFields, DlFields
  <2>3. \A i \in DOMAIN dl.boxes : dl.boxes[i] # "where"
    BY <1>1, <1>6 DEF readMoreDownloadData, BoxesInv, verified
  <2>4. BoxesInv'
    BY <1>1, <2>2, <2>3 DEF BoxesInv, SavedIsVerified
  <2> QED BY <1>2, <1>6, <2>1, <2>2, <2>4, ZenonT(60) DEF readMoreDownloadData
<1>7. ASSUME NEW r, downloadFinished(r) PROVE SignedInv'
  <2>1. PICK d : d = [dl EXCEPT !.replies = @ \ {r}]
    OBVIOUS
  <2>2. /\ HasFields(d, DlFields) /\ d.saved = dl.saved /\ d.boxes = dl.boxes
        /\ d.receivedData = dl.receivedData /\ d.of = dl.of /\ d.url = dl.url
    BY <1>1, <2>1, ZenonT(60) DEF HasFields, DlFields
  <2>3. HasFields(dl', DlFields) /\ BoxesInv'
    <3>1. CASE dl.downloadFile = 0
      <4>1. dl' = handlerEnds(d)
        BY <1>7, <2>1, <3>1 DEF downloadFinished
      <4> QED BY <1>1, <2>2, <4>1, HandlerEnds DEF BoxesInv, SavedIsVerified
    <3>2. CASE dl.downloadFile # 0
      <4>1. PICK b : b = IF verified(dl) THEN "where" ELSE "told"
        OBVIOUS
      <4>2. dl' = [d EXCEPT !.boxes = <<b>> \o @]
        BY <1>7, <2>1, <3>2, <4>1, ZenonT(60) DEF downloadFinished
      <4>3. /\ HasFields(dl', DlFields) /\ dl'.saved = dl.saved /\ dl'.boxes = <<b>> \o dl.boxes
            /\ dl'.receivedData = dl.receivedData /\ dl'.of = dl.of /\ dl'.url = dl.url
        BY <2>2, <4>2, ZenonT(60) DEF HasFields, DlFields
      <4>4. /\ dl'.boxes \in Seq({"where", "told"}) /\ dl'.boxes[1] = b
            /\ \A i \in DOMAIN dl'.boxes : i # 1 => i - 1 \in DOMAIN dl.boxes /\ dl'.boxes[i] = dl.boxes[i - 1]
        BY <1>1, <4>1, <4>3
      <4>5. verified(dl)' = verified(dl)
        BY <4>3 DEF verified
      <4> QED BY <1>1, <4>1, <4>3, <4>4, <4>5 DEF BoxesInv, SavedIsVerified
    <3> QED BY <3>1, <3>2
  <2> QED BY <1>1, <1>2, <1>7, <2>3, ZenonT(60) DEF downloadFinished
<1>8. \A d : d = [dl EXCEPT !.boxes = Tail(@)] /\ dl.boxes # <<>> =>
        /\ HasFields(d, DlFields) /\ d.saved = dl.saved /\ d.boxes = Tail(dl.boxes)
        /\ d.receivedData = dl.receivedData /\ d.of = dl.of /\ d.url = dl.url
  BY <1>1, ZenonT(60) DEF HasFields, DlFields
<1>9. dl.boxes # <<>> =>
        /\ Tail(dl.boxes) \in Seq({"where", "told"})
        /\ \A i \in DOMAIN Tail(dl.boxes) : i + 1 \in DOMAIN dl.boxes /\ Tail(dl.boxes)[i] = dl.boxes[i + 1]
        /\ 1 \in DOMAIN dl.boxes /\ Head(dl.boxes) = dl.boxes[1]
  BY <1>1
<1>10. CASE messageRead
  <2>1. PICK d : d = [dl EXCEPT !.boxes = Tail(@)]
    OBVIOUS
  <2>2. dl' = handlerEnds(d) /\ dl.boxes # <<>>
    BY <1>10, <2>1, Zenon DEF messageRead
  <2>3. HasFields(d, DlFields) /\ d.saved = dl.saved /\ d.boxes = Tail(dl.boxes)
    BY <1>8, <2>1, <2>2
  <2>4. /\ HasFields(dl', DlFields) /\ dl'.saved = dl.saved
        /\ dl'.boxes = Tail(dl.boxes) /\ dl'.receivedData = "none"
    BY <2>2, <2>3, HandlerEnds
  <2>5. BoxesInv'
    BY <1>1, <1>9, <2>2, <2>4 DEF BoxesInv, SavedIsVerified
  <2> QED BY <1>1, <1>2, <1>10, <2>4, <2>5 DEF messageRead
<1>11. CASE getFileSave
  <2>1. PICK d : d = [dl EXCEPT !.boxes = Tail(@)]
    OBVIOUS
  <2>2. dl.boxes # <<>> /\ (dl.receivedData = "none" \/ verified(dl))
    BY <1>1, <1>9, <1>11 DEF getFileSave, BoxesInv
  <2>3. CASE dl' = handlerEnds(d)
    <3>1. HasFields(d, DlFields) /\ d.saved = dl.saved /\ d.boxes = Tail(dl.boxes)
      BY <1>8, <2>1, <2>2
    <3>2. /\ HasFields(dl', DlFields) /\ dl'.saved = dl.saved
          /\ dl'.boxes = Tail(dl.boxes) /\ dl'.receivedData = "none"
      BY <2>3, <3>1, HandlerEnds
    <3>3. BoxesInv'
      BY <1>1, <1>9, <2>2, <3>2 DEF BoxesInv, SavedIsVerified
    <3> QED BY <1>1, <1>2, <1>11, <3>2, <3>3 DEF getFileSave
  <2>4. CASE dl' # handlerEnds(d)
    <3>1. PICK bs : bs = IF dl.receivedData = "none" THEN Tail(dl.boxes) ELSE <<"told">> \o Tail(dl.boxes)
      OBVIOUS
    <3>2. dl' = [d EXCEPT !.saved = @ \cup {savedFile(dl)}, !.boxes = bs]
      BY <1>8, <1>11, <2>1, <2>2, <2>4, <3>1, ZenonT(60) DEF getFileSave
    <3>3. /\ HasFields(dl', DlFields) /\ dl'.saved = dl.saved \cup {savedFile(dl)} /\ dl'.boxes = bs
          /\ dl'.receivedData = dl.receivedData /\ dl'.of = dl.of /\ dl'.url = dl.url
      BY <1>8, <2>1, <2>2, <3>2, ZenonT(60) DEF HasFields, DlFields
    <3>4. bs \in Seq({"where", "told"})
      <4>1. \A t \in Seq({"where", "told"}) : <<"told">> \o t \in Seq({"where", "told"})
        OBVIOUS
      <4> QED BY <1>9, <2>2, <3>1, <4>1
    <3>5. SavedIsVerified'
      BY <1>1, <2>2, <3>3 DEF SavedIsVerified, verified, savedFile
    <3>6. verified(dl)' = verified(dl)
      BY <3>3 DEF verified
    <3>7. BoxesInv'
      BY <2>2, <3>3, <3>4, <3>5, <3>6 DEF BoxesInv
    <3> QED BY <1>1, <1>2, <1>11, <3>3, <3>7 DEF getFileSave
  <2> QED BY <2>3, <2>4
<1> QED BY <1>3, <1>4, <1>5, <1>6, <1>7, <1>10, <1>11

\* The program is started again, also in the middle of a write.
LEMMA RestartKeeps == ASSUME SignedInv, restart PROVE SignedInv'
<1>1. UNCHANGED <<ads, server, disk>>
  BY DEF restart
<1>2. /\ HasFields(count', {"broken"}) /\ count.broken \subseteq count'.broken
      /\ \A f \in Fids : Writing(f) => f \in count'.broken
  <2>1. PICK n, bs : /\ count' = [count EXCEPT !.starts = n, !.broken = bs]
                     /\ bs = IF adf.pc = "write" THEN count.broken \cup {adf.fid} ELSE count.broken
    BY ZenonT(60) DEF restart
  <2>2. HasFields(count', {"broken"}) /\ count'.broken = bs
    BY <2>1, Records, ZenonT(60) DEF HasFields
  <2> QED BY <2>1, <2>2 DEF Writing
<1>3. disk = [f \in Fids |-> disk[f]]
  BY DEF SignedInv, Fields
<1>4. HasFields(adf', AdfFields) /\ adf'.fileHashMap = disk /\ adf'.pc \in {"top", "off"}
  BY <1>3, Zenon DEF restart, Fetcher, Hashes, HasFields, AdfFields
<1>5. /\ HasFields(win', WinFields) /\ win'.text = [f \in Fids |-> 0] /\ win'.modified = Fids
      /\ win'.tested = FALSE
  BY ZenonT(60) DEF restart, Window, HasFields, WinFields
<1>6. HasFields(dl', DlFields) /\ dl'.saved = dl.saved /\ dl'.boxes = <<>>
  BY ZenonT(60) DEF restart, Closed, HasFields, DlFields
<1>7. Fields' /\ Whole'
  BY <1>1, <1>2, <1>3, <1>4, <1>5, <1>6 DEF SignedInv, Fields, Whole
<1>8. HalfIsReread' /\ BoxesInv'
  BY <1>5, <1>6 DEF SignedInv, HalfIsReread, BoxesInv, SavedIsVerified, Half
<1>9. \A f \in Fids : Known(f)' = Known(f)
  BY <1>1 DEF Known
<1>10. \A f \in Fids : disk'[f] = Half \/ adf'.fileHashMap[f] # disk'[f] => f \in count'.broken
  BY <1>1, <1>2, <1>4 DEF SignedInv
<1> QED BY <1>1, <1>4, <1>5, <1>7, <1>8, <1>9, <1>10 DEF SignedInv

-----------------------------------------------------------------------------
\* Every step of the program keeps the invariant.
LEMMA NextKeeps == ASSUME SignedInv, [Next]_allVars PROVE SignedInv'
<1>1. CASE UNCHANGED announceVars
  BY <1>1, StutterKeeps
<1>2. CASE processAnnounceData \/ BeatGoesOn
  BY <1>2, CallsKeep
<1>3. CASE Free /\ AnnounceWindow
  BY <1>3, CallsKeep, OpenKeeps, DownloadKeeps DEF AnnounceWindow
<1>4. CASE AnnounceCalls
  BY <1>4, ProcessKeeps, WaitKeeps, ReadKeeps, CallsKeep DEF AnnounceCalls
<1>5. CASE AnnounceOthers
  BY <1>5, LoopKeeps, WriteKeeps, WriteFailsKeeps, FetchKeeps, ServerKeeps DEF AnnounceOthers
<1>6. CASE restart
  BY <1>6, RestartKeeps
<1> QED BY <1>1, <1>2, <1>3, <1>4, <1>5, <1>6 DEF Next, Beat, allVars

\* The thread works with a digest that was signed, half a file is being written or
\* was broken off, a file that is written while the window is about to read it is
\* a modified one, and what a box is about to save was verified or is gone, in
\* every state of the program.
THEOREM DigestIsSigned == FairSpec => []SignedInv
<1>1. SignedInv /\ [Next]_allVars => SignedInv'
  BY NextKeeps
<1> QED BY InitOK, <1>1, PTL DEF FairSpec

\* KeptIsSigned always holds: whatever the server publishes while the thread
\* fetches, whatever fails, is forced or cancelled and whenever the program is
\* started again, each file in fetchDir is the one of a signed digest, or is
\* being written, or its writing was broken off; half a file that the window has
\* parsed is parsed again; and the downloader saves only the whole program of
\* the entry selected, or an empty file.
THEOREM AnnouncementsAreSigned == FairSpec => []KeptIsSigned
<1>1. SignedInv => KeptIsSigned
  BY DEF SignedInv, KeptIsSigned, StoredIsSigned, Known, BoxesInv
<1> QED BY DigestIsSigned, <1>1, PTL
=============================================================================
