------------------------------- MODULE Wallets -------------------------------
(***************************************************************************)
(* The wallets of the program: the files of its directory, the lists of    *)
(* the wallets it has loaded, and the dialogs that back wallets up,        *)
(* restore, import, replace, remove and repair them (ArmoryQt.py,          *)
(* qtdialogs.py, PyBtcWalletRecovery.py).  The program may die between any *)
(* two steps that write files, and loads what it finds when it is started  *)
(* again.                                                                  *)
(*                                                                         *)
(* A file name is the wallet's ID, which is its root, and a suffix.  The   *)
(* backup file beside every wallet file (see WalletFile) is left out.      *)
(*                                                                         *)
(*   w       the scenario, constant                                        *)
(*             files    the wallet files at the beginning                  *)
(*             papers   roots of which the user has a page, with and       *)
(*                      without SecurePrint                                *)
(*             frags    the fragments the user has                         *)
(*             typos    the slips of the user when typing                  *)
(*             codes    the SecurePrint codes the user may type            *)
(*             kinds    the dialogs the user restores with                 *)
(*             tests    whether as a test of the backup                    *)
(*             rows     rows of the table of fragments                     *)
(*             can      what the user does, and how often                  *)
(*             mishaps  what may go wrong                                  *)
(*   home    the wallet files of the data directory                        *)
(*   old     the files moved into folders named by wallet and minute       *)
(*   usb     the digital backups                                           *)
(*   app     walletIDList, walletIndices, walletVisibleList and walletMap  *)
(*   dlg     the dialog that is open                                       *)
(*   fix     the consistency check and the repair                          *)
(*   minute  the clock as the names of folders show it                     *)
(*   left    what the user may still do                                    *)
(*   agreed, over  private keys that the user agreed to delete, and those  *)
(*           in a file that another was written over                       *)
(*   answers the restored wallets the user was asked to confirm            *)
(***************************************************************************)
EXTENDS PaperBackup, Recovery

CONSTANTS Worlds, RestorePool

VARIABLES w, home, old, usb, app, dlg, fix, minute, left, agreed, over, answers

vars == <<w, home, old, usb, app, dlg, fix, minute, left, agreed, over, answers>>
files == <<home, old, usb>>
ghosts == <<agreed, over, answers>>

Without(f, k) == [x \in DOMAIN f \ {k} |-> f[x]]
With(f, k, v) == [x \in DOMAIN f \cup {k} |-> IF x = k THEN v ELSE f[x]]

WalletName(id, suffix) == <<id, suffix>>

----------------------------------------------------------------------------
(* The lists of the main window *)

NoWallets == [ids |-> <<>>, vis |-> <<>>, index |-> [x \in {} |-> 0], path |-> [x \in {} |-> <<>>]]

addWalletToApplication(a, id, name, wo) ==
  IF id \in DOMAIN a.path THEN a
  ELSE [ids   |-> Append(a.ids, id),
        vis   |-> Append(a.vis, ~wo),
        path  |-> With(a.path, id, name),
        index |-> With(a.index, id, Cardinality(DOMAIN a.path) + 1)]

\* walletIndices is computed again from the list
Indices(a, ids) == [x \in Range(ids) |-> CHOOSE k \in DOMAIN ids : ids[k] = x]

removeWalletFromApplication(a, id) ==
  LET ids == RemoveAt(a.ids, a.index[id])
  IN  [ids   |-> ids,
       vis   |-> RemoveAt(a.vis, a.index[id]),
       path  |-> Without(a.path, id),
       index |-> Indices(a, ids)]

\* readWalletFile: bytes that the checksums correct are written back
ReadBack(f) ==
  [f EXCEPT !.body = [i \in DOMAIN f.body |->
     IF f.body[i].kind = "key" /\ f.body[i].raw = "fixed"
     THEN [f.body[i] EXCEPT !.raw = "ok"] ELSE f.body[i]]]

ReadableNames(h) == {n \in DOMAIN h : Loadable(h[n])}

\* loadWalletsAndSettings: of two files of a wallet the first one read is
\* loaded, unless it is watching-only and the other is not.  The order is
\* that of the directory.
Candidates(h, id) ==
  LET all  == {n \in ReadableNames(h) : h[n].root = id}
      full == {n \in all : ~h[n].wo}
  IN  IF full # {} THEN full ELSE all

loadWallets(h) ==
  LET ids == {h[n].root : n \in ReadableNames(h)}
      add(path, id, a) == addWalletToApplication(a, id, path[id], h[path[id]].wo)
  IN  {FoldSet(LAMBDA id, a : add(path, id, a), NoWallets, ids) :
         path \in {p \in [ids -> ReadableNames(h)] : \A id \in ids : p[id] \in Candidates(h, id)}}

Loaded(h) == [n \in DOMAIN h |-> IF Loadable(h[n]) THEN ReadBack(h[n]) ELSE h[n]]

----------------------------------------------------------------------------

NoMeta == [notes |-> <<>>, naddress |-> 0]
NoDlg == [at |-> "none", kind |-> "none", test |-> FALSE, rows |-> <<>>, code |-> NoCode,
          type |-> 0, prefix |-> <<>>, new |-> <<>>, printed |-> <<>>,
          path |-> <<>>, enc |-> FALSE, meta |-> NoMeta]
NoFix == [at |-> "none", list |-> <<>>, todo |-> <<>>, size |-> 0, ok |-> <<>>,
          res |-> Answer(0, {}, TRUE, FALSE, NoFile)]

Init ==
  /\ w \in Worlds
  /\ home = Loaded(w.files)
  /\ old = [x \in {} |-> NoFile]
  /\ usb = <<>>
  /\ app \in loadWallets(home)
  /\ dlg = NoDlg
  /\ fix = [NoFix EXCEPT !.at = "check", !.todo = app.ids, !.size = Len(app.ids)]
  /\ minute = 1
  /\ left = w.can
  /\ agreed = {} /\ over = {} /\ answers = {}

Wallet(id) == home[app.path[id]]

\* The user starts something: possible as often as the scenario says.  No
\* other dialog is open then (they are modal).
Does(what) ==
  /\ dlg.at = "none"
  /\ fix.at \in {"none", "check", "waiting"}
  /\ left[what] > 0
  /\ left' = [left EXCEPT ![what] = @ - 1]

Tries == left["try"] > 0 /\ left' = [left EXCEPT !["try"] = @ - 1]

Close == dlg' = NoDlg

----------------------------------------------------------------------------
(* Digital backups, import and removal *)

\* changeWalletEncryption
Crypt(f, enc) ==
  [f EXCEPT !.enc = enc,
            !.body = [i \in DOMAIN f.body |->
               IF f.body[i].kind = "key" THEN [f.body[i] EXCEPT !.enc = enc] ELSE f.body[i]]]

\* makeWalletCopy, writeFreshWalletFile, makeUnencryptedWalletCopy.  An
\* encrypted copy of an unencrypted wallet is made by encrypting the wallet
\* itself, copying it, and decrypting it again.
makeWalletCopy ==
  /\ Does("copy")
  /\ \E id \in DOMAIN app.path, type \in {"same", "decrypt", "encrypt"} :
       LET f == Wallet(id)
           inPlace == type = "encrypt" /\ ~f.enc /\ ~f.wo
       IN  IF inPlace
           THEN /\ home' = With(home, app.path[id], Crypt(f, TRUE))
                /\ dlg' = [NoDlg EXCEPT !.at = "encrypted", !.new = id]
                /\ UNCHANGED usb
           ELSE /\ usb' = Append(usb, IF type = "decrypt" THEN Crypt(f, FALSE) ELSE f)
                /\ UNCHANGED <<home, dlg>>
  /\ UNCHANGED <<w, old, app, fix, minute, ghosts>>

makeEncryptedWalletCopy ==
  /\ dlg.at = "encrypted"
  /\ usb' = Append(usb, Wallet(dlg.new))
  /\ home' = With(home, app.path[dlg.new], Crypt(Wallet(dlg.new), FALSE))
  /\ Close
  /\ UNCHANGED <<w, old, app, fix, minute, left, ghosts>>

\* getUniqueWalletFilename
UniqueName(id) ==
  CHOOSE n \in {WalletName(id, "import"), WalletName(id, "import_02")} :
    /\ n \notin DOMAIN home
    /\ n[2] = "import" \/ WalletName(id, "import") \in DOMAIN home

execGetImportWltName ==
  /\ Does("import")
  /\ \E k \in DOMAIN usb :
       LET id == usb[k].root
           nm == UniqueName(id)
       IN  IF id \in DOMAIN app.path THEN UNCHANGED <<home, app>>
           ELSE /\ home' = With(home, nm, usb[k])
                /\ app' = addWalletToApplication(app, id, nm, usb[k].wo)
  /\ UNCHANGED <<w, old, usb, dlg, fix, minute, ghosts>>

\* DlgRemoveWallet.removeWallet, after the question: delete, or make the
\* wallet watching-only
removeWallet ==
  /\ Does("remove")
  /\ \E id \in DOMAIN app.path :
       LET nm == app.path[id]
       IN  /\ agreed' = agreed \cup Secrets(home[nm])
           /\ \/ /\ home' = Without(home, nm)
                 /\ dlg' = [NoDlg EXCEPT !.at = "deleted", !.new = id]
              \/ /\ ~home[nm].wo
                 /\ home' = With(home, WalletName(id, "WatchOnly"), forkOnlineWallet(home[nm]))
                 /\ dlg' = [NoDlg EXCEPT !.at = "forked", !.new = id]
  /\ UNCHANGED <<w, old, usb, app, fix, minute, over, answers>>

removeWallet_fromApp ==
  /\ dlg.at = "deleted"
  /\ app' = removeWalletFromApplication(app, dlg.new)
  /\ Close
  /\ UNCHANGED <<w, files, fix, minute, left, ghosts>>

removeWallet_watch ==
  /\ dlg.at = "forked"
  /\ LET nm == app.path[dlg.new]
         wo == WalletName(dlg.new, "WatchOnly")
     IN  /\ app' = addWalletToApplication(removeWalletFromApplication(app, dlg.new), dlg.new, wo, TRUE)
         /\ home' = Without(home, nm)
  /\ Close
  /\ UNCHANGED <<w, old, usb, fix, minute, left, ghosts>>

----------------------------------------------------------------------------
(* Restoring from paper *)

\* execImportWallet, DlgUniversalRestoreSelect.clickedOkay
DlgUniversalRestoreSelect ==
  /\ Does("restore")
  /\ \E kind \in w.kinds, test \in w.tests :
       dlg' = [NoDlg EXCEPT !.at = kind, !.kind = kind, !.test = test]
  /\ UNCHANGED <<w, files, app, fix, minute, ghosts>>

Cancel ==
  /\ dlg.at \in {"single", "frags", "wo"}
  /\ Close
  /\ UNCHANGED <<w, files, app, fix, minute, left, ghosts>>

\* What the user types: a page with the slips of one of the scenario's typos,
\* each of which replaces a digit of a line or of its checksum
Typed(lines, typo) ==
  LET slip(page, t) ==
        IF t.line \notin DOMAIN page THEN page
        ELSE IF t.chk THEN [page EXCEPT ![t.line].chk[t.pos] = t.digit]
                      ELSE [page EXCEPT ![t.line].bin[t.pos] = t.digit]
  IN  FoldLeft(slip, lines, typo)

EasyLines(ls) == [k \in DOMAIN ls |-> makeSixteenBytesEasy(ls[k])]

\* The page of a single-sheet backup
Page(root, secure) ==
  EasyLines(IF secure THEN Mask(Secret(root), SecurePrintCode(root)) ELSE Secret(root))

\* A wallet was computed from what was entered: a test only shows its ID
\* (verifyRecoveryTestID), a loaded wallet leads to DlgReplaceWallet
Computed(d, root, printed) ==
  IF d.test THEN d
  ELSE [d EXCEPT !.new = root, !.printed = printed,
                 !.at = IF root \in DOMAIN app.path THEN "replace" ELSE "confirm",
                 !.path = IF root \in DOMAIN app.path THEN app.path[root] ELSE <<>>]

\* DlgRestoreSingle.verifyUserInput
restoreSingle ==
  /\ dlg.at = "single"
  /\ Tries
  /\ \E p \in w.papers, typo \in w.typos, code \in w.codes :
       LET read == ReadLines(Typed(Page(p.root, p.secure), typo))
           bad  == read = <<>> \/ (p.secure /\ code = NoCode)
       IN  dlg' = IF bad THEN dlg
                  ELSE Computed(dlg, RootOf(IF p.secure THEN Unmask(read, code) ELSE read), p.root)
  /\ UNCHANGED <<w, files, app, fix, minute, ghosts>>

\* DlgRestoreWOData.verifyUserInput: the public key, the chain code and the
\* wallet ID are typed; the ID that is looked up and shown is the typed one
restoreWOData ==
  /\ dlg.at = "wo"
  /\ Tries
  /\ \E p \in w.papers, typo \in w.typos :
       LET read == ReadLines(Typed(EasyLines(p.root), typo))
       IN  dlg' = IF read = <<>> \/ dlg.test THEN dlg
                  ELSE IF p.root \in DOMAIN app.path THEN NoDlg
                  ELSE [dlg EXCEPT !.new = <<read[1], read[2]>>, !.printed = p.root, !.at = "confirm"]
  /\ UNCHANGED <<w, files, app, fix, minute, ghosts>>

----------------------------------------------------------------------------
(* DlgReplaceWallet *)

\* Replace and SaveMeta: the wallet leaves the application, then its file is
\* moved into the folder of the minute
Replace ==
  /\ dlg.at = "replace"
  /\ \E merge \in BOOLEAN :
       dlg' = [dlg EXCEPT !.at = "move", !.meta = IF merge THEN MetaOf(home[dlg.path]) ELSE NoMeta]
  /\ app' = removeWalletFromApplication(app, dlg.new)
  /\ UNCHANGED <<w, files, fix, minute, left, ghosts>>

ReplaceCancelled ==
  /\ dlg.at = "replace"
  /\ Close
  /\ UNCHANGED <<w, files, app, fix, minute, left, ghosts>>

ReplaceMove ==
  /\ dlg.at = "move"
  /\ LET nm == <<dlg.new, minute, dlg.path>>
     IN  /\ over' = over \cup (IF nm \in DOMAIN old THEN Secrets(old[nm]) ELSE {})
         /\ old' = With(old, nm, home[dlg.path])
  /\ home' = Without(home, dlg.path)
  /\ dlg' = [dlg EXCEPT !.at = IF dlg.kind = "single" THEN "pass" ELSE "confirm"]
  /\ UNCHANGED <<w, usb, app, fix, minute, left, agreed, answers>>

\* The folder cannot be made: the dialog ends, the wallet is out of the
\* application and its file stays where it is
ReplaceFails ==
  /\ dlg.at = "move"
  /\ "mkdir" \in w.mishaps
  /\ Close
  /\ UNCHANGED <<w, files, app, fix, minute, left, ghosts>>

\* "Verify Wallet ID": the user compares with the ID on the backup.  The ID
\* shown for watching-only data is the typed one.
Back(d) == [d EXCEPT !.at = d.kind, !.new = <<>>, !.printed = <<>>, !.path = <<>>, !.meta = NoMeta]

ShownID(d) == IF d.kind = "wo" THEN d.printed ELSE d.new

Confirm ==
  /\ dlg.at = "confirm"
  /\ dlg' = IF ShownID(dlg) # dlg.printed THEN Back(dlg)
            ELSE [dlg EXCEPT !.at = IF dlg.kind = "wo" THEN "create" ELSE "pass"]
  /\ UNCHANGED <<w, files, app, fix, minute, left, ghosts>>

Passphrase ==
  /\ dlg.at = "pass"
  /\ \/ \E enc \in BOOLEAN : dlg' = [dlg EXCEPT !.at = "create", !.enc = enc]
     \/ dlg' = Back(dlg)
  /\ UNCHANGED <<w, files, app, fix, minute, left, ghosts>>

\* createNewWallet, createNewWalletFromPKCC: the file is opened for writing,
\* whatever is there, and filled
RestoreName(d) == WalletName(d.new, IF d.kind = "wo" THEN "WatchOnly" ELSE "")

Create ==
  /\ dlg.at = "create"
  /\ LET nm == RestoreName(dlg)
         n  == Max({RestorePool, dlg.meta.naddress})
     IN  /\ over' = over \cup (IF nm \in DOMAIN home THEN Secrets(home[nm]) ELSE {})
         /\ home' = With(home, nm, IF dlg.kind = "wo" THEN createNewWO(dlg.new, RestorePool)
                                                      ELSE createNewWallet(dlg.new, n, dlg.enc))
  /\ answers' = answers \cup {[kind |-> dlg.kind, printed |-> dlg.printed, new |-> dlg.new]}
  /\ dlg' = [dlg EXCEPT !.at = "finish"]
  /\ UNCHANGED <<w, old, usb, app, fix, minute, left, agreed>>

\* The comments of a merged wallet are added, and the wallet is loaded
Finish ==
  /\ dlg.at = "finish"
  /\ LET nm == RestoreName(dlg)
     IN  /\ home' = [home EXCEPT ![nm].body = @ \o dlg.meta.notes]
         /\ app' = addWalletToApplication(app, dlg.new, nm, dlg.kind = "wo")
  /\ Close
  /\ UNCHANGED <<w, old, usb, fix, minute, left, ghosts>>

----------------------------------------------------------------------------
(* DlgRestoreFragged.  A row holds the ID line, x and y.                   *)

\* DlgFragBackup: the points at x = 1, 2, ... of the wallet's polynomial,
\* masked or not, with the ID line that is printed or saved with them
\* (recomputeFragData, clickSaveFrag)
Piece(g) ==
  LET y == SplitSecret(Secret(g.root), g.M, g.i)[g.i].y
  IN  IF g.masked THEN Mask(y, SecurePrintCode(g.root)) ELSE y
Fragment(g) ==
  [id |-> ComputeFragIDLine(g.M, g.i - 1, g.root, g.masked), lines |-> EasyLines(Piece(g))]

Prefix(id) == <<ReadFragIDLine(id).M, ReadFragIDLine(id).wid>>

SameSet(d, id) == d.prefix = Prefix(id)

checkRestoreParams(d) ==
  LET anyMask == \E r \in DOMAIN d.rows : ReadFragIDLine(d.rows[r].id).doMask
      d1 == IF anyMask THEN d ELSE [d EXCEPT !.code = NoCode]
  IN  IF DOMAIN d.rows = {} THEN [d1 EXCEPT !.prefix = <<>>, !.type = 0] ELSE d1

\* The x coordinate that goes with fragment number fnum
RestoreX(fnum) == fnum + 1

\* addFragToTable; asked is the code the user gives when one is needed and
\* not yet known (NoCode: the dialog is cancelled)
addFragToTable(d, r, id, y, asked) ==
  LET f     == ReadFragIDLine(id)
      d1    == IF d.type = 0 THEN [d EXCEPT !.type = Len(y)] ELSE d
      d2    == IF f.doMask /\ d1.code = NoCode THEN [d1 EXCEPT !.code = asked] ELSE d1
      d3    == IF d2.prefix = <<>> THEN [d2 EXCEPT !.prefix = Prefix(id)] ELSE d2
      twice == \E q \in DOMAIN d.rows : ReadFragIDLine(d.rows[q].id).fnum = f.fnum
  IN  IF d1.type # Len(y) THEN d
      ELSE IF f.doMask /\ d2.code = NoCode THEN d1
      ELSE IF ~SameSet(d3, id) THEN d2
      ELSE IF twice THEN d3
      ELSE checkRestoreParams(
             [d3 EXCEPT !.rows = With(@, r, [id |-> id, x |-> RestoreX(f.fnum), y |-> y])])

\* dataEnter, DlgEnterOneFrag.verifyUserInput: the code can be typed only
\* when none is known; only fragments of the type known can be entered
dataEnter ==
  /\ dlg.at = "frags"
  /\ Tries
  /\ \E r \in (1 .. w.rows) \ DOMAIN dlg.rows, g \in w.frags, typo \in w.typos, c \in w.codes :
       LET f    == Fragment(g)
           read == ReadLines(Typed(f.lines, typo))
           code == IF dlg.code # NoCode THEN dlg.code ELSE IF g.masked THEN c ELSE NoCode
       IN  dlg' = IF read = <<>> \/ (g.masked /\ code = NoCode) THEN dlg
                  ELSE IF dlg.type # 0 /\ dlg.type # Len(read) THEN dlg
                  ELSE addFragToTable([dlg EXCEPT !.code = code], r, f.id, read, NoCode)
  /\ UNCHANGED <<w, files, app, fix, minute, ghosts>>

\* dataLoad: from a file, whose lines are corrected without a word
dataLoad ==
  /\ dlg.at = "frags"
  /\ Tries
  /\ \E r \in (1 .. w.rows) \ DOMAIN dlg.rows, g \in w.frags, typo \in w.typos, c \in w.codes :
       LET f    == Fragment(g)
           read == ReadLines(Typed(f.lines, typo))
       IN  dlg' = IF read = <<>> THEN dlg ELSE addFragToTable(dlg, r, f.id, read, c)
  /\ UNCHANGED <<w, files, app, fix, minute, ghosts>>

dataClear ==
  /\ dlg.at = "frags"
  /\ Tries
  /\ \E r \in DOMAIN dlg.rows :
       dlg' = checkRestoreParams([dlg EXCEPT !.rows = Without(@, r)])
  /\ UNCHANGED <<w, files, app, fix, minute, ghosts>>

\* The points, in the order of the rows, unmasked where needed
fragMtrx(d) ==
  LET order == InOrder(DOMAIN d.rows)
      point(row) == [x |-> row.x,
                     y |-> IF ReadFragIDLine(row.id).doMask THEN Unmask(row.y, d.code) ELSE row.y]
  IN  [k \in DOMAIN order |-> point(d.rows[order[k]])]

Needed(d) == d.prefix[1]
Enough(d) == DOMAIN d.rows # {} /\ Cardinality(DOMAIN d.rows) >= Needed(d)

\* processFrags; a test with more fragments than needed tries the subsets
\* (testFragSubsets) and only shows the results
processFrags ==
  /\ dlg.at = "frags"
  /\ Enough(dlg)
  /\ Tries
  /\ dlg' = Computed(dlg, RootOf(ReconstructSecret(fragMtrx(dlg), Needed(dlg))), dlg.prefix[2])
  /\ UNCHANGED <<w, files, app, fix, minute, ghosts>>

----------------------------------------------------------------------------
(* The consistency check and the repair *)

\* CheckWalletConsistency, one wallet: the thread iterates over walletMap and
\* dies when that has changed its size; a wallet without its first address
\* makes it die as well.  A wallet without a file is reported.
checkWallet ==
  /\ fix.at = "check"
  /\ fix.todo # <<>>
  /\ LET id == Head(fix.todo)
         there == id \in DOMAIN app.path /\ Len(app.ids) = fix.size
         file  == app.path[id] \in DOMAIN home
         After(code) ==
           IF code = Raises THEN NoFix
           ELSE [fix EXCEPT !.todo = Tail(@),
                            !.list = IF code = 0 THEN @
                                     ELSE Append(@, [id |-> id, path |-> app.path[id]])]
     IN  fix' = IF ~there THEN NoFix ELSE After(IF file THEN Consistency(Wallet(id)) ELSE -1)
  /\ UNCHANGED <<w, files, app, dlg, minute, left, ghosts>>

checkDone ==
  /\ fix.at = "check"
  /\ fix.todo = <<>>
  /\ fix' = IF fix.list = <<>> \/ Len(app.ids) # fix.size THEN NoFix ELSE [fix EXCEPT !.at = "waiting"]
  /\ UNCHANGED <<w, files, app, dlg, minute, left, ghosts>>

\* checkRdyForFix: the window becomes modal once no other dialog is open
checkRdyForFix ==
  /\ fix.at = "waiting"
  /\ dlg.at = "none"
  /\ fix' = [fix EXCEPT !.at = "ready"]
  /\ UNCHANGED <<w, files, app, dlg, minute, left, ghosts>>

\* doFixWallets: all wallets leave the application first; one that is no
\* longer there raises an exception, and the window cannot be closed any more
TakenOut(a, list) ==
  FoldLeft(LAMBDA acc, x : IF acc.raised THEN acc
                           ELSE IF x.id \notin DOMAIN acc.a.path THEN [acc EXCEPT !.raised = TRUE]
                           ELSE [acc EXCEPT !.a = removeWalletFromApplication(@, x.id)],
           [a |-> a, raised |-> FALSE], list)

doFixWallets ==
  /\ fix.at = "ready"
  /\ LET out == TakenOut(app, fix.list)
     IN  /\ app' = out.a
         /\ fix' = [fix EXCEPT !.at = IF out.raised THEN "stuck" ELSE "process", !.todo = fix.list]
  /\ UNCHANGED <<w, files, dlg, minute, left, ghosts>>

closeFixDialog ==
  /\ fix.at = "ready"
  /\ fix' = NoFix
  /\ UNCHANGED <<w, files, app, dlg, minute, left, ghosts>>

\* promptWalletRecovery with the Full mode and a loaded wallet
recoverLoaded ==
  /\ Does("recover")
  /\ \E id \in DOMAIN app.path :
       /\ fix' = [NoFix EXCEPT !.at = "process", !.todo = <<[id |-> id, path |-> app.path[id]]>>,
                               !.list = <<[id |-> id, path |-> app.path[id]]>>]
       /\ app' = removeWalletFromApplication(app, id)
  /\ UNCHANGED <<w, files, dlg, minute, ghosts>>

RecoveredName(id, wo) == WalletName(id, IF wo THEN "RECOVERED_WatchOnly" ELSE "RECOVERED")

\* promptWalletRecovery with another mode, or a file that is not loaded:
\* ParseWallet leaves the recovered wallet beside the original
ParseWallet ==
  /\ Does("parse")
  /\ \E n \in DOMAIN home, mode \in {"Stripped", "Bare", "Full", "Check"}, pass \in BOOLEAN :
     \E res \in {ProcessWallet(home[n], mode, pass)} :
       LET nm  == RecoveredName(home[n].root, res.wo)
       IN  /\ mode = "Full" => n \notin Range(app.path)
           /\ home' = IF res.made THEN With(home, nm, res.new) ELSE home
           /\ over' = over \cup (IF res.made /\ nm \in DOMAIN home THEN Secrets(home[nm]) ELSE {})
           /\ fix' = IF res.code = Raises THEN [NoFix EXCEPT !.at = "stuck"] ELSE fix
  /\ UNCHANGED <<w, old, usb, app, dlg, minute, agreed, answers>>

\* FixWallet, step by step.  The recovered file is first made with the
\* chain only.  A wallet whose file is gone, or whose passphrase is not
\* given, is not repaired.
Fixing == Head(fix.todo)
NextWallet(f) == [f EXCEPT !.todo = Tail(@), !.at = IF Len(f.todo) = 1 THEN "done" ELSE "process",
                           !.res = NoFix.res]

FixWallet_process ==
  /\ fix.at = "process"
  /\ \E pass \in BOOLEAN :
     \E res \in {IF Fixing.path \in DOMAIN home THEN ProcessWallet(home[Fixing.path], "Full", pass)
                 ELSE Answer(-1, {}, FALSE, FALSE, NoFile)} :
       LET nm  == RecoveredName(Fixing.id, res.wo)
           bare == [res.new EXCEPT !.body = SelectSeq(@, LAMBDA e : e.kind = "key" /\ e.idx > -2)]
       IN  /\ pass => Fixing.path \in DOMAIN home /\ home[Fixing.path].enc
           /\ home' = IF res.made THEN With(home, nm, bare) ELSE home
           /\ over' = over \cup (IF res.made /\ nm \in DOMAIN home THEN Secrets(home[nm]) ELSE {})
           /\ fix' = CASE res.code = 0      -> NextWallet([fix EXCEPT !.ok = Append(@, Fixing)])
                       [] res.code = 1      -> [fix EXCEPT !.at = "build", !.res = res]
                       [] res.code = Raises -> [fix EXCEPT !.at = "stuck"]
                       [] OTHER             -> NextWallet(fix)
  /\ UNCHANGED <<w, old, usb, app, dlg, minute, left, agreed, answers>>

FixWallet_build ==
  /\ fix.at = "build"
  /\ home' = [home EXCEPT ![RecoveredName(Fixing.id, fix.res.wo)] = fix.res.new]
  /\ fix' = [fix EXCEPT !.at = "fork"]
  /\ UNCHANGED <<w, old, usb, app, dlg, minute, left, ghosts>>

FixWallet_fork_RenamesFirst ==
  /\ fix.at = "fork"
  /\ UNCHANGED old
  /\ LET nm == RecoveredName(Fixing.id, fix.res.wo)
     IN  home' = With(Without(home, nm), Fixing.path, home[nm])
  /\ fix' = [fix EXCEPT !.at = "remove"]
  /\ UNCHANGED <<w, usb, app, dlg, minute, left, ghosts>>

\* A watching-only copy goes to the folder, then the original is deleted; a
\* watching-only original is moved there
FixWallet_fork ==
  /\ fix.at = "fork"
  /\ old' = With(old, <<Fixing.id, minute, WalletName(Fixing.id, "ORIGINAL")>>, forkOnlineWallet(home[Fixing.path]))
  /\ home' = IF fix.res.wo THEN Without(home, Fixing.path) ELSE home
  /\ fix' = [fix EXCEPT !.at = IF fix.res.wo THEN "rename" ELSE "remove"]
  /\ UNCHANGED <<w, usb, app, dlg, minute, left, ghosts>>

FixWallet_remove ==
  /\ fix.at = "remove"
  /\ home' = Without(home, Fixing.path)
  /\ fix' = [fix EXCEPT !.at = "rename"]
  /\ UNCHANGED <<w, old, usb, app, dlg, minute, left, ghosts>>

FixWallet_rename ==
  /\ fix.at = "rename"
  /\ LET nm == RecoveredName(Fixing.id, fix.res.wo)
     IN  home' = IF nm \in DOMAIN home THEN With(Without(home, nm), Fixing.path, home[nm]) ELSE home
  /\ fix' = NextWallet([fix EXCEPT !.ok = Append(@, Fixing)])
  /\ UNCHANGED <<w, old, usb, app, dlg, minute, left, ghosts>>

\* Any of these file operations may fail: the wallet counts as not fixed
FixWallet_fails ==
  /\ fix.at \in {"fork", "remove", "rename"}
  /\ "io" \in w.mishaps
  /\ fix' = NextWallet(fix)
  /\ UNCHANGED <<w, files, app, dlg, minute, left, ghosts>>

\* FixWalletList reports, and LFW loads the wallets that are in order, up to
\* one whose file is not there
loadFixedWallets ==
  /\ fix.at = "done"
  /\ LET gone == {k \in DOMAIN fix.ok : fix.ok[k].path \notin DOMAIN home}
         load == IF gone = {} THEN fix.ok ELSE SubSeq(fix.ok, 1, Min(gone) - 1)
     IN  app' = FoldLeft(LAMBDA a, x : addWalletToApplication(a, x.id, x.path, home[x.path].wo),
                         app, load)
  /\ fix' = NoFix
  /\ UNCHANGED <<w, files, dlg, minute, left, ghosts>>

----------------------------------------------------------------------------

\* The program ends in whatever it is doing, and is started again
Restart ==
  /\ left["crash"] > 0
  /\ left' = [left EXCEPT !["crash"] = @ - 1]
  /\ home' = Loaded(home)
  /\ app' \in loadWallets(home')
  /\ dlg' = NoDlg
  /\ fix' = [NoFix EXCEPT !.at = "check", !.todo = app'.ids, !.size = Len(app'.ids)]
  /\ UNCHANGED <<w, old, usb, minute, ghosts>>

Tick ==
  /\ left["tick"] > 0
  /\ left' = [left EXCEPT !["tick"] = @ - 1]
  /\ minute' = minute + 1
  /\ UNCHANGED <<w, files, app, dlg, fix, ghosts>>

Next ==
  \/ makeWalletCopy \/ makeEncryptedWalletCopy \/ execGetImportWltName
  \/ removeWallet \/ removeWallet_fromApp \/ removeWallet_watch
  \/ DlgUniversalRestoreSelect \/ Cancel \/ restoreSingle \/ restoreWOData
  \/ Replace \/ ReplaceCancelled \/ ReplaceMove \/ ReplaceFails
  \/ Confirm \/ Passphrase \/ Create \/ Finish
  \/ dataEnter \/ dataLoad \/ dataClear \/ processFrags
  \/ checkWallet \/ checkDone \/ checkRdyForFix \/ doFixWallets \/ closeFixDialog
  \/ recoverLoaded \/ ParseWallet
  \/ FixWallet_process \/ FixWallet_build \/ FixWallet_fork \/ FixWallet_remove
  \/ FixWallet_rename \/ FixWallet_fails \/ loadFixedWallets
  \/ Restart \/ Tick

Spec == Init /\ [][Next]_vars

----------------------------------------------------------------------------

AllSecrets(fs) == UNION {Secrets(fs[n]) : n \in DOMAIN fs}

\* No private key is lost: those the wallet files had at the beginning are in
\* a wallet file or in a file moved aside, whatever is restored, replaced,
\* converted and repaired, and whenever the program dies.  Excepted are keys
\* whose deletion the user confirmed, and those in a file over which another
\* was written: the wallet restored from paper over a file that was not
\* loaded, or the second replacement of a minute.  Nor is a wrong private key
\* of the first address kept.
KeysSurvive ==
  AllSecrets(w.files) \subseteq AllSecrets(home) \cup AllSecrets(old) \cup agreed \cup over \cup
    {e.priv : e \in {e \in UNION {Range(Chain(w.files[n])) : n \in DOMAIN w.files} : e.idx = 0}}

\* A restored wallet has the ID that is printed on the backup, although typed
\* lines are corrected to something else, codes are those of other wallets
\* and fragments are mixed (DlgRestoreSingle, DlgRestoreFragged).  Not so
\* watching-only data, whose ID is not computed (DlgRestoreWOData), nor what
\* then replaces the wrong wallet made from it.
RestoredIsPrinted ==
  \A a \in answers : a.new = a.printed \/ \E b \in answers : b.kind = "wo" /\ b.new = a.new

\* Any M fragments restore the wallet, masked or not, in any order, once they
\* are in the table as printed and the code is the wallet's: "Any M of these
\* N fragments are sufficient to restore your wallet".  The points are
\* printed for x = 1, 2, ... and read back for x = 2, 3, ...
AnyFragmentsRestore ==
  dlg.at = "frags" /\ Enough(dlg) =>
    LET M == Needed(dlg)
        root == dlg.prefix[2]
        f(r) == ReadFragIDLine(dlg.rows[r].id)
        asPrinted == \A r \in DOMAIN dlg.rows :
          /\ dlg.rows[r].y = Piece([root |-> root, M |-> M, i |-> f(r).fnum, masked |-> f(r).doMask])
          /\ f(r).doMask => dlg.code = SecurePrintCode(root)
    IN  asPrinted => testReconstructSecrets(fragMtrx(dlg), M) = {Secret(root)}

\* While a wallet with private keys is being repaired there is, at each step
\* at which the program may die, a file that it loads at the next start with
\* the root key (FixWallet).  Excepted are the repair of a file that has the
\* name of the recovered one, and a wallet that the user has deleted.
RepairCrashSafe ==
  fix.at \in {"process", "build", "fork", "remove", "rename"} =>
    \/ Fixing.path = RecoveredName(Fixing.id, FALSE)
    \/ Key(Fixing.id, 0) \in agreed
    \/ \E n \in DOMAIN home : home[n].root = Fixing.id /\ Loadable(home[n]) /\
          (~home[n].wo \/ \A m \in DOMAIN w.files : w.files[m].root = Fixing.id => w.files[m].wo)

\* What cannot be repaired: an import without its private key, or with
\* another encryption than the wallet
Hopeless(f) == \E e \in Range(Imports(f)) : ~hasPrivKey(e) \/ e.enc # f.enc

\* A repaired wallet is in order: the tool, run again, finds nothing to
\* repair (WalletConsistencyCheck, FixWallet)
RepairedIsConsistent ==
  fix.at = "done" => \A k \in DOMAIN fix.ok :
    LET n == fix.ok[k].path
    IN  n \in DOMAIN home /\ ~Hopeless(home[n]) => ProcessWallet(home[n], "Full", TRUE).code = 0

\* The four lists of the main window describe the same wallets: each place of
\* walletIDList is the index of its wallet, and every loaded wallet has its
\* file (ArmoryQt.addWalletToApplication, removeWalletFromApplication).  Only
\* while a wallet is being deleted is its file gone first.
ListsAgree ==
  /\ Range(app.ids) = DOMAIN app.path
  /\ DOMAIN app.index = DOMAIN app.path
  /\ Len(app.vis) = Len(app.ids)
  /\ \A k \in DOMAIN app.ids : app.index[app.ids[k]] = k
  /\ \A id \in DOMAIN app.path :
       \/ app.path[id] \in DOMAIN home /\ home[app.path[id]].root = id
       \/ dlg.at = "deleted" /\ dlg.new = id

\* No wallet is lost, neither its keys nor its place in the lists of the window.
WalletsKept == KeysSurvive /\ ListsAgree

\* A backup gives back the wallet it is of: any M fragments do, and what is made
\* of typed lines has the ID that is printed.
BackupsRestore == AnyFragmentsRestore /\ RestoredIsPrinted

\* A repair can be cut short at any step, and when it ends there is nothing left
\* to repair.
RepairIsSafe == RepairCrashSafe /\ RepairedIsConsistent

=============================================================================
