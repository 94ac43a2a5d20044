---------------------------- MODULE ServerProofs ----------------------------
(***************************************************************************)
(* The server's components that share no state with each other, for any    *)
(* value of their constants.  The saves, crashes and starts of StateFile   *)
(* implement the abstract Snapshot; listmounts agrees with the system; an   *)
(* image fetched chunk by chunk is whole; a change of a sticker is always   *)
(* followed by its event; an output is owned by one partition, and the      *)
(* engine plays to those enabled; a client has one final answer to each     *)
(* request; the songs of a remote catalog keep their rows, and an update   *)
(* that nothing overlaps with repairs the rest; an edit of a playlist does *)
(* what was asked, and a load stands together; a start restores what was   *)
(* saved.                                                                  *)
(***************************************************************************)
EXTENDS Server, LoopsProofs, FiniteSetTheorems

-----------------------------------------------------------------------------
(* State file.                                                             *)

\* What a save of the session as it is may write.
Writings == [session : {session}, disabled : Disabled]

Past(s) == saver[s].at \in {"write", "rename", "end"}

SaverShape ==
  /\ saver = [s \in Savers |-> saver[s]]
  /\ \A s \in Savers :
       /\ saver[s] = [at |-> saver[s].at, text |-> saver[s].text, where |-> saver[s].where]
       /\ saver[s].at \in {"idle", "open", "write", "rename", "end", "done"}

\* A file that was once readable stays so.
FilesRead == off \in Disabled /\ path.text.disabled \in Disabled

\* Savers hold the session as it is; nobody holds it when the process is down.
HeldTexts ==
  /\ \A s \in Holding : saver[s].text \in Writings
  /\ up = "boot" => Holding = {}

\* As soon as a saver has truncated the temporary file it holds nothing older.
TempNew == (\E s \in Savers : Past(s)) => temp.text \in Writings \union {Blank}

\* A saver that is alone works on the temporary file, and has filled it when it
\* comes to rename it.
Alone ==
  ~met => /\ \A s, t \in Holding : s = t
          /\ \A s \in Holding : saver[s].at = "write" => saver[s].where = "temp"
          /\ \A s \in Holding : saver[s].at = "rename" => temp.text \in Writings

FileInv == SaverShape /\ FilesRead /\ HeldTexts /\ TempNew /\ Alone

-----------------------------------------------------------------------------
\* Before the first start there is no file and nobody saves.
LEMMA FileInvInit == StateFileInit => FileInv
<1> SUFFICES ASSUME StateFileInit PROVE FileInv  OBVIOUS
<1> USE DEF StateFileInit
<1>1. \A s \in Savers : saver[s] = Idle  OBVIOUS
<1>2. Holding = {}  BY <1>1 DEF Holding, Idle
<1>3. SaverShape  BY <1>1 DEF SaverShape, Idle
<1>4. FilesRead
  <2>1. ConfiguredOff \union {} \in Disabled  BY StateFileConstants
  <2> QED  BY <2>1, StateFileConstants DEF FilesRead, NoFile, Blank, Contents
<1>5. HeldTexts  BY <1>2 DEF HeldTexts
<1>6. TempNew  BY <1>1 DEF TempNew, Past, Idle
<1>7. Alone  BY <1>2 DEF Alone
<1> QED  BY <1>3, <1>4, <1>5, <1>6, <1>7 DEF FileInv

\* The savers that hold nothing are at none of the steps of a save.
LEMMA NobodyHolds ==
  ASSUME Holding = {}
  PROVE  \A s \in Savers : saver[s].at \in {"idle", "done"}
BY DEF Holding

\* A step that leaves the savers alone, and the session too while one holds it.
LEMMA SaversRest ==
  ASSUME FileInv, UNCHANGED <<saver, temp>>, FilesRead',
         Holding = {} \/ (session' = session /\ met' = met),
         up' = "boot" => Holding = {}
  PROVE  FileInv'
<1>1. Holding' = Holding  BY DEF Holding
<1>2. SaverShape'  BY DEF FileInv, SaverShape
<1>3. CASE Holding = {}
  <2>1. \A s \in Savers : ~Past(s)'  BY <1>3, NobodyHolds DEF Past
  <2> QED  BY <1>1, <1>2, <1>3, <2>1 DEF FileInv, HeldTexts, TempNew, Alone
<1>4. CASE session' = session /\ met' = met
  <2>1. Writings' = Writings  BY <1>4 DEF Writings
  <2>2. HeldTexts'  BY <1>1, <2>1 DEF FileInv, HeldTexts
  <2>3. TempNew'  BY <2>1 DEF FileInv, TempNew, Past
  <2>4. Alone'  BY <1>1, <1>4, <2>1 DEF FileInv, Alone
  <2> QED  BY <1>2, <2>2, <2>3, <2>4 DEF FileInv
<1> QED  BY <1>3, <1>4

\* What becomes of one saver, and of the set of those that hold the session.
LEMMA SaverMoved ==
  ASSUME FileInv, NEW s \in Savers, NEW r, Becomes(s, r),
         r = [at |-> r.at, text |-> r.text, where |-> r.where],
         r.at \in {"idle", "open", "write", "rename", "end", "done"}
  PROVE  /\ SaverShape'
         /\ saver'[s] = r
         /\ \A x \in Savers \ {s} : saver'[x] = saver[x]
         /\ Holding' = IF r.at \in {"idle", "done"} THEN Holding \ {s} ELSE Holding \union {s}
<1>1. saver = [x \in Savers |-> saver[x]]  BY DEF FileInv, SaverShape
<1>2. /\ saver' = [x \in Savers |-> saver'[x]]
      /\ saver'[s] = r
      /\ \A x \in Savers \ {s} : saver'[x] = saver[x]
  BY <1>1 DEF Becomes
<1>3. SaverShape'  BY <1>2 DEF FileInv, SaverShape
<1>4. Holding' = IF r.at \in {"idle", "done"} THEN Holding \ {s} ELSE Holding \union {s}
  BY <1>2 DEF Holding
<1> QED  BY <1>2, <1>3, <1>4

-----------------------------------------------------------------------------
(* The steps of a save.                                                     *)

\* A saver begins with the session as it is and joins those that hold it.
LEMMA BeginKeeps ==
  ASSUME FileInv, NEW s \in Savers, BeginSave(s)
  PROVE  FileInv' /\ Holding' = Holding \union {s}
<1> DEFINE r == [at |-> "open", text |-> Contents(session, off), where |-> "temp"]
<1>1. r.at = "open" /\ r.text = Contents(session, off)
      /\ r = [at |-> r.at, text |-> r.text, where |-> r.where]
  OBVIOUS
<1>2. /\ SaverShape' /\ saver'[s] = r /\ Holding' = Holding \union {s}
      /\ \A x \in Savers \ {s} : saver'[x] = saver[x]
  <2> HIDE DEF r
  <2>1. Becomes(s, r)  BY DEF BeginSave, r
  <2> QED  BY <1>1, <2>1, SaverMoved
<1>3. Writings' = Writings  BY DEF BeginSave, Writings
<1>4. r.text \in Writings  BY <1>1 DEF FileInv, FilesRead, Writings, Contents
<1>5. FilesRead'  BY DEF FileInv, FilesRead, BeginSave
<1>7. HeldTexts'
  <2>1. up' # "boot" /\ Holding \subseteq Savers  BY DEF BeginSave, Alive, Holding
  <2> HIDE DEF r
  <2> QED  BY <1>2, <1>3, <1>4, <2>1 DEF FileInv, HeldTexts
<1>8. ~Past(s)' /\ \A x \in Savers \ {s} : Past(x)' = Past(x)  BY <1>1, <1>2 DEF Past
<1>9. TempNew'
  <2>1. temp' = temp  BY DEF BeginSave
  <2> QED  BY <1>3, <1>8, <2>1 DEF FileInv, TempNew
<1>6. Alone'
  <2>1. SUFFICES ASSUME ~met' PROVE Holding = {} /\ saver'[s].at = "open"
    BY <1>2 DEF Alone
  <2> QED  BY <1>1, <1>2, <2>1 DEF BeginSave
<1> QED  BY <1>2, <1>5, <1>7, <1>9, <1>6 DEF FileInv

\* Truncated, the temporary file holds nothing older than this save.
LEMMA OpenKeeps ==
  ASSUME FileInv, NEW s \in Savers, Open(s)
  PROVE  FileInv' /\ Holding' = Holding
<1> DEFINE r == [at |-> "write", text |-> saver[s].text, where |-> "temp"]
<1>1. r.at = "write" /\ r.where = "temp" /\ r.text = saver[s].text
      /\ r = [at |-> r.at, text |-> r.text, where |-> r.where]
  OBVIOUS
<1>2. /\ SaverShape' /\ saver'[s] = r /\ Holding' = Holding
      /\ \A x \in Savers \ {s} : saver'[x] = saver[x]
  <2> HIDE DEF r
  <2>1. Becomes(s, r) /\ s \in Holding  BY DEF Open, r, Holding
  <2> QED  BY <1>1, <2>1, SaverMoved
<1>3. Writings' = Writings  BY DEF Open, Writings
<1>4. temp'.text = Blank  BY DEF Open, Empty
<1> HIDE DEF r
<1>5. FilesRead'  BY DEF FileInv, FilesRead, Open
<1>6. HeldTexts'
  <2>1. up' = up /\ s \in Holding /\ Holding \subseteq Savers  BY DEF Open, Holding
  <2> QED  BY <1>1, <1>2, <1>3, <2>1 DEF FileInv, HeldTexts
<1>7. TempNew'  BY <1>4 DEF TempNew, Blank, Contents
<1>8. Alone'
  <2>1. SUFFICES ASSUME ~met'
                 PROVE  /\ \A x, y \in Holding : x = y
                        /\ \A x \in Holding' : x = s
    BY <1>1, <1>2, <2>1 DEF Alone
  <2>2. ~met /\ s \in Holding  BY <2>1 DEF Open, Holding
  <2> QED  BY <1>2, <2>2 DEF FileInv, Alone
<1> QED  BY <1>2, <1>5, <1>6, <1>7, <1>8 DEF FileInv

\* A saver writes what it took; the state file itself only where another has renamed
\* the file under it.
LEMMA WriteKeeps ==
  ASSUME FileInv, NEW s \in Savers, Write(s)
  PROVE  /\ FileInv' /\ Holding' = Holding /\ s \in Holding
         /\ path'.text = path.text \/ path'.text \in Writings
<1> DEFINE r == [saver[s] EXCEPT !.at = "rename"]
<1>1. /\ r.at = "rename" /\ r.text = saver[s].text
      /\ r = [at |-> r.at, text |-> r.text, where |-> r.where]
  BY DEF FileInv, SaverShape
<1>2. s \in Holding  BY DEF Write, Holding
<1>3. /\ SaverShape' /\ saver'[s] = r /\ Holding' = Holding
      /\ \A x \in Savers \ {s} : saver'[x] = saver[x]
  <2> HIDE DEF r
  <2>1. Becomes(s, r)  BY DEF Write, r
  <2> QED  BY <1>1, <1>2, <2>1, SaverMoved
<1> HIDE DEF r
<1>4. Writings' = Writings  BY DEF Write, Writings
<1>5. saver[s].text \in Writings  BY <1>2 DEF FileInv, HeldTexts
<1>6. path' = path \/ path'.text \in Writings  BY <1>5 DEF Write, Whole
<1>7. temp' = temp \/ temp'.text \in Writings  BY <1>5 DEF Write, Whole
<1>8. FilesRead'  BY <1>6 DEF FileInv, FilesRead, Write, Writings
<1>9. HeldTexts'
  <2>1. up' = up /\ Holding \subseteq Savers  BY DEF Write, Holding
  <2> QED  BY <1>1, <1>2, <1>3, <1>4, <2>1 DEF FileInv, HeldTexts
<1>10. TempNew'
  <2>1. Past(s)  BY DEF Write, Past
  <2> QED  BY <1>4, <1>7, <2>1 DEF FileInv, TempNew
<1>11. Alone'
  <2>1. SUFFICES ASSUME ~met'
                 PROVE  /\ \A x, y \in Holding : x = y
                        /\ \A x \in Holding : x = s
                        /\ temp'.text \in Writings
    BY <1>1, <1>3, <1>4, <2>1 DEF Alone
  <2>2. ~met  BY <2>1 DEF Write
  <2>3. saver[s].where = "temp"  BY <1>2, <2>2 DEF FileInv, Alone, Write
  <2>4. temp'.text \in Writings  BY <1>5, <2>3 DEF Write, Whole
  <2> QED  BY <1>2, <2>2, <2>4 DEF FileInv, Alone
<1> QED  BY <1>2, <1>3, <1>6, <1>8, <1>9, <1>10, <1>11 DEF FileInv

\* What is renamed is what one of the savers wrote, or, where they overlap, a file
\* one of them has just truncated.
LEMMA RenameKeeps ==
  ASSUME FileInv, NEW s \in Savers, RenameTemp(s)
  PROVE  /\ FileInv' /\ Holding' = Holding /\ s \in Holding
         /\ path'.text \in Writings \/ (met /\ path'.text = Blank)
<1>1. s \in Holding /\ Past(s)  BY DEF RenameTemp, Holding, Past
<1>2. /\ \A x \in Savers : saver'[x].at = IF x = s THEN "end" ELSE saver[x].at
      /\ \A x \in Savers : saver'[x].text = saver[x].text
      /\ SaverShape'
  <2>1. saver' = Progress(s)  BY DEF RenameTemp
  <2>2. \A x \in Savers :
          \/ x = s /\ saver'[x] = [saver[s] EXCEPT !.at = "end"]
          \/ /\ x # s
             /\ \/ saver'[x] = [saver[x] EXCEPT !.where = "path"]
                \/ saver'[x] = [saver[x] EXCEPT !.where = "gone"]
                \/ saver'[x] = saver[x]
    BY <2>1 DEF Progress
  <2>3. saver' = [x \in Savers |-> saver'[x]]  BY <2>1 DEF Progress
  <2>4. \A x \in Savers :
          /\ saver[x] = [at |-> saver[x].at, text |-> saver[x].text, where |-> saver[x].where]
          /\ saver[x].at \in {"idle", "open", "write", "rename", "end", "done"}
    BY DEF FileInv, SaverShape
  <2>5. \A x \in Savers :
          /\ saver'[x].at = IF x = s THEN "end" ELSE saver[x].at
          /\ saver'[x].text = saver[x].text
          /\ saver'[x] = [at |-> saver'[x].at, text |-> saver'[x].text, where |-> saver'[x].where]
    <3> SUFFICES ASSUME NEW x \in Savers
                 PROVE  /\ saver'[x].at = IF x = s THEN "end" ELSE saver[x].at
                        /\ saver'[x].text = saver[x].text
                        /\ saver'[x] = [at |-> saver'[x].at, text |-> saver'[x].text,
                                         where |-> saver'[x].where]
      OBVIOUS
    <3>1. PICK a, t, w : saver[x] = [at |-> a, text |-> t, where |-> w]  BY <2>4
    <3>2. CASE x = s
      <4>0. saver'[x] = [saver[x] EXCEPT !.at = "end"]  BY <2>2, <3>2
      <4>1. saver'[x] = [at |-> "end", text |-> t, where |-> w]  BY <3>1, <4>0
      <4> QED  BY <3>1, <3>2, <4>1
    <3>3. CASE x # s
      <4>0. \/ saver'[x] = [saver[x] EXCEPT !.where = "path"]
            \/ saver'[x] = [saver[x] EXCEPT !.where = "gone"]
            \/ saver'[x] = saver[x]
        BY <2>2, <3>3
      <4>1. \/ saver'[x] = [at |-> a, text |-> t, where |-> "path"]
            \/ saver'[x] = [at |-> a, text |-> t, where |-> "gone"]
            \/ saver'[x] = [at |-> a, text |-> t, where |-> w]
        BY <3>1, <4>0
      <4> QED  BY <3>1, <3>3, <4>1
    <3> QED  BY <3>2, <3>3
  <2> QED  BY <2>3, <2>4, <2>5 DEF SaverShape
<1>3. Holding' = Holding  BY <1>1, <1>2 DEF Holding
<1>4. Writings' = Writings  BY DEF RenameTemp, Writings
<1>5. path'.text \in Writings \/ (met /\ path'.text = Blank)
  <2>1. path'.text = temp.text  BY DEF RenameTemp
  <2>2. temp.text \in Writings \union {Blank}  BY <1>1 DEF FileInv, TempNew
  <2>3. ~met => temp.text \in Writings
    <3>1. SUFFICES ASSUME ~met PROVE temp.text \in Writings  OBVIOUS
    <3>2. CASE saver[s].at = "rename"  BY <1>1, <3>1, <3>2 DEF FileInv, Alone
    <3> QED  BY <3>2 DEF RenameTemp
  <2> QED  BY <2>1, <2>2, <2>3
<1>6. FilesRead'
  <2>1. Blank.disabled \in Disabled  BY StateFileConstants DEF Blank, Contents
  <2> QED  BY <1>5, <2>1 DEF FileInv, FilesRead, RenameTemp, Writings
<1>7. HeldTexts'
  <2>1. up' = up  BY DEF RenameTemp
  <2> QED  BY <1>1, <1>2, <1>3, <1>4, <2>1 DEF FileInv, HeldTexts, Holding
<1>8. TempNew'
  <2>1. temp'.text = Blank  BY DEF RenameTemp, NoFile
  <2> QED  BY <2>1 DEF TempNew, Blank, Contents
<1>9. Alone'
  <2>1. SUFFICES ASSUME ~met' PROVE \A x \in Holding : x = s
    BY <1>1, <1>2, <1>3, <2>1 DEF Alone
  <2>2. ~met  BY <2>1 DEF RenameTemp
  <2> QED  BY <1>1, <2>2 DEF FileInv, Alone
<1> QED  BY <1>1, <1>2, <1>3, <1>5, <1>6, <1>7, <1>8, <1>9 DEF FileInv

\* When nobody saves any more, whatever the files hold.
LEMMA AllIdle ==
  ASSUME FileInv, saver' = [x \in Savers |-> Idle], UNCHANGED <<off, path>>
  PROVE  FileInv' /\ Holding' = {}
<1>1. \A x \in Savers : saver'[x] = Idle  OBVIOUS
<1>2. Holding' = {} /\ \A x \in Savers : ~Past(x)'  BY <1>1 DEF Holding, Past, Idle
<1>3. SaverShape'  BY <1>1 DEF SaverShape, Idle
<1>4. FilesRead'  BY DEF FileInv, FilesRead
<1> QED  BY <1>2, <1>3, <1>4 DEF FileInv, HeldTexts, TempNew, Alone

\* A saver that ends or gives up takes nothing along but itself.
LEMMA EndKeeps ==
  ASSUME FileInv, NEW s \in Savers, EndSave(s)
  PROVE  FileInv' /\ Holding' = Holding \ {s}
<1>1. CASE saver' = [x \in Savers |-> Idle] /\ Holding = {s}
  <2>1. UNCHANGED <<off, path>>  BY DEF EndSave
  <2> QED  BY <1>1, <2>1, AllIdle
<1>2. CASE up' = "stopping" /\ saver' = [saver EXCEPT ![s] = [Idle EXCEPT !.at = "done"]]
  <2> DEFINE r == [Idle EXCEPT !.at = "done"]
  <2>1. r.at = "done" /\ r = [at |-> r.at, text |-> r.text, where |-> r.where]  BY DEF Idle
  <2>2. /\ SaverShape' /\ saver'[s] = r /\ Holding' = Holding \ {s}
        /\ \A x \in Savers \ {s} : saver'[x] = saver[x]
    <3>1. Becomes(s, r)  BY <1>2 DEF Becomes
    <3> HIDE DEF r
    <3> QED  BY <2>1, <3>1, SaverMoved
  <2> HIDE DEF r
  <2>3. UNCHANGED <<session, off, path, temp, met>>  BY DEF EndSave
  <2>4. Holding \subseteq Savers  BY DEF Holding
  <2>5. Writings' = Writings  BY <2>3 DEF Writings
  <2>6. FilesRead'  BY <2>3 DEF FileInv, FilesRead
  <2>7. HeldTexts'  BY <1>2, <2>2, <2>4, <2>5 DEF FileInv, HeldTexts
  <2>8. TempNew'  BY <2>1, <2>2, <2>3, <2>5 DEF FileInv, TempNew, Past
  <2>9. Alone'  BY <2>2, <2>3, <2>4, <2>5 DEF FileInv, Alone
  <2> QED  BY <2>2, <2>6, <2>7, <2>8, <2>9 DEF FileInv
<1> QED  BY <1>1, <1>2 DEF EndSave

-----------------------------------------------------------------------------
(* The whole machine.                                                       *)

\* The file a start reads names outputs that can be disabled, beside those the configuration disables.
LEMMA BootKeeps ==
  ASSUME FileInv, Boot
  PROVE  FileInv' /\ Holding = {} /\ Holding' = {}
<1>1. Holding = {} /\ UNCHANGED <<saver, temp, path>> /\ up' = "serving"
  BY DEF Boot, FileInv, HeldTexts
<1>2. off' = ConfiguredOff \union path.text.disabled \/ off' = ConfiguredOff \union {}  BY DEF Boot, Restore
<1>3. FilesRead'  BY <1>1, <1>2, StateFileConstants DEF FileInv, FilesRead
<1>4. FileInv'  BY <1>1, <1>3, SaversRest
<1> QED  BY <1>1, <1>4 DEF Holding

\* Each step of the machine keeps the invariant and is one of the snapshot's steps,
\* or none of them.
LEMMA StepKept ==
  ASSUME FileInv, [StateFileNext]_filevars
  PROVE  FileInv' /\ [Snap!Next]_Snap!snapvars
<1> USE DEF Snap!snapvars, Snap!Next
<1>1. CASE Boot
  <2>1. FileInv' /\ Holding = {} /\ Holding' = {}  BY <1>1, BootKeeps
  <2>2. Snap!Restart  BY <1>1, <2>1 DEF Boot, Snap!Restart
  <2> QED  BY <2>1, <2>2
<1>2. CASE Work
  <2>1. FileInv'  BY <1>2, SaversRest DEF Work, Alive, FileInv, FilesRead
  <2>2. Snap!Work  BY <1>2 DEF Work, Snap!Work, Holding
  <2> QED  BY <2>1, <2>2
<1>3. CASE Resume
  <2>1. FileInv'  BY <1>3, SaversRest DEF Resume, Alive, FileInv, FilesRead
  <2>2. Snap!Work  BY <1>3 DEF Resume, Snap!Work, Holding
  <2> QED  BY <2>1, <2>2
<1>4. CASE ToggleOutput
  <2>1. FileInv'  BY <1>4, SaversRest DEF ToggleOutput, Alive, FileInv, FilesRead
  <2> QED  BY <1>4, <2>1 DEF ToggleOutput, Holding
<1>5. CASE Kill
  <2>1. FileInv'  BY <1>5, SaversRest DEF Kill, FileInv, FilesRead
  <2> QED  BY <1>5, <2>1 DEF Kill, Holding
<1>6. CASE Die
  <2>1. FileInv' /\ Holding' = {}  BY <1>6, AllIdle DEF Die
  <2>2. Snap!Crash  BY <1>6, <2>1 DEF Die, Snap!Crash
  <2> QED  BY <2>1, <2>2
<1>7. ASSUME NEW s \in Savers, BeginSave(s) PROVE FileInv' /\ Snap!Next
  <2>1. FileInv' /\ Holding' = Holding \union {s}  BY <1>7, BeginKeeps
  <2>2. Snap!Begin(s)  BY <1>7, <2>1 DEF BeginSave, Snap!Begin
  <2> QED  BY <2>1, <2>2
<1>8. ASSUME NEW s \in Savers, Open(s) PROVE FileInv' /\ UNCHANGED Snap!snapvars
  <2>1. FileInv' /\ Holding' = Holding  BY <1>8, OpenKeeps
  <2> QED  BY <1>8, <2>1 DEF Open
<1>9. ASSUME NEW s \in Savers, Write(s) PROVE FileInv' /\ [Snap!Next]_Snap!snapvars
  <2>1. /\ FileInv' /\ Holding' = Holding /\ Holding # {}
        /\ path'.text = path.text \/ path'.text \in Writings
    BY <1>9, WriteKeeps
  <2>2. UNCHANGED <<session, read, met>>  BY <1>9 DEF Write
  <2>3. UNCHANGED Snap!snapvars \/ Snap!Keep  BY <2>1, <2>2 DEF Snap!Keep, Snap!Saved, Writings
  <2> QED  BY <2>1, <2>3
<1>10. ASSUME NEW s \in Savers, RenameTemp(s) PROVE FileInv' /\ Snap!Next
  <2>1. /\ FileInv' /\ Holding' = Holding /\ Holding # {}
        /\ path'.text \in Writings \/ (met /\ path'.text = Blank)
    BY <1>10, RenameKeeps
  <2>2. UNCHANGED <<session, read, met>>  BY <1>10 DEF RenameTemp
  <2>3. Snap!Keep \/ Snap!Tear
    BY <2>1, <2>2 DEF Snap!Keep, Snap!Tear, Snap!Saved, Writings
  <2> QED  BY <2>1, <2>3
<1>11. ASSUME NEW s \in Savers, EndSave(s) PROVE FileInv' /\ Snap!Next
  <2>1. FileInv' /\ Holding' = Holding \ {s}  BY <1>11, EndKeeps
  <2>2. Snap!End(s)  BY <1>11, <2>1 DEF EndSave, Snap!End
  <2> QED  BY <2>1, <2>2
<1>12. CASE UNCHANGED filevars
  <2>1. FileInv'  BY <1>12, SaversRest DEF filevars, FileInv, FilesRead, HeldTexts
  <2> QED  BY <1>12, <2>1 DEF filevars, Holding
<1> QED  BY <1>1, <1>2, <1>3, <1>4, <1>5, <1>6, <1>7, <1>8, <1>9, <1>10, <1>11, <1>12
         DEF StateFileNext

\* The file at every start is a session as it was saved, whole, or, where two saves
\* overlapped, an empty one: the detailed machine, with its truncated files, renames,
\* failures and crashes, implements the snapshot (statefile.rs, app.rs).
THEOREM FileIsSnapshot == StateFileSpec => SnapshotKept
<1>1. StateFileInit => FileInv  BY FileInvInit
<1>2. FileInv /\ [StateFileNext]_filevars => FileInv'  BY StepKept
<1>3. FileInv /\ [StateFileNext]_filevars => [Snap!Next]_Snap!snapvars  BY StepKept
<1>4. StateFileInit => Snap!Init
  <2>1. SUFFICES ASSUME StateFileInit PROVE Snap!Init  OBVIOUS
  <2>2. \A s \in Savers : saver[s] = Idle  BY <2>1 DEF StateFileInit
  <2>3. Holding = {}  BY <2>2 DEF Holding, Idle
  <2> QED  BY <2>1, <2>3 DEF StateFileInit, NoFile, Snap!Init
<1> QED  BY <1>1, <1>2, <1>3, <1>4, PTL DEF StateFileSpec, SnapshotKept, Snap!Spec

-----------------------------------------------------------------------------
(* What a start makes of the file.                                          *)

\* The position is shifted round by round.
LEMMA ShiftedRuns ==
  ASSUME NEW V, NEW old, old.pos \in Nat, old.songs \in Seq(V), NEW k
  PROVE  \E h \in [0 .. Len(old.songs) -> Nat] :
           /\ h[0] = old.pos
           /\ \A i \in 1 .. Len(old.songs) :
                h[i] = IF old.songs[i] \notin k /\ i - 1 < h[i - 1] THEN h[i - 1] - 1 ELSE h[i - 1]
           /\ Shifted(old, k) = h[Len(old.songs)]
<1> DEFINE l == old.songs
           n == Len(l)
           Round(x, i) == IF l[i] \notin k /\ i - 1 < x THEN x - 1 ELSE x
           F == [a \in Nat \X (1 .. n) |-> Round(a[1], a[2])]
           Rounded(h) == h = [i \in 0 .. n |-> IF i = 0 THEN old.pos ELSE Round(h[i - 1], i)]
           g == CHOOSE h : Rounded(h)
<1>1. n \in Nat
  OBVIOUS
<1>2. ASSUME NEW x \in Nat, NEW i \in 1 .. n  PROVE Round(x, i) \in Nat
  BY <1>1
<1>3. Shifted(old, k) = g[n]
  BY DEF Shifted, Looped
<1> HIDE DEF Round, n
<1>4. StaysIn(Nat, n, F)
  BY <1>2 DEF StaysIn
<1>5. PICK f \in [0 .. n -> Nat] : f[0] = old.pos /\ \A i \in 1 .. n : f[i] = F[<<f[i - 1], i>>]
  <2> HIDE DEF F
  <2>1. Runs(Nat, old.pos, n, F)
    BY <1>1, <1>4, LoopRuns, Zenon
  <2> QED  BY <2>1 DEF Runs
<1>6. ASSUME NEW i \in 1 .. n  PROVE f[i] = Round(f[i - 1], i)
  <2>1. f[i - 1] \in Nat
    BY <1>1
  <2> QED  BY <1>5, <2>1
<1>7. Rounded(f)
  BY <1>1, <1>5, <1>6
<1>8. Rounded(g)
  BY <1>7, Zenon
<1>9. g[0] = old.pos /\ \A i \in 1 .. n : g[i] = Round(g[i - 1], i)
  <2> HIDE DEF g
  <2> QED  BY <1>1, <1>8
<1> HIDE DEF g
<1>10. \A i \in 0 .. n : i \in {m \in 0 .. n : g[m] \in Nat}
  <2>1. ASSUME NEW i \in 1 .. n, i - 1 \in {m \in 0 .. n : g[m] \in Nat}
        PROVE  i \in {m \in 0 .. n : g[m] \in Nat}
    <3>1. g[i - 1] \in Nat /\ i \in 0 .. n
      BY <1>1, <2>1
    <3>2. Round(g[i - 1], i) \in Nat
      BY <1>2, <3>1
    <3> QED  BY <1>9, <3>1, <3>2
  <2>2. 0 \in {m \in 0 .. n : g[m] \in Nat}
    BY <1>1, <1>9
  <2> QED  BY <1>1, <2>1, <2>2, UpTo
<1>11. g \in [0 .. n -> Nat]
  BY <1>8, <1>10
<1> QED  BY <1>3, <1>9, <1>11 DEF Round, n

\* The elements after the a-th up to the b-th that a filter lets through, and those it does not.
Passing(l, S, a, b) == {x \in a + 1 .. b : l[x] \in S}
Dropped(l, S, a, b) == {x \in a + 1 .. b : l[x] \notin S}

\* h grows from a to b by as many elements as pass.
Grows(h, l, S, a, b) ==
  /\ Len(h[a]) \in Nat /\ Len(h[b]) \in Nat
  /\ IsFiniteSet(Passing(l, S, a, b)) /\ Cardinality(Passing(l, S, a, b)) = Len(h[b]) - Len(h[a])
  /\ IsFiniteSet(Dropped(l, S, a, b))
  /\ Cardinality(Dropped(l, S, a, b)) = (b - a) - (Len(h[b]) - Len(h[a]))
  /\ Len(h[a]) <= Len(h[b]) /\ Len(h[b]) - Len(h[a]) <= b - a

\* What a filter has let through grows by the elements that pass.
LEMMA SelectedCounts ==
  ASSUME NEW V, NEW l \in Seq(V), NEW S, NEW h, SelectsBy(h, V, l, S),
         NEW a \in 0 .. Len(l), NEW b \in a .. Len(l)
  PROVE  Grows(h, l, S, a, b)
<1> DEFINE n == Len(l)
           In(j) == Passing(l, S, a, j)
           Out(j) == Dropped(l, S, a, j)
           Good(j) == Grows(h, l, S, a, j)
           G == {j \in 0 .. n : j >= a => Good(j)}
<1>1. n \in Nat /\ a \in 0 .. n /\ b \in a .. n /\ a \in Nat /\ b \in Nat
  OBVIOUS
<1>2. /\ \A i \in 0 .. n : h[i] \in Seq(V \intersect S)
      /\ \A i \in 1 .. n : h[i] = IF l[i] \in S THEN Append(h[i - 1], l[i]) ELSE h[i - 1]
  BY DEF SelectsBy
<1>3. \A i \in 0 .. n : Len(h[i]) \in Nat
  BY <1>2
<1> HIDE DEF n
<1>4. Good(a)
  <2>1. In(a) = {} /\ Out(a) = {}
    BY <1>1 DEF Passing, Dropped
  <2> HIDE DEF In, Out
  <2>2. IsFiniteSet({}) /\ Cardinality({}) = 0
    BY FS_EmptySet
  <2>3. Len(h[a]) \in Nat
    BY <1>1, <1>3
  <2>4. Cardinality(In(a)) = Len(h[a]) - Len(h[a]) /\ IsFiniteSet(In(a))
    BY <2>1, <2>2, <2>3
  <2>5. Cardinality(Out(a)) = (a - a) - (Len(h[a]) - Len(h[a])) /\ IsFiniteSet(Out(a))
    BY <1>1, <2>1, <2>2, <2>3
  <2> QED  BY <1>1, <2>3, <2>4, <2>5 DEF In, Out, Grows
<1>5. ASSUME NEW j \in 1 .. n, j > a, Good(j - 1)  PROVE Good(j)
  <2>1. /\ j - 1 \in 0 .. n /\ j \in 0 .. n /\ j \in Nat
        /\ Len(h[j]) \in Nat /\ Len(h[j - 1]) \in Nat /\ Len(h[a]) \in Nat
    <3>1. j - 1 \in 0 .. n /\ j \in 0 .. n /\ j \in Nat
      BY <1>1
    <3> QED  BY <1>1, <1>3, <3>1
  <2>2. \A x : x \in a + 1 .. j <=> x \in a + 1 .. j - 1 \/ x = j
    BY <1>1, <1>5
  <2>3. j \notin In(j - 1) /\ j \notin Out(j - 1)
    BY <1>1 DEF Passing, Dropped
  <2>6. /\ IsFiniteSet(In(j - 1)) /\ Cardinality(In(j - 1)) = Len(h[j - 1]) - Len(h[a])
        /\ IsFiniteSet(Out(j - 1)) /\ Cardinality(Out(j - 1)) = (j - 1 - a) - (Len(h[j - 1]) - Len(h[a]))
        /\ Len(h[a]) <= Len(h[j - 1]) /\ Len(h[j - 1]) - Len(h[a]) <= j - 1 - a
    BY <1>5 DEF Grows
  <2>4. CASE l[j] \in S
    <3>1. In(j) = In(j - 1) \union {j} /\ Out(j) = Out(j - 1)
      BY <2>2, <2>4 DEF Passing, Dropped
    <3>2. Len(h[j]) = Len(h[j - 1]) + 1
      <4>1. h[j] = Append(h[j - 1], l[j]) /\ h[j - 1] \in Seq(V \intersect S)
        BY <1>2, <2>1, <2>4
      <4> QED  BY <4>1
    <3> HIDE DEF In, Out
    <3>3. IsFiniteSet(In(j)) /\ Cardinality(In(j)) = Cardinality(In(j - 1)) + 1
      BY <2>3, <2>6, <3>1, FS_AddElement
    <3>4. Cardinality(In(j)) = Len(h[j]) - Len(h[a]) /\ IsFiniteSet(In(j))
      <4>1. Len(h[j]) - Len(h[a]) = (Len(h[j - 1]) - Len(h[a])) + 1
        BY <2>1, <3>2
      <4> QED  BY <2>6, <3>3, <4>1
    <3>5. Cardinality(Out(j)) = (j - a) - (Len(h[j]) - Len(h[a])) /\ IsFiniteSet(Out(j))
      <4>1. (j - a) - (Len(h[j]) - Len(h[a])) = (j - 1 - a) - (Len(h[j - 1]) - Len(h[a]))
        BY <1>1, <2>1, <3>2
      <4> QED  BY <2>6, <3>1, <4>1
    <3>6. Len(h[a]) <= Len(h[j]) /\ Len(h[j]) - Len(h[a]) <= j - a
      BY <1>1, <2>1, <2>6, <3>2
    <3> QED  BY <2>1, <3>4, <3>5, <3>6 DEF In, Out, Grows
  <2>5. CASE l[j] \notin S
    <3>1. In(j) = In(j - 1) /\ Out(j) = Out(j - 1) \union {j}
      BY <2>2, <2>5 DEF Passing, Dropped
    <3>2. Len(h[j]) = Len(h[j - 1])
      BY <1>2, <2>5
    <3> HIDE DEF In, Out
    <3>3. IsFiniteSet(Out(j)) /\ Cardinality(Out(j)) = Cardinality(Out(j - 1)) + 1
      BY <2>3, <2>6, <3>1, FS_AddElement
    <3>4. Cardinality(In(j)) = Len(h[j]) - Len(h[a]) /\ IsFiniteSet(In(j))
      BY <2>6, <3>1, <3>2
    <3>5. Cardinality(Out(j)) = (j - a) - (Len(h[j]) - Len(h[a])) /\ IsFiniteSet(Out(j))
      <4>1. (j - a) - (Len(h[j]) - Len(h[a])) = ((j - 1 - a) - (Len(h[j - 1]) - Len(h[a]))) + 1
        BY <1>1, <2>1, <3>2
      <4> QED  BY <2>6, <3>3, <4>1
    <3>6. Len(h[a]) <= Len(h[j]) /\ Len(h[j]) - Len(h[a]) <= j - a
      BY <1>1, <2>1, <2>6, <3>2
    <3> QED  BY <2>1, <3>4, <3>5, <3>6 DEF In, Out, Grows
  <2> QED  BY <2>4, <2>5
<1> HIDE DEF Good
<1>6. 0 \in G
  BY <1>1, <1>4
<1>7. ASSUME NEW j \in 1 .. n, j - 1 \in G  PROVE j \in G
  <2>1. CASE j < a
    BY <1>1, <2>1
  <2>2. CASE j = a
    BY <1>1, <1>4, <2>2
  <2>3. CASE j > a
    <3>1. Good(j - 1)
      BY <1>1, <1>7, <2>3
    <3> QED  BY <1>1, <1>5, <2>3, <3>1
  <2> QED  BY <1>1, <2>1, <2>2, <2>3
<1>8. \A j \in 0 .. n : j \in G
  <2> HIDE DEF G
  <2> QED  BY <1>1, <1>6, <1>7, UpTo
<1>9. Good(b)
  BY <1>1, <1>8
<1> QED  BY <1>9 DEF Good

\* Song c of what is left of the saved queue is the saved song or a later one, past fewer known songs than
\* are missing before the saved one.
LeadsOn(old, k, c) ==
  \E i \in old.pos + 1 .. Len(old.songs) :
    LET passed == {x \in old.pos + 1 .. i - 1 : old.songs[x] \in k}
    IN  /\ old.songs[i] \in k /\ c >= 0
        /\ Selected(old.songs, k)[c + 1] = old.songs[i]
        /\ passed = {} \/ Cardinality(passed) < Cardinality({x \in 1 .. old.pos : old.songs[x] \notin k})

\* The saved position is shifted to such a song.
LEMMA ShiftedFinds ==
  ASSUME NEW V, NEW old, old.pos \in Nat, old.songs \in Seq(V), NEW k,
         Shifted(old, k) < Len(Selected(old.songs, k))
  PROVE  LeadsOn(old, k, Shifted(old, k))
<1> DEFINE l == old.songs
           n == Len(l)
           pos == old.pos
<1>1. n \in Nat /\ pos \in Nat /\ l \in Seq(V)
  OBVIOUS
<1>2. PICK f \in [0 .. n -> Nat] :
        /\ f[0] = pos
        /\ \A i \in 1 .. n : f[i] = IF l[i] \notin k /\ i - 1 < f[i - 1] THEN f[i - 1] - 1 ELSE f[i - 1]
        /\ Shifted(old, k) = f[n]
  BY ShiftedRuns
<1>3. PICK g : SelectsBy(g, V, l, k)
  BY SelectedRuns
<1>4. /\ \A i \in 0 .. n : g[i] \in Seq(V \intersect k) /\ Len(g[i]) \in Nat /\ f[i] \in Nat
      /\ \A i \in 1 .. n : g[i] = IF l[i] \in k THEN Append(g[i - 1], l[i]) ELSE g[i - 1]
      /\ Len(g[0]) = 0 /\ Selected(l, k) = g[n]
  <2>1. /\ g \in [0 .. n -> Seq(V \intersect k)] /\ g[0] = <<>> /\ Selected(l, k) = g[n]
        /\ \A i \in 1 .. n : g[i] = IF l[i] \in k THEN Append(g[i - 1], l[i]) ELSE g[i - 1]
    BY <1>3 DEF SelectsBy
  <2>2. Len(g[0]) = 0
    BY <2>1
  <2>3. \A i \in 0 .. n : g[i] \in Seq(V \intersect k) /\ f[i] \in Nat
    BY <1>2, <2>1
  <2>4. \A i \in 0 .. n : Len(g[i]) \in Nat
    BY <2>3
  <2> QED  BY <2>1, <2>2, <2>3, <2>4
<1>5. ASSUME NEW a \in 0 .. n, NEW b \in a .. n
      PROVE  Grows(g, l, k, a, b)
  <2>1. SelectsBy(g, V, l, k) /\ l \in Seq(V) /\ a \in 0 .. Len(l) /\ b \in a .. Len(l)
    BY <1>1, <1>3, <1>5
  <2> HIDE DEF l, n
  <2> QED  BY <2>1, SelectedCounts
<1> HIDE DEF n, pos, l
<1>6. ASSUME NEW i \in 1 .. n
      PROVE  Len(g[i]) = IF l[i] \in k THEN Len(g[i - 1]) + 1 ELSE Len(g[i - 1])
  <2>1. g[i - 1] \in Seq(V \intersect k) /\ i - 1 \in 0 .. n
    BY <1>1, <1>4
  <2>2. g[i] = IF l[i] \in k THEN Append(g[i - 1], l[i]) ELSE g[i - 1]
    BY <1>4
  <2>3. Len(Append(g[i - 1], l[i])) = Len(g[i - 1]) + 1
    BY <2>1
  <2> QED  BY <2>2, <2>3
<1> DEFINE G == {i \in 0 .. n :
                   /\ i <= pos => /\ pos - (i - Len(g[i])) <= f[i] /\ f[i] <= pos
                                  /\ Len(g[i]) < i => f[i] < pos
                   /\ i > pos => f[i] = f[pos]}
<1>7. \A i \in 0 .. n : i \in G
  <2>1. 0 \in G
    BY <1>1, <1>2, <1>4
  <2>2. ASSUME NEW i \in 1 .. n, i - 1 \in G  PROVE i \in G
    <3>1. /\ i - 1 \in 0 .. n /\ i \in 0 .. n /\ f[i] \in Nat /\ f[i - 1] \in Nat
          /\ Len(g[i]) \in Nat /\ Len(g[i - 1]) \in Nat
      <4>1. i - 1 \in 0 .. n /\ i \in 0 .. n
        <5> HIDE DEF G
        <5> QED  BY <1>1
      <4> QED  BY <1>4, <4>1
    <3>2. f[i] = IF l[i] \notin k /\ i - 1 < f[i - 1] THEN f[i - 1] - 1 ELSE f[i - 1]
      BY <1>2
    <3>3. Len(g[i]) = IF l[i] \in k THEN Len(g[i - 1]) + 1 ELSE Len(g[i - 1])
      BY <1>6
    <3>4. Len(g[i - 1]) <= i - 1
      <4>1. 0 \in 0 .. n /\ i - 1 \in 0 .. n
        BY <1>1, <3>1
      <4>2. Len(g[i - 1]) - Len(g[0]) <= (i - 1) - 0
        BY <1>5, <4>1 DEF Grows
      <4> QED  BY <1>4, <3>1, <4>2
    <3>5. CASE i <= pos
      <4>1. /\ pos - ((i - 1) - Len(g[i - 1])) <= f[i - 1] /\ f[i - 1] <= pos
            /\ Len(g[i - 1]) < i - 1 => f[i - 1] < pos
        BY <1>1, <2>2, <3>5
      <4>2. CASE l[i] \in k
        <5>1. f[i] = f[i - 1] /\ Len(g[i]) = Len(g[i - 1]) + 1
          BY <3>2, <3>3, <4>2
        <5>2. i - Len(g[i]) = (i - 1) - Len(g[i - 1]) /\ (Len(g[i]) < i <=> Len(g[i - 1]) < i - 1)
          BY <3>1, <5>1
        <5>3. pos - (i - Len(g[i])) <= f[i] /\ f[i] <= pos /\ (Len(g[i]) < i => f[i] < pos)
          BY <4>1, <5>1, <5>2
        <5> QED  BY <1>1, <3>1, <3>5, <5>3
      <4>3. CASE l[i] \notin k
        <5>1. Len(g[i]) = Len(g[i - 1])
          BY <3>3, <4>3
        <5>2. f[i] <= f[i - 1] /\ f[i] >= f[i - 1] - 1 /\ f[i] < pos
          BY <1>1, <3>1, <3>2, <3>5, <4>1, <4>3
        <5>3. f[i] <= pos
          BY <1>1, <3>1, <5>2
        <5>4. pos - (i - Len(g[i])) <= f[i]
          <6> DEFINE u == pos - ((i - 1) - Len(g[i - 1]))
          <6>4. pos \in Int /\ i \in Int /\ Len(g[i - 1]) \in Int
            BY <1>1, <3>1
          <6>5. pos - (i - Len(g[i - 1])) = (pos - ((i - 1) - Len(g[i - 1]))) - 1
            BY <6>4
          <6>2. pos - (i - Len(g[i])) = u - 1
            BY <5>1, <6>5
          <6>3. u <= f[i - 1] /\ u \in Int
            BY <4>1, <6>4
          <6> HIDE DEF u
          <6> QED  BY <3>1, <5>2, <6>2, <6>3
        <5> QED  BY <1>1, <3>1, <3>5, <5>2, <5>3, <5>4
      <4> QED  BY <4>2, <4>3
    <3>6. CASE i > pos
      <4>1. f[i - 1] = f[pos]
        <5>1. CASE i - 1 = pos
          BY <5>1
        <5>2. CASE i - 1 # pos
          <6>1. i - 1 > pos
            BY <1>1, <3>6, <5>2
          <6> QED  BY <2>2, <6>1
        <5> QED  BY <5>1, <5>2
      <4>2. f[pos] <= pos
        <5>1. CASE i - 1 = pos
          BY <1>1, <2>2, <5>1
        <5>2. CASE i - 1 > pos
          <6>1. pos \in 0 .. n /\ 0 \in 0 .. n
            BY <1>1, <3>6
          <6> DEFINE L == {m \in 0 .. n : m <= pos => f[m] <= pos}
          <6>2. 0 \in L
            BY <1>1, <1>2
          <6>3. ASSUME NEW m \in 1 .. n, m - 1 \in L  PROVE m \in L
            <7>1. m - 1 \in 0 .. n /\ f[m] \in Nat /\ f[m - 1] \in Nat
              BY <1>1, <1>4
            <7>2. f[m] = IF l[m] \notin k /\ m - 1 < f[m - 1] THEN f[m - 1] - 1 ELSE f[m - 1]
              BY <1>2
            <7> QED  BY <1>1, <6>3, <7>1, <7>2
          <6>4. \A m \in 0 .. n : m \in L
            <7> HIDE DEF L
            <7> QED  BY <1>1, <6>2, <6>3, UpTo
          <6> QED  BY <1>1, <6>1, <6>4
        <5> QED  BY <1>1, <3>6, <5>1, <5>2
      <4> QED  BY <1>1, <3>1, <3>2, <3>6, <4>1, <4>2
    <3> QED  BY <1>1, <3>5, <3>6
  <2> HIDE DEF G
  <2> QED  BY <1>1, <2>1, <2>2, UpTo
<1> DEFINE c == f[n]
<1>8. c \in Nat /\ c < Len(g[n]) /\ Len(g[n]) \in Nat
  BY <1>1, <1>2, <1>4 DEF l, n
<1>9. pos < n
  <2> SUFFICES ASSUME n <= pos  PROVE FALSE
    BY <1>1
  <2>1. n \in G
    <3> HIDE DEF G
    <3> QED  BY <1>1, <1>7
  <2>2. pos - (n - Len(g[n])) <= c
    BY <2>1
  <2> HIDE DEF c
  <2> QED  BY <1>1, <1>8, <2>2
<1> DEFINE d == pos - Len(g[pos])
<1>10. /\ Len(g[pos]) <= c /\ c <= pos /\ d \in Nat /\ Len(g[pos]) \in Nat
       /\ d > 0 => c < pos
  <2>1. pos \in 0 .. n /\ pos \in G /\ n \in G
    <3> HIDE DEF G
    <3> QED  BY <1>1, <1>7, <1>9
  <2>2. f[n] = f[pos] /\ f[n] \in Nat /\ Len(g[pos]) \in Nat
    BY <1>1, <1>4, <1>9, <2>1
  <2>3. Len(g[pos]) <= pos
    <3>1. 0 \in 0 .. n /\ pos \in 0 .. n
      BY <1>1, <1>9
    <3>2. Len(g[pos]) - Len(g[0]) <= pos - 0
      BY <1>5, <3>1 DEF Grows
    <3> QED  BY <1>1, <1>4, <2>2, <3>2
  <2> QED  BY <1>1, <2>1, <2>2, <2>3
<1>11. Cardinality(Dropped(l, k, 0, pos)) = d
  <2>1. 0 \in 0 .. n /\ pos \in 0 .. n
    BY <1>1, <1>9
  <2>2. Cardinality(Dropped(l, k, 0, pos)) = (pos - 0) - (Len(g[pos]) - Len(g[0]))
    BY <1>5, <2>1 DEF Grows
  <2>3. (pos - 0) - (Len(g[pos]) - Len(g[0])) = d
    BY <1>1, <1>4, <1>10
  <2> QED  BY <2>2, <2>3
<1> HIDE DEF G, c, d
\* The round that lets the song at c through.
<1> DEFINE I == {j \in 1 .. n : Len(g[j]) >= c + 1}
<1>12. n \in I
  BY <1>1, <1>8, <1>9
<1>13. PICK i \in I : \A y \in I : i <= y
  <2>1. I \in SUBSET Nat
    BY <1>1
  <2>2. I # {}
    <3> HIDE DEF I
    <3> QED  BY <1>12
  <2> HIDE DEF I
  <2> QED  BY <2>1, <2>2, LeastNat
<1>14. i \in 1 .. n /\ Len(g[i]) >= c + 1 /\ Len(g[i]) \in Nat
  BY <1>1, <1>4, <1>13
<1>15. i - 1 \in 0 .. n /\ Len(g[i - 1]) \in Nat /\ Len(g[i - 1]) <= c
  <2>1. i - 1 \in 0 .. n /\ Len(g[i - 1]) \in Nat
    BY <1>1, <1>4, <1>14
  <2>2. i - 1 \notin I
    <3>1. ~(i <= i - 1)
      BY <1>14
    <3> HIDE DEF I
    <3> QED  BY <1>13, <3>1
  <2>3. CASE i - 1 = 0
    BY <1>4, <1>8, <2>1, <2>3
  <2>4. CASE i - 1 # 0
    BY <1>1, <1>8, <1>14, <2>1, <2>2, <2>4
  <2> QED  BY <2>3, <2>4
<1> HIDE DEF I
<1>16. l[i] \in k /\ Len(g[i - 1]) = c
  BY <1>6, <1>8, <1>14, <1>15
<1>17. i \in pos + 1 .. n
  <2> SUFFICES ASSUME i <= pos  PROVE FALSE
    BY <1>1, <1>14
  <2>1. i \in 0 .. n /\ pos \in i .. n
    BY <1>1, <1>9, <1>14
  <2>2. Len(g[i]) <= Len(g[pos])
    BY <1>5, <2>1 DEF Grows
  <2> QED  BY <1>8, <1>10, <1>14, <2>2
<1>18. LET passed == Passing(l, k, pos, i - 1)
       IN  passed = {} \/ Cardinality(passed) < d
  <2> DEFINE passed == Passing(l, k, pos, i - 1)
  <2>1. pos \in 0 .. n /\ i - 1 \in pos .. n
    BY <1>1, <1>9, <1>15, <1>17
  <2>2. IsFiniteSet(passed) /\ Cardinality(passed) = Len(g[i - 1]) - Len(g[pos])
    BY <1>5, <2>1 DEF Grows
  <2> HIDE DEF passed
  <2>3. Cardinality(passed) = c - Len(g[pos])
    BY <1>16, <2>2
  <2>4. CASE d > 0
    <3>1. c - Len(g[pos]) < d
      BY <1>1, <1>8, <1>10, <2>4 DEF d
    <3> QED  BY <2>3, <3>1 DEF passed
  <2>5. CASE d = 0
    <3>1. c - Len(g[pos]) = 0
      BY <1>1, <1>8, <1>10, <2>5 DEF d
    <3>2. passed = {}
      BY <2>2, <2>3, <3>1, FS_EmptySet
    <3> QED  BY <3>2 DEF passed
  <2> QED  BY <1>10, <2>4, <2>5
<1>19. \A j \in 0 .. n : j \in {m \in 0 .. n : m >= i => Len(g[m]) >= c + 1 /\ g[m][c + 1] = l[i]}
  <2> DEFINE K == {m \in 0 .. n : m >= i => Len(g[m]) >= c + 1 /\ g[m][c + 1] = l[i]}
  <2>1. 0 \in K
    BY <1>1, <1>14
  <2>2. ASSUME NEW j \in 1 .. n, j - 1 \in K  PROVE j \in K
    <3>0. j - 1 \in 0 .. n
      <4> HIDE DEF K
      <4> QED  BY <1>1
    <3>1. CASE j > i
      <4>1. Len(g[j - 1]) >= c + 1 /\ g[j - 1][c + 1] = l[i]
        BY <1>1, <1>14, <2>2, <3>1
      <4>2. CASE l[j] \in k
        <5>1. g[j] = Append(g[j - 1], l[j]) /\ g[j - 1] \in Seq(V \intersect k)
          BY <1>4, <3>0, <4>2
        <5>2. Len(g[j]) = Len(g[j - 1]) + 1 /\ g[j][c + 1] = g[j - 1][c + 1]
          BY <1>4, <1>8, <3>0, <4>1, <5>1
        <5> QED  BY <1>4, <1>8, <3>0, <4>1, <5>2
      <4>3. CASE l[j] \notin k
        BY <1>4, <4>1, <4>3
      <4> QED  BY <4>2, <4>3
    <3>2. CASE j = i
      <4>1. g[j] = Append(g[j - 1], l[j]) /\ g[j - 1] \in Seq(V \intersect k) /\ Len(g[j - 1]) = c
        BY <1>4, <1>14, <1>15, <1>16, <3>0, <3>2
      <4> QED  BY <1>8, <3>2, <4>1
    <3>3. CASE j < i
      BY <1>1, <1>14, <3>3
    <3> QED  BY <1>1, <1>14, <3>1, <3>2, <3>3
  <2> HIDE DEF K
  <2>3. \A j \in 0 .. n : j \in K
    BY <1>1, <2>1, <2>2, UpTo
  <2> QED  BY <2>3 DEF K
<1>20. g[n][c + 1] = l[i]
  <2>1. n \in 0 .. n /\ n >= i
    BY <1>1, <1>14
  <2>2. n \in {m \in 0 .. n : m >= i => Len(g[m]) >= c + 1 /\ g[m][c + 1] = l[i]}
    BY <1>19, <2>1, Zenon
  <2> QED  BY <2>1, <2>2
<1>21. LET passed == {x \in pos + 1 .. i - 1 : l[x] \in k}
       IN  passed = {} \/ Cardinality(passed) < Cardinality({x \in 1 .. pos : l[x] \notin k})
  <2>1. {x \in pos + 1 .. i - 1 : l[x] \in k} = Passing(l, k, pos, i - 1)
    BY DEF Passing
  <2>2. {x \in 1 .. pos : l[x] \notin k} = Dropped(l, k, 0, pos)
    BY DEF Dropped
  <2> QED  BY <1>11, <1>18, <2>1, <2>2
<1>22. Shifted(old, k) = c /\ c >= 0 /\ Selected(l, k)[c + 1] = l[i]
  BY <1>2, <1>4, <1>8, <1>20 DEF c
<1> QED  BY <1>16, <1>17, <1>21, <1>22 DEF l, n, pos, LeadsOn

\* A sequence is one of its own elements.
LEMMA OwnElements == ASSUME NEW V, NEW x \in Seq(V)  PROVE x \in Seq(ToSet(x))
<1>1. \A i \in 1 .. Len(x) : x[i] \in ToSet(x)
  BY DEF ToSet
<1>2. x \in [1 .. Len(x) -> ToSet(x)] /\ Len(x) \in Nat
  BY <1>1
<1> QED  BY <1>2, SeqDef

\* Sessions are sessions wherever they are held, and the files are there or not.
HeldSessions ==
  /\ IsSession(session) /\ IsSession(path.text.session) /\ IsSession(temp.text.session)
  /\ \A s \in Savers : IsSession(saver[s].text.session)
  /\ up \in {"boot", "serving", "stopping"} /\ resume \in {"stop", "play", "pause"} /\ known \in KnownSets
  /\ (~path.there => path = NoFile) /\ (~temp.there => temp = NoFile)

\* A file of no lines holds a session too.
LEMMA BlankSession == IsSession(Blank.session) /\ NoFile.text = Blank /\ Empty.text = Blank /\ Idle.text = Blank
<1>1. <<>> \in Seq(ToSet(<<>>))
  OBVIOUS
<1> QED  BY <1>1 DEF IsSession, Blank, Contents, NoFile, Empty, Idle

\* Before the first start there are the session of a new server and blank texts.
LEMMA HeldSessionsInit == StateFileInit => HeldSessions
BY BlankSession, StateFileConstants DEF StateFileInit, HeldSessions

\* What a start restores is a session.
LEMMA RestoredSession ==
  ASSUME NEW text, IsSession(text.session), NEW k, NEW resolved \in BOOLEAN, Restore(text, k, resolved)
  PROVE  IsSession(session') /\ resume' \in {"stop", "play", "pause"}
<1> DEFINE old == text.session
           found == Selected(old.songs, k)
           pos == RestoredPosition(old, found, k)
<1>1. old.songs \in Seq(ToSet(old.songs)) /\ old.pos \in Nat \union {NoSong}
      /\ old.state \in {"stop", "play", "pause"}
  BY DEF IsSession
<1>2. found \in Seq(ToSet(found))
  BY <1>1, SelectedTyped, OwnElements
<1>3. pos \in Nat \union {NoSong}
  <2>1. CASE old.pos = NoSong
    BY <2>1 DEF RestoredPosition
  <2>2. CASE old.pos \in Nat
    <3>1. Shifted(old, k) \in Nat
      <4>1. PICK h \in [0 .. Len(old.songs) -> Nat] : Shifted(old, k) = h[Len(old.songs)]
        BY <1>1, <2>2, ShiftedRuns
      <4>2. Len(old.songs) \in 0 .. Len(old.songs)
        BY <1>1
      <4> QED  BY <4>1, <4>2
    <3> QED  BY <3>1 DEF RestoredPosition
  <2> QED  BY <1>1, <2>1, <2>2
<1> HIDE DEF found, pos
<1>4. \E p \in {pos, NoSong} : session' = [opts |-> old.opts, state |-> "stop", songs |-> found, pos |-> p]
  BY DEF Restore, found, pos
<1>5. resume' \in {old.state, "stop"}
  BY DEF Restore
<1> QED  BY <1>1, <1>2, <1>3, <1>4, <1>5 DEF IsSession

\* One saver's progress leaves the sessions of all as they are.
LEMMA SaverHolds ==
  ASSUME FileInv, HeldSessions, NEW s \in Savers, NEW r, IsSession(r.text.session), Becomes(s, r)
  PROVE  \A x \in Savers : IsSession(saver'[x].text.session)
BY DEF HeldSessions, FileInv, SaverShape, Becomes

\* A save, a start, a crash or a client hands on sessions only.
LEMMA HeldSessionsKept ==
  ASSUME FileInv, HeldSessions, [StateFileNext]_filevars
  PROVE  HeldSessions'
<1>1. CASE Boot
  <2>1. IsSession(session') /\ resume' \in {"stop", "play", "pause"}
    <3>1. CASE path.there /\ \E resolved \in BOOLEAN : Restore(path.text, known', resolved)
      BY <3>1, RestoredSession DEF HeldSessions
    <3>2. CASE session' = Fresh /\ resume' = "stop"
      BY <3>2, StateFileConstants
    <3> QED  BY <1>1, <3>1, <3>2 DEF Boot
  <2> QED  BY <1>1, <2>1 DEF Boot, HeldSessions
<1>2. CASE Work
  BY <1>2, StateFileConstants DEF Work, HeldSessions
<1>3. CASE Resume
  <2>1. session' = [session EXCEPT !.state = resume] /\ resume' = "stop"
        /\ UNCHANGED <<off, up, known, path, temp, saver, read, met>>
    BY <1>3 DEF Resume
  <2>2. IsSession(session')
    <3>1. session = [opts |-> session.opts, state |-> session.state, pos |-> session.pos, songs |-> session.songs]
      BY DEF HeldSessions, IsSession
    <3>2. session' = [opts |-> session.opts, state |-> resume, pos |-> session.pos, songs |-> session.songs]
      BY <2>1, <3>1
    <3> QED  BY <3>2 DEF HeldSessions, IsSession
  <2> QED  BY <2>1, <2>2 DEF HeldSessions
<1>4. CASE ToggleOutput \/ Kill
  BY <1>4 DEF ToggleOutput, Kill, HeldSessions
<1>5. CASE Die
  BY <1>5, BlankSession DEF Die, HeldSessions
<1>6. ASSUME NEW s \in Savers, BeginSave(s)  PROVE HeldSessions'
  <2>1. \A x \in Savers : IsSession(saver'[x].text.session)
    <3> DEFINE r == [at |-> "open", text |-> Contents(session, off), where |-> "temp"]
    <3>1. IsSession(r.text.session)
      BY DEF HeldSessions, Contents
    <3>2. Becomes(s, r)
      BY <1>6 DEF BeginSave
    <3> HIDE DEF r
    <3> QED  BY <3>1, <3>2, SaverHolds
  <2> QED  BY <1>6, <2>1 DEF BeginSave, HeldSessions
<1>7. ASSUME NEW s \in Savers, Open(s)  PROVE HeldSessions'
  <2>1. \A x \in Savers : IsSession(saver'[x].text.session)
    <3> DEFINE r == [at |-> "write", text |-> saver[s].text, where |-> "temp"]
    <3>1. IsSession(r.text.session)
      BY DEF HeldSessions
    <3>2. Becomes(s, r)
      BY <1>7 DEF Open
    <3> HIDE DEF r
    <3> QED  BY <3>1, <3>2, SaverHolds
  <2>2. temp' = Empty /\ Empty.there /\ UNCHANGED <<session, up, resume, known, path>>
    BY <1>7 DEF Open, Empty
  <2> QED  BY <2>1, <2>2, BlankSession DEF HeldSessions
<1>8. ASSUME NEW s \in Savers, Write(s)  PROVE HeldSessions'
  <2>1. \A x \in Savers : IsSession(saver'[x].text.session)
    <3> DEFINE r == [saver[s] EXCEPT !.at = "rename"]
    <3>1. r.text = saver[s].text
      BY DEF FileInv, SaverShape
    <3>2. IsSession(r.text.session)
      BY <3>1 DEF HeldSessions
    <3>3. Becomes(s, r)
      BY <1>8 DEF Write
    <3> HIDE DEF r
    <3> QED  BY <3>2, <3>3, SaverHolds
  <2>2. /\ temp' \in {temp, Whole(saver[s].text)} /\ path' \in {path, Whole(saver[s].text)}
        /\ UNCHANGED <<session, up, resume, known>>
    BY <1>8 DEF Write
  <2> QED  BY <2>1, <2>2 DEF HeldSessions, Whole
<1>9. ASSUME NEW s \in Savers, RenameTemp(s)  PROVE HeldSessions'
  <2>1. path' = temp /\ temp' = NoFile /\ temp.there /\ UNCHANGED <<session, up, resume, known>>
    BY <1>9 DEF RenameTemp
  <2>2. ASSUME NEW x \in Savers  PROVE IsSession(saver'[x].text.session)
    <3>1. \E at, where : saver'[x] = [at |-> at, text |-> saver[x].text, where |-> where]
      BY <1>9 DEF RenameTemp, Progress, FileInv, SaverShape
    <3> QED  BY <3>1 DEF HeldSessions
  <2> QED  BY <2>1, <2>2, BlankSession DEF HeldSessions
<1>10. ASSUME NEW s \in Savers, EndSave(s)  PROVE HeldSessions'
  <2>1. /\ up' \in {"boot", "stopping"} /\ UNCHANGED <<session, resume, known, path, temp>>
        /\ \A x \in Savers : saver'[x].text \in {saver[x].text, Blank}
    <3>1. /\ \A x \in Savers : saver'[x] \in {saver[x], Idle, [Idle EXCEPT !.at = "done"]}
          /\ up' \in {"boot", "stopping"} /\ UNCHANGED <<session, resume, known, path, temp>>
      BY <1>10 DEF EndSave, FileInv, SaverShape
    <3>2. [Idle EXCEPT !.at = "done"].text = Blank
      BY DEF Idle
    <3> QED  BY <3>1, <3>2, BlankSession
  <2> QED  BY <2>1, BlankSession DEF HeldSessions
<1>11. CASE UNCHANGED filevars
  BY <1>11 DEF filevars, HeldSessions
<1> QED  BY <1>1, <1>2, <1>3, <1>4, <1>5, <1>6, <1>7, <1>8, <1>9, <1>10, <1>11 DEF StateFileNext

\* What a start that restores a session makes of the file.
LEMMA StartRestores ==
  ASSUME FileInv, HeldSessions, [StateFileNext]_filevars, up = "boot", up' = "serving", session' # Fresh
  PROVE  LET old == path.text.session
             Found(i) == old.songs[i] \in known'
         IN  /\ session'.opts = old.opts /\ off' = ConfiguredOff \union path.text.disabled
             /\ session'.songs = Selected(old.songs, known')
             /\ session'.pos # NoSong =>
                  \E i \in old.pos + 1..Len(old.songs) :
                     LET passed == {x \in old.pos + 1..i - 1 : Found(x)}
                     IN  /\ Found(i) /\ session'.pos >= 0
                         /\ session'.songs[session'.pos + 1] = old.songs[i]
                         /\ passed = {} \/ Cardinality(passed) <
                                            Cardinality({x \in 1..old.pos : ~Found(x)})
<1> DEFINE old == path.text.session
           found == Selected(old.songs, known')
<1>1. Boot
  BY DEF StateFileNext, filevars, Work, Resume, ToggleOutput, Kill, Die, BeginSave, Open, Write, RenameTemp,
         EndSave, Alive
<1>2. PICK resolved \in BOOLEAN : Restore(path.text, known', resolved)
  BY <1>1 DEF Boot
<1>3. /\ session'.opts = old.opts /\ off' = ConfiguredOff \union path.text.disabled /\ session'.songs = found
      /\ session'.pos \in {RestoredPosition(old, found, known'), NoSong}
  BY <1>2 DEF Restore
<1>4. ASSUME session'.pos # NoSong
      PROVE  \E i \in old.pos + 1 .. Len(old.songs) :
               LET passed == {x \in old.pos + 1 .. i - 1 : old.songs[x] \in known'}
               IN  /\ old.songs[i] \in known' /\ session'.pos >= 0
                   /\ session'.songs[session'.pos + 1] = old.songs[i]
                   /\ passed = {} \/ Cardinality(passed) <
                                      Cardinality({x \in 1 .. old.pos : old.songs[x] \notin known'})
  <2>1. session'.pos = Shifted(old, known') /\ old.pos # NoSong /\ Shifted(old, known') < Len(found)
    <3> HIDE DEF old, found
    <3> QED  BY <1>3, <1>4 DEF RestoredPosition
  <2>2. old.pos \in Nat /\ old.songs \in Seq(ToSet(old.songs))
    BY <2>1 DEF HeldSessions, IsSession
  <2> DEFINE V == ToSet(old.songs)
             k == known'
  <2> HIDE DEF old, V, k
  <2>3. LeadsOn(old, k, Shifted(old, k))
    <3>1. old.pos \in Nat /\ old.songs \in Seq(V) /\ Shifted(old, k) < Len(Selected(old.songs, k))
      BY <2>1, <2>2 DEF V, k
    <3> QED  BY <3>1, ShiftedFinds
  <2>4. LeadsOn(old, k, session'.pos) /\ session'.songs = Selected(old.songs, k)
    BY <1>3, <2>1, <2>3 DEF k
  <2> QED  BY <2>4, Zenon DEF LeadsOn, k
<1> QED  BY <1>3, <1>4

\* After a start with a readable file the options and the songs still known are those saved, the outputs
\* disabled are those that were and those the configuration disables, and the current song is the saved one
\* or a later one, past fewer known songs than are missing before it, for queues of any length
\* (restore_state, statefile.rs).
THEOREM RestoredAlikeAlways == StateFileSpec => []StateFileTypeOK /\ RestoredAlike
<1> DEFINE Inv == FileInv /\ HeldSessions
<1>1. StateFileInit => Inv
  BY FileInvInit, HeldSessionsInit
<1>2. Inv /\ [StateFileNext]_filevars => Inv'
  BY StepKept, HeldSessionsKept
<1>3. Inv => StateFileTypeOK
  BY DEF FileInv, FilesRead, HeldTexts, HeldSessions, StateFileTypeOK
<1>4. Inv /\ [StateFileNext]_filevars =>
        [(up = "boot" /\ up' = "serving" /\ session' # Fresh) =>
           LET old == path.text.session
               Found(i) == old.songs[i] \in known'
           IN  /\ session'.opts = old.opts /\ off' = ConfiguredOff \union path.text.disabled
               /\ session'.songs = Selected(old.songs, known')
               /\ session'.pos # NoSong =>
                    \E i \in old.pos + 1..Len(old.songs) :
                       LET passed == {x \in old.pos + 1..i - 1 : Found(x)}
                       IN  /\ Found(i) /\ session'.pos >= 0
                           /\ session'.songs[session'.pos + 1] = old.songs[i]
                           /\ passed = {} \/ Cardinality(passed) <
                                              Cardinality({x \in 1..old.pos : ~Found(x)})]_filevars
  BY StartRestores
<1> QED  BY <1>1, <1>2, <1>3, <1>4, PTL DEF StateFileSpec, RestoredAlike

-----------------------------------------------------------------------------
(* Mounts.                                                                 *)

Handlers ==
  [at : {"none", "mount", "register", "unmount", "remove"}, point : Points \union {"none"},
   share : Shares \union {NoShare}]

MountsTypes ==
  /\ actual \in BOOLEAN
  /\ registry \in [Points -> [share : Shares \union {NoShare}, mounted : BOOLEAN]]
  /\ mounted \in [Points -> Seq(Shares)]
  /\ handler \in [Mounters -> Handlers]
  /\ \A h \in Mounters :
       /\ handler[h].at # "none" => handler[h].point \in Points
       /\ handler[h].at = "none" => handler[h].point = "none"
       /\ handler[h].at \in {"mount", "register"} => handler[h].share \in Shares
  /\ tries \in 0 .. MaxMounts /\ orderly \in [Points -> BOOLEAN]

\* What is registered was mounted.
Booked == \A p \in Points : Registered(p) <=> registry[p].mounted

OnPoint(h, p) == handler[h].point = p
Shown(p) == IF Registered(p) THEN <<registry[p].share>> ELSE <<>>

\* Where a command stands tells what the registry and the system hold.
Stage(h, p) ==
  CASE handler[h].at = "mount"    -> ~Registered(p) /\ mounted[p] = <<>>
    [] handler[h].at = "register" -> ~Registered(p) /\ mounted[p] = <<handler[h].share>>
    [] handler[h].at = "unmount"  -> Registered(p) /\ mounted[p] = <<registry[p].share>>
    [] OTHER                      -> Registered(p) /\ mounted[p] = <<>>

InOrder(p) ==
  /\ \A g, h \in Mounters : OnPoint(g, p) /\ OnPoint(h, p) => g = h
  /\ (\A h \in Mounters : ~OnPoint(h, p)) => mounted[p] = Shown(p)
  /\ \A h \in Mounters : OnPoint(h, p) => Stage(h, p)

Ordered == actual => Booked /\ \A p \in Points : orderly[p] => InOrder(p)

MountsInv == MountsTypes /\ Ordered

-----------------------------------------------------------------------------
\* Nothing is mounted at a start.
LEMMA MountsInvInit == MountsInit => MountsInv
<1> SUFFICES ASSUME MountsInit PROVE MountsInv  OBVIOUS
<1> USE DEF MountsInit
<1>1. MountsTypes  BY MountsConstants DEF MountsTypes, Handlers, Unasking, Vacant
<1>2. \A p \in Points : ~Registered(p) /\ ~registry[p].mounted /\ mounted[p] = <<>>
  BY DEF Registered, Vacant
<1>3. \A p \in Points, h \in Mounters : ~OnPoint(h, p)  BY MountsConstants DEF OnPoint, Unasking
<1>4. Ordered  BY <1>2, <1>3 DEF Ordered, Booked, InOrder, Shown
<1> QED  BY <1>1, <1>4 DEF MountsInv

\* A step of one command disturbs no other point than its own.
LEMMA OtherPoints ==
  ASSUME MountsTypes, NEW p \in Points, NEW h \in Mounters, NEW r,
         handler' = [handler EXCEPT ![h] = r],
         ~OnPoint(h, p), r.point # p,
         registry'[p] = registry[p], mounted'[p] = mounted[p], InOrder(p)
  PROVE  InOrder(p)'
<1>1. \A g \in Mounters : handler'[g] = IF g = h THEN r ELSE handler[g]  BY DEF MountsTypes
<1>2. \A g \in Mounters : OnPoint(g, p)' <=> OnPoint(g, p)  BY <1>1 DEF OnPoint
<1>3. \A g \in Mounters : OnPoint(g, p) => handler'[g] = handler[g]  BY <1>1
<1>4. Registered(p)' = Registered(p) /\ Shown(p)' = Shown(p)  BY DEF Registered, Shown
<1>5. \A g \in Mounters : OnPoint(g, p) => Stage(g, p)' = Stage(g, p)
  BY <1>3, <1>4 DEF Stage
<1> QED  BY <1>2, <1>4, <1>5 DEF InOrder

\* What a command on p has to show for its point after a step, when it is alone there.
LEMMA OwnPoint ==
  ASSUME MountsTypes, NEW p \in Points, NEW h \in Mounters, NEW r,
         handler' = [handler EXCEPT ![h] = r],
         \A g \in Mounters \ {h} : ~OnPoint(g, p),
         r.point = p \/ mounted'[p] = Shown(p)',
         r.point = p => Stage(h, p)'
  PROVE  InOrder(p)'
<1>1. \A g \in Mounters : handler'[g] = IF g = h THEN r ELSE handler[g]  BY DEF MountsTypes
<1>2. \A g \in Mounters : OnPoint(g, p)' => g = h /\ r.point = p  BY <1>1 DEF OnPoint
<1>3. OnPoint(h, p)' <=> r.point = p  BY <1>1 DEF OnPoint
<1> QED  BY <1>2, <1>3 DEF InOrder

-----------------------------------------------------------------------------
\* mount finds its point free, unmount finds it taken.
LEMMA MountBegins ==
  ASSUME MountsInv, NEW h \in Mounters, NEW p \in Points,
         NEW at \in {"mount", "register", "unmount", "remove"},
         NEW share \in Shares \union {NoShare},
         at \in {"mount", "register"} => share \in Shares,
         Begin(h, at, p, share), UNCHANGED <<actual, registry, mounted>>,
         actual => \/ at = "mount" /\ ~registry[p].mounted
                   \/ at = "unmount" /\ Registered(p)
  PROVE  MountsInv'
<1> DEFINE r == [at |-> at, point |-> p, share |-> share]
<1>1. r \in Handlers /\ r.point = p /\ r.at = at /\ r.share = share  BY DEF Handlers
<1>2. handler' = [handler EXCEPT ![h] = r] /\ handler[h] = Unasking  BY DEF Begin
<1> HIDE DEF r
<1>3. \A g \in Mounters : handler'[g] = IF g = h THEN r ELSE handler[g]
  BY <1>2 DEF MountsInv, MountsTypes
<1>4. MountsTypes'
  <2>1. handler' \in [Mounters -> Handlers]  BY <1>1, <1>2 DEF MountsInv, MountsTypes
  <2>2. tries' \in 0 .. MaxMounts /\ orderly' \in [Points -> BOOLEAN]
    <3>1. tries' \in 0 .. MaxMounts  BY MountsConstants DEF MountsInv, MountsTypes, Begin
    <3>2. orderly' \in [Points -> BOOLEAN]  BY Zenon DEF MountsInv, MountsTypes, Begin
    <3> QED  BY <3>1, <3>2
  <2> QED  BY <1>1, <1>3, <2>1, <2>2 DEF MountsInv, MountsTypes
<1>5. Ordered'
  <2>1. SUFFICES ASSUME actual PROVE Booked' /\ \A q \in Points : orderly'[q] => InOrder(q)'
    BY DEF Ordered
  <2>2. Booked /\ \A q \in Points : orderly[q] => InOrder(q)  BY <2>1 DEF MountsInv, Ordered
  <2>3. Booked'  BY <2>2 DEF Booked, Registered
  <2>4. ASSUME NEW q \in Points, orderly'[q], q # p PROVE InOrder(q)'
    <3>1. InOrder(q)  BY <2>2, <2>4 DEF Begin, MountsInv, MountsTypes
    <3>2. ~OnPoint(h, q)  BY <1>2, MountsConstants DEF OnPoint, Unasking
    <3> QED  BY <1>1, <1>2, <2>4, <3>1, <3>2, OtherPoints DEF MountsInv
  <2>5. ASSUME orderly'[p] PROVE InOrder(p)'
    <3>1. orderly[p] /\ \A g \in Mounters : handler[g].point # p
      BY <2>5 DEF Begin, MountsInv, MountsTypes
    <3>2. mounted[p] = Shown(p)  BY <2>2, <3>1 DEF InOrder, OnPoint
    <3>3. Stage(h, p)'
      <4>1. handler'[h].at = at  BY <1>1, <1>3
      <4>2. CASE at = "mount" /\ ~registry[p].mounted
        <5>1. ~Registered(p)  BY <2>2, <4>2 DEF Booked
        <5> QED  BY <3>2, <4>1, <4>2, <5>1 DEF Stage, Shown, Registered
      <4>3. CASE at = "unmount" /\ Registered(p)
        BY <3>2, <4>1, <4>3 DEF Stage, Shown, Registered
      <4> QED  BY <2>1, <4>2, <4>3
    <3> QED  BY <1>1, <1>2, <3>1, <3>3, OwnPoint DEF MountsInv, OnPoint
  <2> QED  BY <2>3, <2>4, <2>5
<1> QED  BY <1>4, <1>5 DEF MountsInv

\* A later step of a command: it stays on its point or leaves it, and if the point is
\* in order it is so afterwards.
LEMMA LaterStep ==
  ASSUME MountsInv, NEW h \in Mounters, NEW p \in Points, OnPoint(h, p), NEW r \in Handlers,
         r.at = "none" => r.point = "none",
         r.at # "none" => r.point = p,
         r.at \in {"mount", "register"} => r.share \in Shares,
         handler' = [handler EXCEPT ![h] = r],
         UNCHANGED <<actual, tries>>,
         registry' \in [Points -> [share : Shares \union {NoShare}, mounted : BOOLEAN]],
         mounted' \in [Points -> Seq(Shares)], orderly' \in [Points -> BOOLEAN],
         \A q \in Points : orderly'[q] => orderly[q],
         \A q \in Points \ {p} : registry'[q] = registry[q] /\ mounted'[q] = mounted[q],
         actual /\ Booked => (Registered(p)' <=> registry'[p].mounted),
         actual /\ Booked /\ orderly'[p] /\ Stage(h, p) =>
           IF r.at = "none" THEN mounted'[p] = Shown(p)' ELSE Stage(h, p)'
  PROVE  MountsInv'
<1>1. \A g \in Mounters : handler'[g] = IF g = h THEN r ELSE handler[g]
  BY DEF MountsInv, MountsTypes
<1>2. MountsTypes'
  <2>1. handler' \in [Mounters -> Handlers]  BY DEF MountsInv, MountsTypes
  <2> QED  BY <1>1, <2>1 DEF MountsInv, MountsTypes
<1>3. Ordered'
  <2>1. SUFFICES ASSUME actual PROVE Booked' /\ \A q \in Points : orderly'[q] => InOrder(q)'
    BY DEF Ordered
  <2>2. Booked /\ \A q \in Points : orderly[q] => InOrder(q)  BY <2>1 DEF MountsInv, Ordered
  <2>3. Booked'  BY <2>1, <2>2 DEF Booked, Registered
  <2>4. ASSUME NEW q \in Points, orderly'[q], q # p PROVE InOrder(q)'
    <3>1. InOrder(q)  BY <2>2, <2>4
    <3>2. ~OnPoint(h, q) /\ r.point # q  BY <2>4, MountsConstants DEF OnPoint
    <3> QED  BY <2>4, <3>1, <3>2, OtherPoints DEF MountsInv
  <2>5. ASSUME orderly'[p] PROVE InOrder(p)'
    <3>1. InOrder(p)  BY <2>2, <2>5
    <3>2. Stage(h, p) /\ \A g \in Mounters \ {h} : ~OnPoint(g, p)  BY <3>1 DEF InOrder
    <3>3. r.point = p <=> r.at # "none"  BY MountsConstants
    <3>4. IF r.at = "none" THEN mounted'[p] = Shown(p)' ELSE Stage(h, p)'
      BY <2>1, <2>2, <2>5, <3>2
    <3> QED  BY <3>2, <3>3, <3>4, OwnPoint DEF MountsInv
  <2> QED  BY <2>3, <2>4, <2>5
<1> QED  BY <1>2, <1>3 DEF MountsInv

\* A command under way is at one of its steps, on one of the points.
LEMMA UnderWay ==
  ASSUME MountsInv, NEW h \in Mounters, handler[h].at # "none"
  PROVE  /\ handler[h].point \in Points /\ OnPoint(h, handler[h].point)
         /\ handler[h] = [at |-> handler[h].at, point |-> handler[h].point,
                          share |-> handler[h].share]
         /\ handler[h] \in Handlers /\ Unasking \in Handlers
  BY DEF MountsInv, MountsTypes, Handlers, OnPoint, Unasking

\* The next step of a command is GoOn's record.
LEMMA GoesOn ==
  ASSUME MountsInv, NEW h \in Mounters, handler[h].at # "none",
         NEW at \in {"register", "remove"}, GoOn(h, at)
  PROVE  \E r \in Handlers :
           /\ r = [at |-> at, point |-> handler[h].point, share |-> handler[h].share]
           /\ handler' = [handler EXCEPT ![h] = r]
<1> DEFINE r == [handler[h] EXCEPT !.at = at]
<1>0. handler[h] = [at |-> handler[h].at, point |-> handler[h].point, share |-> handler[h].share]
  BY UnderWay
<1>1. r = [at |-> at, point |-> handler[h].point, share |-> handler[h].share]  BY <1>0
<1>2. r \in Handlers  BY <1>1, UnderWay DEF Handlers
<1>3. handler' = [handler EXCEPT ![h] = r]  BY DEF GoOn
<1> QED  BY <1>1, <1>2, <1>3

\* The system mounts on a point where nothing is, or does not.
LEMMA SystemMountKeeps ==
  ASSUME MountsInv, NEW h \in Mounters, SystemMount(h)
  PROVE  MountsInv'
<1>1. PICK p \in Points : p = handler[h].point /\ OnPoint(h, p) /\ handler[h].at = "mount" /\ handler[h].share \in Shares
  BY UnderWay DEF SystemMount, MountsInv, MountsTypes
<1>2. UNCHANGED <<actual, registry, tries, orderly>>  BY DEF SystemMount
<1>3. /\ mounted \in [Points -> Seq(Shares)] /\ orderly \in [Points -> BOOLEAN]
      /\ registry \in [Points -> [share : Shares \union {NoShare}, mounted : BOOLEAN]]
  BY DEF MountsInv, MountsTypes
<1>4. Stage(h, p) => ~Registered(p) /\ mounted[p] = <<>>  BY <1>1 DEF Stage
<1>5. Registered(p)' = Registered(p) /\ (Booked => (Registered(p)' <=> registry'[p].mounted))
  BY <1>1, <1>2 DEF Registered, Booked
<1>6. CASE mounted' = [mounted EXCEPT ![p] = Append(@, handler[h].share)] /\ GoOn(h, "register")
  <2>1. PICK r \in Handlers :
          /\ r = [at |-> "register", point |-> handler[h].point, share |-> handler[h].share]
          /\ handler' = [handler EXCEPT ![h] = r]
    BY <1>1, <1>6, GoesOn
  <2>2. r.at = "register" /\ r.point = p /\ r.share = handler[h].share  BY <1>1, <2>1
  <2>3. /\ mounted' \in [Points -> Seq(Shares)]
        /\ \A q \in Points \ {p} : mounted'[q] = mounted[q]
        /\ mounted'[p] = Append(mounted[p], handler[h].share)
    BY <1>1, <1>3, <1>6
  <2>4. handler'[h] = r  BY <2>1 DEF MountsInv, MountsTypes
  <2>5. Stage(h, p) => Stage(h, p)'
    <3>1. SUFFICES ASSUME Stage(h, p) PROVE Stage(h, p)'  OBVIOUS
    <3>2. mounted[p] = <<>>  BY <1>4, <3>1
    <3>3. Append(<<>>, r.share) = <<r.share>>  OBVIOUS
    <3>4. mounted'[p] = <<r.share>>  BY <2>2, <2>3, <3>2, <3>3
    <3> QED  BY <1>4, <1>5, <2>2, <2>4, <3>1, <3>4 DEF Stage
  <2>6. /\ handler' = [handler EXCEPT ![h] = r]
        /\ r.at = "none" => r.point = "none"
        /\ r.at # "none" => r.point = p
        /\ r.at \in {"mount", "register"} => r.share \in Shares
    BY <1>1, <2>1, <2>2
  <2>7. Stage(h, p) => IF r.at = "none" THEN mounted'[p] = Shown(p)' ELSE Stage(h, p)'
    BY <2>2, <2>5
  <2>8. /\ UNCHANGED <<actual, tries>>
        /\ registry' \in [Points -> [share : Shares \union {NoShare}, mounted : BOOLEAN]]
        /\ mounted' \in [Points -> Seq(Shares)] /\ orderly' \in [Points -> BOOLEAN]
        /\ \A q \in Points : orderly'[q] => orderly[q]
        /\ \A q \in Points \ {p} : registry'[q] = registry[q] /\ mounted'[q] = mounted[q]
    BY <1>2, <1>3, <2>3
  <2>9. OnPoint(h, p) /\ (actual /\ Booked => (Registered(p)' <=> registry'[p].mounted))
    BY <1>1, <1>5
  <2>10. actual /\ Booked /\ orderly'[p] /\ Stage(h, p) =>
           IF r.at = "none" THEN mounted'[p] = Shown(p)' ELSE Stage(h, p)'
    BY <2>7
  <2> QED  BY <2>6, <2>8, <2>9, <2>10, LaterStep
<1>7. CASE Over(h) /\ UNCHANGED mounted
  <2>1. Unasking \in Handlers /\ Unasking.at = "none" /\ Unasking.point = "none"
    BY <1>1, UnderWay DEF Unasking
  <2>2. Stage(h, p) => mounted'[p] = Shown(p)'
    BY <1>2, <1>4, <1>5, <1>7 DEF Shown
  <2> QED  BY <1>1, <1>2, <1>3, <1>5, <1>7, <2>1, <2>2, LaterStep DEF Over
<1> QED  BY <1>1, <1>6, <1>7 DEF SystemMount

\* What was mounted is registered.
LEMMA RegisterKeeps ==
  ASSUME MountsInv, NEW h \in Mounters, Register(h)
  PROVE  MountsInv'
<1>1. PICK p \in Points : p = handler[h].point /\ OnPoint(h, p) /\ handler[h].at = "register" /\ handler[h].share \in Shares
  BY UnderWay DEF Register, MountsInv, MountsTypes
<1>2. UNCHANGED <<actual, mounted, tries, orderly>>  BY DEF Register
<1>3. /\ mounted \in [Points -> Seq(Shares)] /\ orderly \in [Points -> BOOLEAN]
      /\ registry \in [Points -> [share : Shares \union {NoShare}, mounted : BOOLEAN]]
      /\ actual \in BOOLEAN
  BY DEF MountsInv, MountsTypes
<1>4. Unasking \in Handlers /\ Unasking.at = "none" /\ Unasking.point = "none"
  BY <1>1, UnderWay DEF Unasking
<1>5. Stage(h, p) => ~Registered(p) /\ mounted[p] = <<handler[h].share>>  BY <1>1 DEF Stage
<1>6. CASE Registered(p) /\ registry' = registry
  <2>1. Booked => (Registered(p)' <=> registry'[p].mounted)  BY <1>1, <1>6 DEF Registered, Booked
  <2>2. handler' = [handler EXCEPT ![h] = Unasking]  BY DEF Register, Over
  <2> QED  BY <1>1, <1>2, <1>3, <1>4, <1>5, <1>6, <2>1, <2>2, LaterStep
<1>7. CASE registry' = [registry EXCEPT ![p] = [share |-> handler[h].share, mounted |-> actual]]
  <2>1. /\ registry' \in [Points -> [share : Shares \union {NoShare}, mounted : BOOLEAN]]
        /\ registry'[p] = [share |-> handler[h].share, mounted |-> actual]
        /\ \A q \in Points \ {p} : registry'[q] = registry[q]
    BY <1>1, <1>3, <1>7
  <2>2. Registered(p)' /\ registry'[p].mounted = actual /\ registry'[p].share = handler[h].share
    BY <1>1, <2>1, MountsConstants DEF Registered
  <2>3. Stage(h, p) => mounted'[p] = Shown(p)'
    BY <1>2, <1>5, <2>2 DEF Shown
  <2>4. handler' = [handler EXCEPT ![h] = Unasking]  BY DEF Register, Over
  <2> QED  BY <1>1, <1>2, <1>3, <1>4, <2>1, <2>2, <2>3, <2>4, LaterStep
<1> QED  BY <1>1, <1>6, <1>7 DEF Register

\* The system takes the share off; where it fails the point is out of order.
LEMMA SystemUnmountKeeps ==
  ASSUME MountsInv, NEW h \in Mounters, SystemUnmount(h)
  PROVE  MountsInv'
<1>1. PICK p \in Points : p = handler[h].point /\ OnPoint(h, p) /\ handler[h].at = "unmount"
  BY UnderWay DEF SystemUnmount
<1>2. UNCHANGED <<actual, registry, tries>>  BY DEF SystemUnmount
<1>3. /\ mounted \in [Points -> Seq(Shares)] /\ orderly \in [Points -> BOOLEAN]
      /\ registry \in [Points -> [share : Shares \union {NoShare}, mounted : BOOLEAN]]
  BY DEF MountsInv, MountsTypes
<1>4. PICK r \in Handlers :
          /\ r = [at |-> "remove", point |-> handler[h].point, share |-> handler[h].share]
          /\ handler' = [handler EXCEPT ![h] = r]
  BY <1>1, GoesOn DEF SystemUnmount
<1>5. r.at = "remove" /\ r.point = p  BY <1>1, <1>4
<1>6. Registered(p)' = Registered(p) /\ (Booked => (Registered(p)' <=> registry'[p].mounted))
  BY <1>1, <1>2 DEF Registered, Booked
<1>7. CASE mounted' = [mounted EXCEPT ![p] = SubSeq(@, 1, Len(@) - 1)] /\ mounted[p] # <<>>
           /\ UNCHANGED orderly
  <2>1. /\ mounted' \in [Points -> Seq(Shares)]
        /\ \A q \in Points \ {p} : mounted'[q] = mounted[q]
        /\ mounted'[p] = SubSeq(mounted[p], 1, Len(mounted[p]) - 1)
    <3>1. SubSeq(mounted[p], 1, Len(mounted[p]) - 1) \in Seq(Shares)  BY <1>1, <1>3, <1>7
    <3> QED  BY <1>1, <1>3, <1>7, <3>1
  <2>2. Stage(h, p) => Stage(h, p)'
    <3>1. SUFFICES ASSUME Stage(h, p) PROVE Stage(h, p)'  OBVIOUS
    <3>2. Registered(p) /\ mounted[p] = <<registry[p].share>>  BY <1>1, <3>1 DEF Stage
    <3>3. mounted'[p] = <<>>  BY <2>1, <3>2
    <3>4. handler'[h].at = "remove"  BY <1>4, <1>5 DEF MountsInv, MountsTypes
    <3> QED  BY <1>6, <3>2, <3>3, <3>4 DEF Stage
  <2> QED  BY <1>1, <1>2, <1>3, <1>4, <1>5, <1>6, <1>7, <2>1, <2>2, LaterStep
<1>8. CASE orderly' = [orderly EXCEPT ![p] = FALSE] /\ UNCHANGED mounted
  <2>1. orderly' \in [Points -> BOOLEAN] /\ ~orderly'[p]  BY <1>1, <1>3, <1>8, Zenon
  <2>2. \A q \in Points : orderly'[q] => orderly[q]  BY <1>1, <1>3, <1>8, Zenon
  <2> QED  BY <1>1, <1>2, <1>3, <1>4, <1>5, <1>6, <1>8, <2>1, <2>2, LaterStep
<1> QED  BY <1>1, <1>7, <1>8 DEF SystemUnmount

\* The row goes after the share.
LEMMA UnregisterKeeps ==
  ASSUME MountsInv, NEW h \in Mounters, Unregister(h)
  PROVE  MountsInv'
<1>1. PICK p \in Points : p = handler[h].point /\ OnPoint(h, p) /\ handler[h].at = "remove"
  BY UnderWay DEF Unregister
<1>2. UNCHANGED <<actual, mounted, tries, orderly>>  BY DEF Unregister
<1>3. /\ mounted \in [Points -> Seq(Shares)] /\ orderly \in [Points -> BOOLEAN]
      /\ registry \in [Points -> [share : Shares \union {NoShare}, mounted : BOOLEAN]]
  BY DEF MountsInv, MountsTypes
<1>4. Unasking \in Handlers /\ Unasking.at = "none" /\ Unasking.point = "none"
  BY <1>1, UnderWay DEF Unasking
<1>5. Stage(h, p) => mounted[p] = <<>>  BY <1>1 DEF Stage
<1>6. /\ registry' \in [Points -> [share : Shares \union {NoShare}, mounted : BOOLEAN]]
      /\ registry'[p] = Vacant
      /\ \A q \in Points \ {p} : registry'[q] = registry[q]
  BY <1>1, <1>3 DEF Unregister, Vacant
<1>7. ~Registered(p)' /\ ~registry'[p].mounted  BY <1>6 DEF Registered, Vacant
<1>8. Stage(h, p) => mounted'[p] = Shown(p)'  BY <1>2, <1>5, <1>7 DEF Shown
<1>9. handler' = [handler EXCEPT ![h] = Unasking]  BY DEF Unregister, Over
<1> QED  BY <1>1, <1>2, <1>3, <1>4, <1>6, <1>7, <1>8, <1>9, LaterStep

-----------------------------------------------------------------------------
\* Every step of every connection keeps the invariant.
LEMMA MountsStep == MountsInv /\ [MountsNext]_mountvars => MountsInv'
<1> SUFFICES ASSUME MountsInv, [MountsNext]_mountvars PROVE MountsInv'  OBVIOUS
<1>1. ASSUME NEW h \in Mounters, NEW p \in Points, NEW share \in Shares, MountCheck(h, p, share)
      PROVE  MountsInv'
  BY <1>1, MountBegins DEF MountCheck
<1>2. ASSUME NEW h \in Mounters, NEW p \in Points, UnmountCheck(h, p) PROVE MountsInv'
  BY <1>2, MountBegins DEF UnmountCheck
<1>3. CASE UNCHANGED mountvars
  BY <1>3 DEF mountvars, MountsInv, MountsTypes, Ordered, Booked, InOrder, Registered, Shown,
              Stage, OnPoint
<1> QED
  BY <1>1, <1>2, <1>3, SystemMountKeeps, RegisterKeeps, SystemUnmountKeeps, UnregisterKeeps
  DEF MountsNext

\* However many clients mount and unmount, a point on which no two commands met and no
\* unmount failed is listed as what the system has mounted there, whenever no command
\* on it is under way (commands/storage.rs, storage.rs).
THEOREM MountsListedAlways == MountsSpec => [](MountsTypeOK /\ MountsListed)
<1>1. MountsInv => MountsListed
  BY DEF MountsInv, Ordered, InOrder, OnPoint, Shown, MountsListed
<1>2. MountsInv => MountsTypeOK
  BY DEF MountsInv, MountsTypes, Handlers, MountsTypeOK
<1> QED  BY <1>1, <1>2, MountsInvInit, MountsStep, PTL DEF MountsSpec

-----------------------------------------------------------------------------
(* Artwork.                                                                *)

Some == Pictures \union {NoPicture}
Fetches ==
  [at : {"idle", "asking", "missed", "holding", "reading", "whole", "refused"}, of : Kinds,
   held : Some, got : Seq(Nat), sure : BOOLEAN, times : Nat]

\* A request that has missed the cache is not for a cover file.
Sound(f) ==
  /\ f \in Fetches
  /\ f.at \in {"missed", "holding", "reading"} => f.of # "cover"
  /\ f.at = "holding" => f.held \in Pictures

ArtTypes ==
  /\ image \in [Places -> Some] /\ cache \in [Kinds \ {"cover"} -> Some]
  /\ \A c \in ArtClients : Sound(fetch[c])
  /\ fetch = [c \in ArtClients |-> fetch[c]]

\* What a request for an image of kind k is answered with.
Current(k) ==
  IF k = "cover" THEN Cover ELSE IF cache[k] # NoPicture THEN cache[k] ELSE image[k]

Active(f)  == f.sure /\ f.at \in {"asking", "missed", "holding", "reading"}
Part(s, p) == Len(s) <= Len(p) /\ s = SubSeq(p, 1, Len(s))
Follows(f) == f.got = <<>> \/ (Current(f.of) \in Pictures /\ Part(f.got, Current(f.of)))

\* Whoever is about to write to the cache brings what is there already.
Agreed(k) ==
  k # "cover" => /\ Filling(k) => cache[k] \in {NoPicture, image[k]}
                 /\ \A c \in ArtClients :
                      fetch[c].of = k /\ fetch[c].at = "holding" => fetch[c].held = image[k]

\* What a fetch has got is a part of what it will be given.
Steady ==
  \A c \in ArtClients :
    /\ Active(fetch[c]) => Follows(fetch[c]) /\ Agreed(fetch[c].of)
    /\ fetch[c].sure /\ fetch[c].at = "whole" => fetch[c].got \in Pictures

ArtInv == ArtTypes /\ Steady

-----------------------------------------------------------------------------
\* The places of images include the two that are cached.
LEMMA CachedPlaces == Kinds \ {"cover"} \subseteq Places /\ {"tag", "server"} \subseteq Kinds
BY DEF Kinds, Places

\* A cover file that is served is one of the images.
LEMMA CoverType ==
  ASSUME image \in [Places -> Some]
  PROVE  Cover \in Some
<1>1. \A i \in DOMAIN CoverNames : CoverNames[i] \in Places  BY DEF Places, ToSet
<1>2. \A i \in DOMAIN CoverNames : image[CoverNames[i]] \in Some  BY <1>1
<1> DEFINE there == {i \in DOMAIN CoverNames : FirstCover(i)}
<1>3. CASE there = {}  BY <1>3 DEF Cover, Some
<1>4. CASE there # {}
  <2>1. (CHOOSE i \in there : TRUE) \in there  BY <1>4
  <2>2. (CHOOSE i \in there : TRUE) \in DOMAIN CoverNames  BY <2>1
  <2> QED  BY <1>2, <1>4, <2>2 DEF Cover
<1> QED  BY <1>3, <1>4

\* What a request is answered with is an image or nothing.
LEMMA CurrentType ==
  ASSUME ArtTypes, NEW k \in Kinds
  PROVE  Current(k) \in Some
BY CoverType, CachedPlaces DEF ArtTypes, Current

\* A chunk continues the part that was got.
LEMMA ChunkContinues ==
  ASSUME NEW p \in Pictures, NEW s \in Seq(Nat), Part(s, p)
  PROVE  LET t == s \o ChunkAt(p, Len(s))
         IN  Part(t, p) /\ (Len(t) >= Len(p) => t = p)
<1> DEFINE t == s \o ChunkAt(p, Len(s))
<1>1. p \in Seq(Nat) /\ ChunkSize \in Nat \ {0}  BY ArtworkConstants
<1> DEFINE n == IF Len(s) + ChunkSize <= Len(p) THEN Len(s) + ChunkSize ELSE Len(p)
<1>2. Len(p) \in Nat /\ Len(s) \in Nat /\ Len(s) <= Len(p)  BY <1>1 DEF Part
<1>3. n \in Len(s) .. Len(p) /\ n \in Nat  BY <1>1, <1>2
<1>4. ChunkAt(p, Len(s)) = SubSeq(p, Len(s) + 1, n)  BY DEF ChunkAt
<1> HIDE DEF n
<1>5. t = SubSeq(p, 1, Len(s)) \o SubSeq(p, Len(s) + 1, n)
  <2>1. s = SubSeq(p, 1, Len(s))  BY DEF Part
  <2> QED  BY <1>4, <2>1
<1> HIDE DEF t
<1>6. t = SubSeq(p, 1, n)
  <2>1. Len(s) \in 1 - 1 .. Len(p) /\ 1 \in 1 .. Len(p) + 1  BY <1>2
  <2>2. SubSeq(p, 1, Len(s)) \o SubSeq(p, Len(s) + 1, n) = SubSeq(p, 1, n)
    BY <1>1, <1>3, <2>1, ConcatAdjacentSubSeq
  <2> QED  BY <1>5, <2>2
<1>7. t \in Seq(Nat) /\ Len(t) = n
  <2>1. \A i \in 1 .. n : p[i] \in Nat  BY <1>1, <1>3, ElementOfSeq
  <2> QED  BY <1>3, <1>6, <2>1, SubSeqProperties
<1>8. Len(t) >= Len(p) => t = p
  <2>1. SubSeq(p, 1, Len(p)) = p  BY <1>1, SubSeqFull
  <2>2. n >= Len(p) => n = Len(p)  BY <1>2, <1>3
  <2> QED  BY <1>6, <1>7, <2>1, <2>2
<1>9. Part(t, p)  BY <1>2, <1>3, <1>6, <1>7 DEF Part
<1> QED  BY <1>8, <1>9 DEF t

\* A chunk is a sequence of bytes, wherever it is asked for.
LEMMA ChunkType ==
  ASSUME NEW p \in Pictures, NEW s \in Seq(Nat)
  PROVE  ChunkAt(p, Len(s)) \in Seq(Nat)
<1>1. p \in Seq(Nat) /\ ChunkSize \in Nat \ {0}  BY ArtworkConstants
<1> DEFINE n == IF Len(s) + ChunkSize <= Len(p) THEN Len(s) + ChunkSize ELSE Len(p)
<1>2. Len(p) \in Nat /\ Len(s) \in Nat  BY <1>1
<1>3. n \in Nat /\ n <= Len(p)  BY <1>1, <1>2
<1>4. ChunkAt(p, Len(s)) = SubSeq(p, Len(s) + 1, n)  BY DEF ChunkAt
<1> HIDE DEF n
<1>5. \A i \in Len(s) + 1 .. n : p[i] \in Nat  BY <1>1, <1>2, <1>3, ElementOfSeq
<1> QED  BY <1>2, <1>3, <1>4, <1>5, SubSeqProperties

\* Nobody has asked yet.
LEMMA ArtInvInit == ArtInit => ArtInv
<1> SUFFICES ASSUME ArtInit PROVE ArtInv  OBVIOUS
<1>1. /\ image \in [Places -> Some] /\ cache \in [Kinds \ {"cover"} -> Some]
      /\ fetch = [c \in ArtClients |-> Idly]
  BY DEF ArtInit, Some
<1>2. Sound(Idly) /\ Idly.at = "idle"  BY DEF Sound, Idly, Fetches, Some, Kinds
<1>3. ArtTypes  BY <1>1, <1>2 DEF ArtTypes
<1>4. Steady  BY <1>1, <1>2 DEF Steady, Active
<1> QED  BY <1>3, <1>4 DEF ArtInv

-----------------------------------------------------------------------------
\* A step of one client keeps the invariant, if it leaves what is fetched as it is.
LEMMA OneStep ==
  ASSUME ArtInv, NEW c \in ArtClients, NEW r, Sound(r),
         fetch' = [fetch EXCEPT ![c] = r],
         UNCHANGED image, cache' \in [Kinds \ {"cover"} -> Some],
         \A k \in Kinds :
           (Active(r) /\ r.of = k) \/ (\E d \in ArtClients : Active(fetch[d]) /\ fetch[d].of = k)
             => Current(k)' = Current(k) /\ Agreed(k)',
         Active(r) => Follows(r),
         r.sure /\ r.at = "whole" => r.got \in Pictures
  PROVE  ArtInv'
<1>1. \A d \in ArtClients : fetch'[d] = IF d = c THEN r ELSE fetch[d]
  BY DEF ArtInv, ArtTypes
<1>2. ArtTypes'
  <2>1. fetch' = [d \in ArtClients |-> fetch'[d]]  BY DEF ArtInv, ArtTypes
  <2>2. \A d \in ArtClients : Sound(fetch'[d])  BY <1>1 DEF ArtInv, ArtTypes
  <2>3. \A d \in ArtClients : Sound(fetch[d])' = Sound(fetch'[d])  BY DEF Sound, Fetches, Some
  <2> QED  BY <2>1, <2>2, <2>3 DEF ArtInv, ArtTypes
<1>3. ASSUME NEW d \in ArtClients, Active(fetch[d])'
      PROVE  Follows(fetch[d])' /\ Agreed(fetch[d].of)'
  <2>1. PICK g : g = fetch'[d]  OBVIOUS
  <2>2. g = IF d = c THEN r ELSE fetch[d]  BY <1>1, <2>1
  <2>3. Active(g)  BY <1>3, <2>1 DEF Active
  <2>4. g.of \in Kinds
    BY <2>2 DEF ArtInv, ArtTypes, Sound, Fetches
  <2>5. Follows(g) /\ Current(g.of)' = Current(g.of) /\ Agreed(g.of)'
    BY <2>2, <2>3, <2>4 DEF ArtInv, Steady
  <2>6. (fetch[d])' = g /\ (fetch[d].of)' = g.of /\ (fetch[d].got)' = g.got  BY <2>1
  <2>7. Current(fetch[d].of)' = Current(g.of)'  BY <2>6 DEF Current
  <2>8. Follows(fetch[d])'  BY <2>5, <2>6, <2>7 DEF Follows, Part
  <2>9. Agreed(fetch[d].of)'  BY <2>5, <2>6 DEF Agreed, Filling
  <2> QED  BY <2>8, <2>9
<1>4. \A d \in ArtClients : fetch'[d].sure /\ fetch'[d].at = "whole" => fetch'[d].got \in Pictures
  BY <1>1 DEF ArtInv, Steady
<1>5. Steady'  BY <1>3, <1>4 DEF Steady
<1> QED  BY <1>2, <1>5 DEF ArtInv

\* A request that neither fills the cache nor touches it leaves all kinds agreed.
LEMMA NoFiller ==
  ASSUME ArtInv, NEW c \in ArtClients, NEW r, r.of \in Kinds,
         fetch' = [fetch EXCEPT ![c] = r], UNCHANGED <<image, cache>>,
         r.at = "holding" => r.of # "cover" /\ r.held = image[r.of],
         r.at \in {"missed", "holding"} =>
           r.of = fetch[c].of /\ (Filling(r.of) \/ (r.of # "cover" => cache[r.of] = NoPicture))
  PROVE  \A k \in Kinds : Current(k)' = Current(k) /\ (Agreed(k) => Agreed(k)')
<1>1. \A d \in ArtClients : fetch'[d] = IF d = c THEN r ELSE fetch[d]
  BY DEF ArtInv, ArtTypes
<1>2. \A k \in Kinds : Current(k)' = Current(k)  BY DEF Current, Cover, FirstCover
<1>3. ASSUME NEW k \in Kinds, k # "cover", Agreed(k) PROVE Agreed(k)'
  <2>1. Filling(k)' => Filling(k) \/ cache[k] = NoPicture  BY <1>1, <1>3 DEF Filling
  <2>2. Filling(k)' => cache'[k] \in {NoPicture, image'[k]}  BY <1>3, <2>1 DEF Agreed
  <2>3. ASSUME NEW d \in ArtClients, fetch'[d].of = k, fetch'[d].at = "holding"
        PROVE  fetch'[d].held = image'[k]
    BY <1>1, <1>3, <2>3 DEF Agreed
  <2> QED  BY <2>2, <2>3 DEF Agreed
<1> QED  BY <1>2, <1>3 DEF Agreed

\* Who is answered with the image as it is has a longer part of it, or all.
LEMMA ServeKeeps ==
  ASSUME ArtInv, NEW c \in ArtClients, NEW p \in Some, Serve(c, p),
         fetch[c].at \in {"asking", "holding", "reading"},
         UNCHANGED image, cache' \in [Kinds \ {"cover"} -> Some],
         Active(fetch[c]) => p = Current(fetch[c].of),
         \A k \in Kinds : (\E d \in ArtClients : Active(fetch[d]) /\ fetch[d].of = k)
                             => Current(k)' = Current(k) /\ Agreed(k)'
  PROVE  ArtInv'
<1>1. Sound(fetch[c]) /\ fetch[c].got \in Seq(Nat) /\ fetch[c].of \in Kinds
  BY DEF ArtInv, ArtTypes, Sound, Fetches
<1>2. NoPicture \in Some  BY DEF Some
<1>3. CASE p = NoPicture \/ Len(fetch[c].got) > Len(p)
  <2> DEFINE r == [at |-> "refused", of |-> fetch[c].of, held |-> NoPicture, got |-> fetch[c].got,
                   sure |-> fetch[c].sure, times |-> fetch[c].times]
  <2>1. fetch' = [fetch EXCEPT ![c] = r]  BY <1>3 DEF Serve, Refusal, Step, Become
  <2>2. r.at = "refused" /\ Sound(r)  BY <1>1, <1>2 DEF Sound, Fetches
  <2> HIDE DEF r
  <2> QED  BY <2>1, <2>2, OneStep DEF Active
<1>4. CASE ~(p = NoPicture \/ Len(fetch[c].got) > Len(p))
  <2> DEFINE t == fetch[c].got \o ChunkAt(p, Len(fetch[c].got))
             r == [at |-> IF Len(t) >= Len(p) THEN "whole" ELSE "asking", of |-> fetch[c].of,
                   held |-> NoPicture, got |-> t, sure |-> fetch[c].sure, times |-> fetch[c].times]
  <2>1. fetch' = [fetch EXCEPT ![c] = r]  BY <1>4 DEF Serve, Become
  <2>2. p \in Pictures  BY <1>4 DEF Some
  <2>3. t \in Seq(Nat)  BY <1>1, <2>2, ChunkType, ConcatProperties
  <2>4. Sound(r)  BY <1>1, <1>2, <2>3 DEF Sound, Fetches
  <2>5. r.at \in {"whole", "asking"} /\ r.of = fetch[c].of /\ r.got = t
        /\ (r.at = "whole" => Len(t) >= Len(p)) /\ r.sure = fetch[c].sure
    OBVIOUS
  <2>6. ASSUME Active(fetch[c]) PROVE Part(t, p) /\ (Len(t) >= Len(p) => t = p)
    <3>1. p = Current(fetch[c].of)  BY <2>6
    <3>2. Follows(fetch[c])  BY <2>6 DEF ArtInv, Steady
    <3>3. p \in Seq(Nat) /\ Len(p) \in Nat  BY <2>2, ArtworkConstants
    <3>4. Part(fetch[c].got, p)
      <4>1. CASE fetch[c].got = <<>>
        <5>1. SubSeq(p, 1, 0) = <<>> /\ Len(<<>>) = 0  BY SubSeqEmpty
        <5> QED  BY <3>3, <4>1, <5>1 DEF Part
      <4> QED  BY <3>1, <3>2, <4>1 DEF Follows
    <3>5. PICK s \in Seq(Nat) : s = fetch[c].got  BY <1>1
    <3>6. Part(s \o ChunkAt(p, Len(s)), p)
          /\ (Len(s \o ChunkAt(p, Len(s))) >= Len(p) => s \o ChunkAt(p, Len(s)) = p)
      BY <2>2, <3>4, <3>5, ChunkContinues
    <3> QED  BY <3>5, <3>6
  <2>7. r.sure => Active(fetch[c])  BY <2>5 DEF Active
  <2>8. Active(r) => Follows(r)
    <3>1. Active(r) => Active(fetch[c])  BY <2>5, <2>7 DEF Active
    <3>2. Active(fetch[c]) => Current(r.of) = p  BY <2>5
    <3> HIDE DEF r, t
    <3> QED  BY <2>2, <2>5, <2>6, <3>1, <3>2 DEF Follows
  <2>9. r.sure /\ r.at = "whole" => r.got \in Pictures
    <3> HIDE DEF r, t
    <3> QED  BY <2>2, <2>5, <2>6, <2>7
  <2>10. \A k \in Kinds : Active(r) /\ r.of = k => Active(fetch[c]) /\ fetch[c].of = k
    BY <2>5, <2>7 DEF Active
  <2> HIDE DEF r, t
  <2> QED  BY <2>1, <2>4, <2>8, <2>9, <2>10, OneStep
<1> QED  BY <1>3, <1>4

-----------------------------------------------------------------------------
(* The steps of a fetch.                                                    *)

\* Nothing of a kind is fetched with certainty unless that kind agrees.
LEMMA ActiveAgrees ==
  ASSUME ArtInv, NEW k \in Kinds, \E d \in ArtClients : Active(fetch[d]) /\ fetch[d].of = k
  PROVE  Agreed(k)
BY DEF ArtInv, Steady

\* A fetch begins with certainty where nobody is about to write to the cache.
LEMMA BeginFetchKeeps ==
  ASSUME ArtInv, NEW c \in ArtClients, NEW k \in Kinds, BeginFetch(c, k)
  PROVE  ArtInv'
<1> DEFINE r == [at |-> "asking", of |-> k, held |-> NoPicture, got |-> <<>>,
                 sure |-> Settled(k), times |-> fetch[c].times + 1]
<1>1. fetch' = [fetch EXCEPT ![c] = r] /\ UNCHANGED <<image, cache>>  BY DEF BeginFetch
<1>2. fetch[c].times \in Nat  BY DEF ArtInv, ArtTypes, Sound, Fetches
<1>3. Settled(k) \in BOOLEAN  BY DEF Settled, Filling
<1>4. Sound(r) /\ r.at = "asking" /\ r.of = k /\ r.got = <<>>
  BY <1>2, <1>3 DEF Sound, Fetches, Some
<1>5. r.sure => Agreed(k)  BY DEF Settled, Agreed, Filling
<1> HIDE DEF r
<1>6. \A j \in Kinds : Current(j)' = Current(j) /\ (Agreed(j) => Agreed(j)')
  BY <1>1, <1>4, NoFiller
<1>7. \A j \in Kinds :
        (Active(r) /\ r.of = j) \/ (\E d \in ArtClients : Active(fetch[d]) /\ fetch[d].of = j)
          => Current(j)' = Current(j) /\ Agreed(j)'
  BY <1>4, <1>5, <1>6, ActiveAgrees DEF Active
<1>8. Follows(r)  BY <1>4 DEF Follows
<1>9. cache' \in [Kinds \ {"cover"} -> Some] /\ r.at # "whole"  BY <1>1, <1>4 DEF ArtInv, ArtTypes
<1> QED  BY <1>1, <1>4, <1>7, <1>8, <1>9, OneStep

\* A step within a request that serves nothing: the part stays as it was.
LEMMA StepKeeps ==
  ASSUME ArtInv, NEW c \in ArtClients, NEW at \in {"missed", "holding", "reading", "refused"},
         NEW held \in Some, Step(c, at, held),
         fetch[c].at \in {"asking", "missed", "holding", "reading"},
         at # "refused" => fetch[c].of # "cover",
         at = "holding" => held \in Pictures,
         UNCHANGED image, cache' \in [Kinds \ {"cover"} -> Some],
         \A k \in Kinds : (\E d \in ArtClients : Active(fetch[d]) /\ fetch[d].of = k)
                             => Current(k)' = Current(k) /\ Agreed(k)'
  PROVE  ArtInv'
<1> DEFINE r == [at |-> at, of |-> fetch[c].of, held |-> held, got |-> fetch[c].got,
                 sure |-> fetch[c].sure, times |-> fetch[c].times]
<1>1. fetch' = [fetch EXCEPT ![c] = r]  BY DEF Step, Become
<1>2. Sound(r)  BY DEF ArtInv, ArtTypes, Sound, Fetches
<1>3. r.at = at /\ r.of = fetch[c].of /\ r.got = fetch[c].got /\ r.sure = fetch[c].sure  OBVIOUS
<1> HIDE DEF r
<1>4. Active(r) => Active(fetch[c])  BY <1>3 DEF Active
<1>5. Active(r) => Follows(r)  BY <1>3, <1>4 DEF ArtInv, Steady, Follows
<1>6. \A k \in Kinds : Active(r) /\ r.of = k => Active(fetch[c]) /\ fetch[c].of = k
  BY <1>3, <1>4
<1> QED  BY <1>1, <1>2, <1>3, <1>5, <1>6, OneStep

\* The same where the step neither fills the cache nor touches it.
LEMMA PlainStep ==
  ASSUME ArtInv, NEW c \in ArtClients, NEW at \in {"missed", "holding", "reading", "refused"},
         NEW held \in Some, Step(c, at, held), UNCHANGED <<image, cache>>,
         fetch[c].at \in {"asking", "missed", "holding", "reading"},
         at # "refused" => fetch[c].of # "cover",
         at = "holding" => fetch[c].at = "missed" /\ held = image[fetch[c].of] /\ held \in Pictures,
         at = "missed" => cache[fetch[c].of] = NoPicture
  PROVE  ArtInv'
<1> DEFINE r == [at |-> at, of |-> fetch[c].of, held |-> held, got |-> fetch[c].got,
                 sure |-> fetch[c].sure, times |-> fetch[c].times]
<1>1. fetch' = [fetch EXCEPT ![c] = r]  BY DEF Step, Become
<1>2. r.at = at /\ r.of = fetch[c].of /\ r.held = held /\ r.of \in Kinds
  BY DEF ArtInv, ArtTypes, Sound, Fetches
<1> HIDE DEF r
<1>3. at = "holding" => Filling(r.of)  BY <1>2 DEF Filling
<1>4. \A k \in Kinds : Current(k)' = Current(k) /\ (Agreed(k) => Agreed(k)')
  BY <1>1, <1>2, <1>3, NoFiller
<1>5. \A k \in Kinds : (\E d \in ArtClients : Active(fetch[d]) /\ fetch[d].of = k)
                         => Current(k)' = Current(k) /\ Agreed(k)'
  BY <1>4, ActiveAgrees
<1>6. cache' \in [Kinds \ {"cover"} -> Some]  BY DEF ArtInv, ArtTypes
<1> QED  BY <1>5, <1>6, StepKeeps

\* An answer from what is there.
LEMMA PlainServe ==
  ASSUME ArtInv, NEW c \in ArtClients, NEW p \in Some, Serve(c, p), UNCHANGED <<image, cache>>,
         fetch[c].at \in {"asking", "reading"},
         Active(fetch[c]) => p = Current(fetch[c].of)
  PROVE  ArtInv'
<1>1. PICK r : /\ fetch' = [fetch EXCEPT ![c] = r]
               /\ r.of = fetch[c].of /\ r.at \in {"whole", "asking", "refused"}
  <2> DEFINE t == fetch[c].got \o ChunkAt(p, Len(fetch[c].got))
             one == [at |-> "refused", of |-> fetch[c].of, held |-> NoPicture,
                     got |-> fetch[c].got, sure |-> fetch[c].sure, times |-> fetch[c].times]
             two == [at |-> IF Len(t) >= Len(p) THEN "whole" ELSE "asking", of |-> fetch[c].of,
                     held |-> NoPicture, got |-> t, sure |-> fetch[c].sure,
                     times |-> fetch[c].times]
  <2>1. fetch' = [fetch EXCEPT ![c] = one] \/ fetch' = [fetch EXCEPT ![c] = two]
    BY DEF Serve, Refusal, Step, Become
  <2>2. one.of = fetch[c].of /\ one.at = "refused"  OBVIOUS
  <2>3. two.of = fetch[c].of /\ two.at \in {"whole", "asking"}  OBVIOUS
  <2> HIDE DEF one, two
  <2> QED  BY <2>1, <2>2, <2>3
<1>2. r.of \in Kinds  BY <1>1 DEF ArtInv, ArtTypes, Sound, Fetches
<1>3. \A k \in Kinds : Current(k)' = Current(k) /\ (Agreed(k) => Agreed(k)')
  BY <1>1, <1>2, NoFiller
<1>4. \A k \in Kinds : (\E d \in ArtClients : Active(fetch[d]) /\ fetch[d].of = k)
                         => Current(k)' = Current(k) /\ Agreed(k)'
  BY <1>3, ActiveAgrees
<1>5. cache' \in [Kinds \ {"cover"} -> Some]  BY DEF ArtInv, ArtTypes
<1> QED  BY <1>4, <1>5, ServeKeeps

\* The steps of a request that write nothing to the cache.
LEMMA RequestKeeps ==
  ASSUME ArtInv, NEW c \in ArtClients, AnswerCover(c) \/ LookUp(c) \/ Obtain(c) \/ ReadBack(c)
  PROVE  ArtInv'
<1> DEFINE k == fetch[c].of
<1>1. k \in Kinds /\ ArtTypes /\ NoPicture \in Some  BY DEF ArtInv, ArtTypes, Sound, Fetches, Some
<1>2. /\ fetch[c].at \in {"missed", "holding", "reading"} => k # "cover"
      /\ image \in [Places -> Some] /\ cache \in [Kinds \ {"cover"} -> Some]
  BY DEF ArtInv, ArtTypes, Sound
<1>3. CASE AnswerCover(c)
  <2>1. Cover \in Some /\ (fetch[c].of = "cover" => Current(k) = Cover)
    BY <1>2, CoverType DEF Current
  <2> QED  BY <1>3, <2>1, PlainServe DEF AnswerCover
<1>4. CASE LookUp(c)
  <2>1. k # "cover" /\ fetch[c].at = "asking" /\ UNCHANGED <<image, cache>>  BY <1>4 DEF LookUp
  <2>2. cache[k] \in Some  BY <1>1, <1>2, <2>1
  <2>3. CASE cache[k] = NoPicture
    <3>1. Step(c, "missed", NoPicture)  BY <1>4, <2>3 DEF LookUp
    <3> QED  BY <1>1, <2>1, <2>3, <3>1, PlainStep
  <2>4. CASE cache[k] # NoPicture
    <3>1. Current(k) = cache[k]  BY <2>1, <2>4 DEF Current
    <3>2. CASE Serve(c, cache[k])  BY <2>1, <2>2, <3>1, <3>2, PlainServe
    <3>3. CASE Step(c, "reading", NoPicture)  BY <1>1, <2>1, <3>3, PlainStep
    <3> QED  BY <1>4, <2>4, <3>2, <3>3 DEF LookUp, FromCache
  <2> QED  BY <2>3, <2>4
<1>5. CASE Obtain(c)
  <2>1. k # "cover" /\ fetch[c].at = "missed" /\ UNCHANGED <<image, cache>>
    BY <1>2, <1>5 DEF Obtain
  <2>2. k \in Places  BY <1>1, <2>1, CachedPlaces
  <2>3. CASE image[k] # NoPicture /\ Step(c, "holding", image[k])
    <3>1. image[k] \in Pictures /\ image[k] \in Some  BY <1>2, <2>2, <2>3 DEF Some
    <3> QED  BY <2>1, <2>3, <3>1, PlainStep
  <2>4. CASE Step(c, "refused", NoPicture)  BY <1>1, <2>1, <2>4, PlainStep
  <2>5. CASE Step(c, "reading", NoPicture)  BY <1>1, <2>1, <2>5, PlainStep
  <2> QED  BY <1>5, <2>3, <2>4, <2>5 DEF Obtain, Refusal
<1>6. CASE ReadBack(c)
  <2>1. /\ k # "cover" /\ fetch[c].at = "reading" /\ UNCHANGED <<image, cache>>
        /\ Serve(c, cache[k])
    BY <1>2, <1>6 DEF ReadBack
  <2>2. cache[k] \in Some  BY <1>1, <1>2, <2>1
  <2>3. CASE cache[k] # NoPicture
    <3>1. Current(k) = cache[k]  BY <2>1, <2>3 DEF Current
    <3> QED  BY <2>1, <2>2, <3>1, PlainServe
  <2>4. CASE cache[k] = NoPicture
    <3>1. Step(c, "refused", NoPicture)  BY <2>1, <2>4 DEF Serve, Refusal
    <3> QED  BY <1>1, <2>1, <3>1, PlainStep
  <2> QED  BY <2>3, <2>4
<1> QED  BY <1>3, <1>4, <1>5, <1>6

\* What is stored is what is there, for as long as a fetch relies on it.
LEMMA StoreKeeps ==
  ASSUME ArtInv, NEW c \in ArtClients, Store(c)
  PROVE  ArtInv'
<1> DEFINE p == fetch[c].held
<1>0. PICK k \in Kinds : k = fetch[c].of  BY DEF ArtInv, ArtTypes, Sound, Fetches
<1>1. /\ fetch[c].at = "holding" /\ UNCHANGED image /\ k # "cover"
      /\ p \in Pictures /\ p \in Some /\ NoPicture \in Some
  BY <1>0 DEF Store, ArtInv, ArtTypes, Sound, Some
<1>2. /\ image \in [Places -> Some] /\ cache \in [Kinds \ {"cover"} -> Some] /\ k \in Places
  BY <1>1, CachedPlaces DEF ArtInv, ArtTypes
<1>3. cache' = cache \/ cache' = [cache EXCEPT ![k] = p]  BY <1>0 DEF Store
<1>4. cache' \in [Kinds \ {"cover"} -> Some]
  BY <1>1, <1>2, <1>3
<1>5. /\ \A j \in Kinds \ {"cover", k} : cache'[j] = cache[j]
      /\ cache'[k] \in {cache[k], p}
  BY <1>1, <1>2, <1>3
<1>6. Filling(k) /\ p # NoPicture  BY <1>0, <1>1, ArtworkConstants DEF Filling
<1>7. Agreed(k) => /\ p = image[k] /\ cache[k] \in {NoPicture, image[k]}
                   /\ cache'[k] \in {NoPicture, image[k]} /\ Current(k) = image[k]
                   /\ Current(k)' = image[k]
  <2> SUFFICES ASSUME Agreed(k)
               PROVE  /\ p = image[k] /\ cache[k] \in {NoPicture, image[k]}
                      /\ cache'[k] \in {NoPicture, image[k]} /\ Current(k) = image[k]
                      /\ Current(k)' = image[k]
    OBVIOUS
  <2>1. p = image[k] /\ cache[k] \in {NoPicture, image[k]}  BY <1>0, <1>1, <1>6 DEF Agreed
  <2>2. cache'[k] \in {NoPicture, image[k]} /\ image'[k] = image[k]  BY <1>1, <1>5, <2>1
  <2> QED  BY <1>1, <2>1, <2>2 DEF Current
<1>8. \E r : /\ fetch' = [fetch EXCEPT ![c] = r] /\ r.of = k
             /\ r.at \in {"whole", "asking", "refused", "reading"}
  <2> DEFINE t == fetch[c].got \o ChunkAt(p, Len(fetch[c].got))
             a == [at |-> "refused", of |-> fetch[c].of, held |-> NoPicture,
                   got |-> fetch[c].got, sure |-> fetch[c].sure, times |-> fetch[c].times]
             b == [at |-> IF Len(t) >= Len(p) THEN "whole" ELSE "asking", of |-> fetch[c].of,
                   held |-> NoPicture, got |-> t, sure |-> fetch[c].sure,
                   times |-> fetch[c].times]
             d == [at |-> "reading", of |-> fetch[c].of, held |-> NoPicture,
                   got |-> fetch[c].got, sure |-> fetch[c].sure, times |-> fetch[c].times]
  <2>1. fetch' = [fetch EXCEPT ![c] = a] \/ fetch' = [fetch EXCEPT ![c] = b]
        \/ fetch' = [fetch EXCEPT ![c] = d]
    BY DEF Store, Serve, Refusal, Step, Become
  <2>2. a.of = k /\ a.at = "refused"  BY <1>0
  <2>3. b.of = k /\ b.at \in {"whole", "asking"}  BY <1>0
  <2>4. d.of = k /\ d.at = "reading"  BY <1>0
  <2> HIDE DEF a, b, d
  <2> QED  BY <2>1, <2>2, <2>3, <2>4
<1>9. \A e \in ArtClients :
        /\ fetch'[e].of = fetch[e].of
        /\ fetch'[e].at \in {"missed", "holding"} =>
             fetch'[e].at = fetch[e].at /\ fetch'[e].held = fetch[e].held
  BY <1>0, <1>8 DEF ArtInv, ArtTypes
<1>10. ASSUME NEW j \in Kinds, Agreed(j) PROVE Current(j)' = Current(j) /\ Agreed(j)'
  <2>1. Filling(j)' => Filling(j)  BY <1>9 DEF Filling
  <2>2. CASE j = k
    <3>1. Agreed(k)'  BY <1>1, <1>7, <1>9, <1>10, <2>2 DEF Agreed
    <3> QED  BY <1>7, <1>10, <2>2, <3>1
  <2>3. CASE j # k
    <3>1. Current(j)' = Current(j)  BY <1>1, <1>5, <2>3 DEF Current, Cover, FirstCover
    <3>2. Agreed(j)'  BY <1>1, <1>5, <1>9, <1>10, <2>1, <2>3 DEF Agreed
    <3> QED  BY <3>1, <3>2
  <2> QED  BY <2>2, <2>3
<1>11. \A j \in Kinds : (\E d \in ArtClients : Active(fetch[d]) /\ fetch[d].of = j)
                          => Current(j)' = Current(j) /\ Agreed(j)'
  BY <1>10, ActiveAgrees
<1>12. CASE Serve(c, p)
  <2>1. Active(fetch[c]) => p = Current(fetch[c].of)  BY <1>0, <1>7, ActiveAgrees
  <2> HIDE DEF p
  <2> QED  BY <1>1, <1>4, <1>11, <1>12, <2>1, ServeKeeps
<1>13. CASE Step(c, "reading", NoPicture)
  BY <1>0, <1>1, <1>4, <1>11, <1>13, StepKeeps
<1>14. CASE Step(c, "refused", NoPicture)
  BY <1>0, <1>1, <1>4, <1>11, <1>14, StepKeeps
<1> QED  BY <1>12, <1>13, <1>14 DEF Store, Refusal

\* The fetches of the kinds in S are no longer certain.
Faded(S) ==
  fetch' = [c \in ArtClients |->
    IF fetch[c].of \in S
    THEN [at |-> fetch[c].at, of |-> fetch[c].of, held |-> fetch[c].held, got |-> fetch[c].got,
          sure |-> FALSE, times |-> fetch[c].times]
    ELSE fetch[c]]

\* Nothing else of them changes.
LEMMA FadedOnly ==
  ASSUME ArtInv, NEW S, Faded(S), NEW c \in ArtClients
  PROVE  /\ Sound(fetch'[c])
         /\ fetch'[c].of = fetch[c].of /\ fetch'[c].at = fetch[c].at
         /\ fetch'[c].got = fetch[c].got /\ fetch'[c].held = fetch[c].held
         /\ fetch'[c].sure => fetch[c].sure /\ fetch[c].of \notin S
<1> DEFINE f == fetch[c]
<1>1. Sound(f)  BY DEF ArtInv, ArtTypes
<1>2. CASE f.of \in S
  <2>1. fetch'[c] = [at |-> f.at, of |-> f.of, held |-> f.held, got |-> f.got, sure |-> FALSE,
                     times |-> f.times]
    BY <1>2 DEF Faded
  <2> HIDE DEF f
  <2>2. \A g : g = [at |-> f.at, of |-> f.of, held |-> f.held, got |-> f.got, sure |-> FALSE,
                   times |-> f.times]
               => /\ g.at = f.at /\ g.of = f.of /\ g.held = f.held /\ g.got = f.got
                  /\ ~g.sure /\ g \in Fetches
    BY <1>1 DEF Sound, Fetches
  <2>3. Sound(fetch'[c])  BY <1>1, <2>1, <2>2 DEF Sound
  <2> QED  BY <2>1, <2>2, <2>3 DEF f
<1>3. CASE f.of \notin S
  <2>1. fetch'[c] = f  BY <1>3 DEF Faded
  <2> QED  BY <1>1, <1>3, <2>1
<1> QED  BY <1>2, <1>3

\* The invariant is kept, if what the certain fetches see stays as it is.
LEMMA FadedKeeps ==
  ASSUME ArtInv, NEW S, Faded(S),
         image' \in [Places -> Some], cache' \in [Kinds \ {"cover"} -> Some],
         \A k \in Kinds \ S : Current(k)' = Current(k) /\ (Agreed(k) => Agreed(k)')
  PROVE  ArtInv'
<1>1. ASSUME NEW c \in ArtClients
      PROVE  /\ Sound(fetch'[c])
             /\ fetch'[c].of = fetch[c].of /\ fetch'[c].at = fetch[c].at
             /\ fetch'[c].got = fetch[c].got /\ fetch'[c].held = fetch[c].held
             /\ fetch'[c].sure => fetch[c].sure /\ fetch[c].of \notin S
  BY FadedOnly
<1>2. ArtTypes'
  <2>1. \A c \in ArtClients : Sound(fetch[c])' = Sound(fetch'[c])  BY DEF Sound, Fetches, Some
  <2>2. fetch' = [c \in ArtClients |-> fetch'[c]]  BY DEF Faded
  <2> QED  BY <1>1, <2>1, <2>2 DEF ArtTypes
<1>3. ASSUME NEW c \in ArtClients, Active(fetch[c])'
      PROVE  Follows(fetch[c])' /\ Agreed(fetch[c].of)'
  <2>1. PICK k \in Kinds : k = fetch[c].of  BY DEF ArtInv, ArtTypes, Sound, Fetches
  <2>2. Active(fetch[c]) /\ k \notin S  BY <1>1, <1>3, <2>1 DEF Active
  <2>3. Follows(fetch[c]) /\ Agreed(k)  BY <2>1, <2>2 DEF ArtInv, Steady
  <2>4. Current(k)' = Current(k) /\ Agreed(k)'  BY <2>2, <2>3
  <2>5. Follows(fetch[c])'
    <3>1. fetch'[c].of = k /\ fetch'[c].got = fetch[c].got  BY <1>1, <2>1
    <3>2. (fetch[c].of)' = k /\ (fetch[c].got)' = fetch[c].got  BY <3>1
    <3>3. Current(fetch[c].of)' = Current(k)  BY <2>4, <3>2 DEF Current
    <3> QED  BY <2>1, <2>3, <3>2, <3>3 DEF Follows, Part
  <2> QED  BY <1>1, <2>1, <2>4, <2>5
<1>4. \A c \in ArtClients : fetch'[c].sure /\ fetch'[c].at = "whole" => fetch'[c].got \in Pictures
  BY <1>1 DEF ArtInv, Steady
<1>5. Steady'  BY <1>3, <1>4 DEF Steady
<1> QED  BY <1>2, <1>5 DEF ArtInv

\* A change of an image is not seen by a fetch that stays certain.
LEMMA RepaintKeeps ==
  ASSUME ArtInv, NEW place \in Places, NEW p \in Some, Repaint(place, p)
  PROVE  ArtInv'
<1> DEFINE Seen(k) == \/ k = "cover" /\ place \in ToSet(CoverNames)
                      \/ k = place /\ (cache[k] = NoPicture \/ Filling(k))
           S == {k \in Kinds : Seen(k)}
<1>1. /\ image \in [Places -> Some] /\ cache \in [Kinds \ {"cover"} -> Some]
      /\ \A c \in ArtClients : fetch[c].of \in Kinds
  BY DEF ArtInv, ArtTypes, Sound, Fetches
<1>2. /\ image' \in [Places -> Some] /\ image'[place] = p /\ cache' = cache
      /\ \A x \in Places \ {place} : image'[x] = image[x]
  BY <1>1 DEF Repaint
<1>3. \A k \in Kinds \ S : ~Seen(k)  OBVIOUS
<1>5. Faded(S)
  <2>1. fetch' = [c \in ArtClients |->
                    IF Seen(fetch[c].of)
                    THEN [at |-> fetch[c].at, of |-> fetch[c].of, held |-> fetch[c].held,
                          got |-> fetch[c].got, sure |-> FALSE, times |-> fetch[c].times]
                    ELSE fetch[c]]
    BY DEF Repaint, Doubt
  <2> HIDE DEF Seen
  <2>2. \A c \in ArtClients : fetch[c].of \in S <=> Seen(fetch[c].of)  BY <1>1
  <2> HIDE DEF S
  <2> QED  BY <2>1, <2>2 DEF Faded
<1> HIDE DEF S
<1>4. \A c \in ArtClients : /\ fetch'[c].of = fetch[c].of /\ fetch'[c].at = fetch[c].at
                            /\ fetch'[c].held = fetch[c].held
  BY <1>5, FadedOnly
<1>6. \A k \in Kinds : Filling(k)' = Filling(k)  BY <1>4 DEF Filling
<1>7. ASSUME NEW k \in Kinds \ S
      PROVE  Current(k)' = Current(k) /\ (Agreed(k) => Agreed(k)')
  <2>1. CASE k = "cover"
    <3>0. place \notin ToSet(CoverNames)  BY <1>3, <1>7, <2>1
    <3>1. \A i \in DOMAIN CoverNames : image'[CoverNames[i]] = image[CoverNames[i]]
      BY <1>2, <3>0 DEF ToSet, Places
    <3>2. \A i \in DOMAIN CoverNames : \A j \in 1 .. i - 1 : j \in DOMAIN CoverNames
      BY ArtworkConstants
    <3>3. \A i \in DOMAIN CoverNames : FirstCover(i)' <=> FirstCover(i)
      BY <3>1, <3>2 DEF FirstCover
    <3>4. {i \in DOMAIN CoverNames : FirstCover(i)}' = {i \in DOMAIN CoverNames : FirstCover(i)}
      BY <3>3
    <3>5. Cover' = Cover
      <4> DEFINE there == {i \in DOMAIN CoverNames : FirstCover(i)}
      <4>1. there' = there  BY <3>4
      <4>2. there # {} => (CHOOSE i \in there : TRUE) \in there  OBVIOUS
      <4>3. there # {} => (CHOOSE i \in there : TRUE) \in DOMAIN CoverNames  BY <4>2
      <4>4. Cover = IF there = {} THEN NoPicture ELSE image[CoverNames[CHOOSE i \in there : TRUE]]
        BY DEF Cover
      <4>5. Cover' = IF there' = {} THEN NoPicture
                     ELSE image'[CoverNames[CHOOSE i \in there' : TRUE]]
        BY DEF Cover
      <4> HIDE DEF there
      <4> QED  BY <3>1, <4>1, <4>3, <4>4, <4>5
    <3> QED  BY <2>1, <3>5 DEF Current, Agreed
  <2>2. CASE k # "cover" /\ k # place
    <3>1. k \in Places  BY <2>2, CachedPlaces
    <3>2. image'[k] = image[k] /\ cache' = cache  BY <1>2, <2>2, <3>1
    <3> QED  BY <1>4, <1>6, <2>2, <3>2 DEF Current, Agreed
  <2>3. CASE k # "cover" /\ k = place
    <3>1. cache[k] # NoPicture /\ ~Filling(k) /\ cache' = cache  BY <1>2, <1>3, <1>7, <2>3
    <3>2. ~Filling(k)'  BY <1>6, <3>1
    <3>3. Agreed(k)'  BY <3>2 DEF Agreed, Filling
    <3> QED  BY <2>3, <3>1, <3>3 DEF Current
  <2> QED  BY <2>1, <2>2, <2>3
<1> QED  BY <1>1, <1>2, <1>5, <1>7, FadedKeeps

\* Nor is an eviction of what the source still has.
LEMMA EvictKeeps ==
  ASSUME ArtInv, NEW e \in Kinds \ {"cover"}, Evict(e)
  PROVE  ArtInv'
<1> DEFINE S == {k \in Kinds : k = e /\ cache[e] # image[e]}
<1>1. /\ image \in [Places -> Some] /\ cache \in [Kinds \ {"cover"} -> Some]
      /\ \A c \in ArtClients : fetch[c].of \in Kinds
  BY DEF ArtInv, ArtTypes, Sound, Fetches
<1>2. /\ image' = image /\ cache[e] # NoPicture /\ cache'[e] = NoPicture
      /\ cache' \in [Kinds \ {"cover"} -> Some]
      /\ \A k \in Kinds \ {"cover", e} : cache'[k] = cache[k]
  BY <1>1 DEF Evict, Some
<1>3. Faded(S)  BY <1>1 DEF Evict, Doubt, Faded
<1> HIDE DEF S
<1>4. \A c \in ArtClients : /\ fetch'[c].of = fetch[c].of /\ fetch'[c].at = fetch[c].at
                            /\ fetch'[c].held = fetch[c].held
  BY <1>3, FadedOnly
<1>5. \A k \in Kinds : Filling(k)' = Filling(k)  BY <1>4 DEF Filling
<1>6. ASSUME NEW k \in Kinds \ S
      PROVE  Current(k)' = Current(k) /\ (Agreed(k) => Agreed(k)')
  <2>1. CASE k # e
    <3>1. Current(k)' = Current(k)  BY <1>2, <2>1 DEF Current, Cover, FirstCover
    <3> QED  BY <1>2, <1>4, <1>5, <2>1, <3>1 DEF Agreed
  <2>2. CASE k = e
    <3>1. cache[k] = image[k]  BY <1>6, <2>2 DEF S
    <3>2. Current(k)' = Current(k)  BY <1>2, <2>2, <3>1 DEF Current
    <3> QED  BY <1>2, <1>4, <1>5, <2>2, <3>2 DEF Agreed
  <2> QED  BY <2>1, <2>2
<1> QED  BY <1>1, <1>2, <1>3, <1>6, FadedKeeps

-----------------------------------------------------------------------------
\* Every step of the clients and of the world keeps the invariant.
LEMMA ArtStep == ArtInv /\ [ArtNext]_artvars => ArtInv'
<1> SUFFICES ASSUME ArtInv, [ArtNext]_artvars PROVE ArtInv'  OBVIOUS
<1>1. ASSUME NEW place \in Places, NEW p \in Pictures \union {NoPicture}, Repaint(place, p)
      PROVE  ArtInv'
  BY <1>1, RepaintKeeps DEF Some
<1>2. ASSUME NEW c \in ArtClients, NEW k \in Kinds, BeginFetch(c, k) PROVE ArtInv'
  BY <1>2, BeginFetchKeeps
<1>3. ASSUME NEW c \in ArtClients,
             AnswerCover(c) \/ LookUp(c) \/ Obtain(c) \/ Store(c) \/ ReadBack(c)
      PROVE  ArtInv'
  BY <1>3, RequestKeeps, StoreKeeps
<1>4. ASSUME NEW k \in Kinds \ {"cover"}, Evict(k) PROVE ArtInv'
  BY <1>4, EvictKeeps
<1>5. CASE UNCHANGED artvars
  <2>1. image' = image /\ cache' = cache /\ fetch' = fetch  BY <1>5 DEF artvars
  <2>2. ArtTypes'  BY <2>1 DEF ArtInv, ArtTypes, Sound, Fetches, Some
  <2>3. \A k : Filling(k)' = Filling(k)  BY <2>1 DEF Filling
  <2>4. \A k : Agreed(k) => Agreed(k)'  BY <2>1, <2>3 DEF Agreed
  <2>5. Cover' = Cover  BY <2>1 DEF Cover, FirstCover
  <2>6. \A c \in ArtClients : Follows(fetch[c]) => Follows(fetch[c])'
    BY <2>1, <2>5 DEF Follows, Current, Part
  <2>7. Steady'  BY <2>1, <2>4, <2>6 DEF ArtInv, Steady, Active
  <2> QED  BY <2>2, <2>7 DEF ArtInv
<1> QED  BY <1>1, <1>2, <1>3, <1>4, <1>5 DEF ArtNext

\* The bounds of the model are kept.
Counted ==
  repaints \in 0 .. MaxRepaints /\ \A c \in ArtClients : fetch[c].times \in 0 .. MaxFetches

\* A step of a request leaves what is counted as it is.
LEMMA CountedKept == ArtInv /\ Counted /\ [ArtNext]_artvars => Counted'
<1> SUFFICES ASSUME ArtInv, Counted, [ArtNext]_artvars  PROVE Counted'
  OBVIOUS
<1>1. fetch = [c \in ArtClients |-> fetch[c]]
  BY DEF ArtInv, ArtTypes
<1>2. ASSUME NEW place \in Places, NEW p \in Pictures \union {NoPicture}, Repaint(place, p)
      PROVE  Counted'
  <2>1. repaints' \in 0 .. MaxRepaints
    BY <1>2, ArtworkConstants DEF Counted, Repaint
  <2>2. \A c \in ArtClients : fetch'[c].times = fetch[c].times
    BY <1>2 DEF Repaint, Doubt
  <2> QED  BY <2>1, <2>2 DEF Counted
<1>3. ASSUME NEW c \in ArtClients, NEW k \in Kinds, BeginFetch(c, k)  PROVE Counted'
  BY <1>1, <1>3, ArtworkConstants DEF Counted, BeginFetch
<1>4. ASSUME NEW c \in ArtClients, AnswerCover(c) \/ LookUp(c) \/ Obtain(c) \/ Store(c) \/ ReadBack(c)
      PROVE  Counted'
  <2>1. \E at, held, got : Become(c, at, held, got)
    BY <1>4 DEF AnswerCover, LookUp, FromCache, Obtain, Store, ReadBack, Serve, Refusal, Step
  <2>2. UNCHANGED repaints
    BY <1>4 DEF AnswerCover, LookUp, Obtain, Store, ReadBack
  <2>3. \A d \in ArtClients : fetch'[d].times = fetch[d].times
    BY <1>1, <2>1 DEF Become
  <2> QED  BY <2>2, <2>3 DEF Counted
<1>5. ASSUME NEW k \in Kinds \ {"cover"}, Evict(k)  PROVE Counted'
  <2>1. repaints' \in 0 .. MaxRepaints
    BY <1>5, ArtworkConstants DEF Counted, Evict
  <2>2. \A c \in ArtClients : fetch'[c].times = fetch[c].times
    BY <1>5 DEF Evict, Doubt
  <2> QED  BY <2>1, <2>2 DEF Counted
<1>6. CASE UNCHANGED artvars
  BY <1>6 DEF artvars, Counted
<1> QED  BY <1>2, <1>3, <1>4, <1>5, <1>6 DEF ArtNext

\* Whatever clients fetch at once, whenever images change and whenever the cache loses
\* one with its song: what a client put together from chunks is one of the images,
\* unless the image it was given changed meanwhile (albumart and readpicture in commands/database.rs, artwork.rs).
THEOREM PictureWholeAlways == ArtSpec => [](ArtTypeOK /\ PictureWhole)
<1>1. ArtInv => PictureWhole  BY DEF ArtInv, Steady, PictureWhole
<1>2. ArtInv /\ Counted => ArtTypeOK  BY DEF ArtInv, ArtTypes, Sound, Fetches, Some, Counted, ArtTypeOK
<1>3. ArtInit => Counted  BY ArtworkConstants DEF ArtInit, Idly, Counted
<1> QED  BY <1>1, <1>2, <1>3, ArtInvInit, ArtStep, CountedKept, PTL DEF ArtSpec

-----------------------------------------------------------------------------
(* Stickers.                                                               *)

Request == [op : {"none", "set", "add", "delete"}, at : {"idle", "check", "read", "write", "notify"},
            song : StickerSongs \union {""}, name : StickerNames \union {AllNames},
            value : Numbers \union {Word}, read : Numbers]

\* What a command under way is about.
Asked(r) ==
  /\ r.at # "idle" => r.op # "none" /\ r.song \in StickerSongs
  /\ r.op \in {"set", "add"} => r.name \in StickerNames
  /\ r.op = "add" => r.value \in Numbers
  /\ r.at = "read" => r.op # "set" /\ r.name # AllNames

\* Who changed a sticker and has not emitted is about to.
StickersInv ==
  /\ kept \in [StickerSongs \X StickerNames -> Numbers \union {Word, Absent}]
  /\ library \subseteq StickerSongs
  /\ request \in [StickerClients -> Request] /\ \A c \in StickerClients : Asked(request[c])
  /\ unseen \in [StickerClients -> BOOLEAN]
  /\ \A c \in StickerClients : unseen[c] <=> request[c].at = "notify"
  /\ StickersTold

LEMMA StickersInvInit == StickersInit => StickersInv
<1> SUFFICES ASSUME StickersInit  PROVE StickersInv
  OBVIOUS
<1>1. NoRequest \in Request /\ Asked(NoRequest) /\ NoRequest.at = "idle"
  BY StickersConstants DEF NoRequest, Request, Asked, Numbers
<1>2. /\ \A c \in StickerClients : request[c] = NoRequest
      /\ request \in [StickerClients -> Request]
  BY <1>1 DEF StickersInit
<1> QED  BY <1>1, <1>2 DEF StickersInit, StickersInv, StickersTold

\* A sum is in the width of an i32.
LEMMA SumInWidth ==
  ASSUME NEW a \in Numbers, NEW b \in Numbers
  PROVE  Sum(a, b) \subseteq Numbers
<1> DEFINE w == 2 * MaxI32 + 2
           s == a + b + MaxI32 + 1
<1>1. MaxI32 \in Nat /\ w \in Nat /\ w > 0 /\ s \in Int /\ a \in Int /\ b \in Int
  BY StickersConstants DEF Numbers
<1>2. s % w \in 0 .. w - 1
  <2> HIDE DEF s, w
  <2> QED  BY <1>1
<1>3. (s % w) - MaxI32 - 1 \in Numbers
  <2> DEFINE r == s % w
  <2>1. r \in 0 .. w - 1
    BY <1>2
  <2> HIDE DEF r
  <2> QED  BY <1>1, <2>1 DEF Numbers
<1> QED  BY <1>1, <1>3 DEF Sum

\* A client goes on to another command or another place.
LEMMA RequestMoves ==
  ASSUME StickersInv, NEW c \in StickerClients, NEW r \in Request, Asked(r),
         request' = [request EXCEPT ![c] = r], UNCHANGED <<kept, library, unseen, told>>,
         r.at # "notify", request[c].at # "notify"
  PROVE  StickersInv'
<1>1. /\ request' \in [StickerClients -> Request]
      /\ \A d \in StickerClients : request'[d] = IF d = c THEN r ELSE request[d]
  BY DEF StickersInv
<1> QED  BY <1>1 DEF StickersInv, StickersTold

LEMMA StickersStep == StickersInv /\ [StickersNext]_stickervars => StickersInv'
<1> SUFFICES ASSUME StickersInv, [StickersNext]_stickervars  PROVE StickersInv'
  OBVIOUS
<1>0. NoRequest \in Request /\ Asked(NoRequest) /\ NoRequest.at = "idle"
  BY StickersConstants DEF NoRequest, Request, Asked, Numbers
<1>1. ASSUME NEW c \in StickerClients, NEW op \in {"set", "add", "delete"}, NEW s \in StickerSongs,
             NEW n \in StickerNames \union {AllNames}, NEW v \in Numbers \union {Word},
             op \in {"set", "add"} => n \in StickerNames, op = "add" => v \in Numbers,
             BeginSticker(c, op, s, n, v)
      PROVE  StickersInv'
  <2> DEFINE r == [op |-> op, at |-> "check", song |-> s, name |-> n, value |-> v, read |-> 0]
  <2>0. 0 \in Numbers
    BY StickersConstants DEF Numbers
  <2>1. r \in Request /\ Asked(r) /\ r.at # "notify"
    BY <1>1, <2>0 DEF Request, Asked
  <2>2. [NoRequest EXCEPT !.op = op, !.at = "check", !.song = s, !.name = n, !.value = v] = r
    <3> DEFINE e == [NoRequest EXCEPT !.op = op, !.at = "check", !.song = s, !.name = n, !.value = v]
    <3>1. e \in [op : {op}, at : {"check"}, song : {s}, name : {n}, value : {v}, read : {0}]
      BY DEF NoRequest
    <3> HIDE DEF e
    <3>2. e = r
      BY <3>1
    <3> QED  BY <3>2 DEF e
  <2>3. request' = [request EXCEPT ![c] = r] /\ UNCHANGED <<kept, library, unseen, told>>
        /\ request[c].at = "idle"
    BY <1>1, <2>2, Zenon DEF BeginSticker
  <2> HIDE DEF r
  <2> QED  BY <2>1, <2>3, RequestMoves
<1>2. ASSUME NEW c \in StickerClients, RequireSong(c)  PROVE StickersInv'
  <2> DEFINE at == IF request[c].op = "set" \/ (request[c].op = "delete" /\ request[c].name = AllNames)
                   THEN "write" ELSE "read"
             r == [request[c] EXCEPT !.at = at]
  <2>1. r \in Request /\ Asked(r) /\ r.at # "notify"
    <3>1. request[c] \in Request /\ Asked(request[c]) /\ request[c].at = "check"
      BY <1>2 DEF StickersInv, RequireSong
    <3>2. AllNames \notin StickerNames
      BY StickersConstants
    <3>3. r \in Request /\ r.at \in {"read", "write"} /\ r.at = at
          /\ r.op = request[c].op /\ r.song = request[c].song /\ r.name = request[c].name
          /\ r.value = request[c].value
      BY <3>1 DEF Request
    <3> HIDE DEF r
    <3> QED  BY <3>1, <3>2, <3>3 DEF Asked, Request
  <2>2. request' = [request EXCEPT ![c] = r] \/ request' = [request EXCEPT ![c] = NoRequest]
    BY <1>2 DEF RequireSong, Done, Now
  <2>3. request[c].at = "check" /\ UNCHANGED <<kept, library, unseen, told>>
    BY <1>2 DEF RequireSong
  <2> HIDE DEF r
  <2> QED  BY <1>0, <2>1, <2>2, <2>3, RequestMoves
<1>3. ASSUME NEW c \in StickerClients, GetSticker(c)  PROVE StickersInv'
  <2> DEFINE q == request[c]
             v == kept[<<q.song, q.name>>]
             r(n) == [q EXCEPT !.at = "write", !.read = n]
  <2>1. /\ q \in Request /\ Asked(q) /\ q.at = "read" /\ UNCHANGED <<kept, library, unseen, told>>
        /\ q.song \in StickerSongs /\ q.name \in StickerNames /\ q.op \in {"add", "delete"}
    BY <1>3 DEF GetSticker, StickersInv, Request, Asked
  <2>2. CASE q.op = "delete"
    <3> DEFINE w == [q EXCEPT !.at = "write"]
    <3>1. w \in Request /\ Asked(w) /\ w.at # "notify"
      BY <2>1 DEF Request, Asked
    <3>2. request' = [request EXCEPT ![c] = w] \/ request' = [request EXCEPT ![c] = NoRequest]
      BY <1>3, <2>2 DEF GetSticker, Done, Now
    <3> HIDE DEF w
    <3> QED  BY <1>0, <2>1, <3>1, <3>2, RequestMoves
  <2>3. CASE q.op = "add"
    <3>1. v \in Numbers \union {Word, Absent}
      BY <2>1 DEF StickersInv
    <3>2. AsNumber(v) \in Numbers /\ q.value \in Numbers
      BY <2>1, <2>3, <3>1, StickersConstants DEF AsNumber, Asked, Numbers
    <3>3. \A n \in Sum(AsNumber(v), q.value) : n \in Numbers
      BY <3>2, SumInWidth
    <3>4. ASSUME NEW n \in Numbers  PROVE r(n) \in Request /\ Asked(r(n)) /\ r(n).at # "notify"
      BY <2>1 DEF Request, Asked
    <3>5. \/ request' = [request EXCEPT ![c] = NoRequest]
          \/ \E n \in Sum(AsNumber(v), q.value) : request' = [request EXCEPT ![c] = r(n)]
      BY <1>3, <2>3 DEF GetSticker, Done
    <3> HIDE DEF r
    <3> QED  BY <1>0, <2>1, <3>3, <3>4, <3>5, RequestMoves
  <2> QED  BY <2>1, <2>2, <2>3
<1>4. ASSUME NEW c \in StickerClients, WriteSticker(c)  PROVE StickersInv'
  <2>1. CASE Done(c) /\ UNCHANGED <<kept, unseen, told>>
    <3>1. request[c].at = "write" /\ UNCHANGED library
      BY <1>4 DEF WriteSticker
    <3> QED  BY <1>0, <2>1, <3>1, RequestMoves DEF Done
  <2>2. CASE /\ kept' = Written(request[c]) /\ Now(c, "notify")
             /\ unseen' = [unseen EXCEPT ![c] = TRUE]
    <3> DEFINE q == request[c]
               r == [q EXCEPT !.at = "notify"]
    <3>1. q \in Request /\ Asked(q) /\ q.at = "write" /\ UNCHANGED library
      BY <1>4 DEF WriteSticker, StickersInv
    <3>2. kept' \in [StickerSongs \X StickerNames -> Numbers \union {Word, Absent}]
      <4>1. CASE q.op = "set"
        BY <2>2, <4>1, <3>1 DEF Written, StickersInv, Request
      <4>2. CASE q.op = "add"
        BY <2>2, <4>2, <3>1 DEF Written, StickersInv, Request
      <4>3. CASE q.op \notin {"set", "add"}
        BY <2>2, <4>3, <3>1 DEF Written, StickersInv
      <4> QED  BY <4>1, <4>2, <4>3
    <3>3. r \in Request /\ Asked(r) /\ r.at = "notify"
      BY <3>1 DEF Request, Asked
    <3>4. /\ request' \in [StickerClients -> Request]
          /\ \A d \in StickerClients : request'[d] = IF d = c THEN r ELSE request[d]
      BY <2>2, <3>3 DEF Now, StickersInv
    <3>5. /\ unseen' \in [StickerClients -> BOOLEAN]
          /\ \A d \in StickerClients : unseen'[d] = IF d = c THEN TRUE ELSE unseen[d]
      BY <2>2 DEF StickersInv
    <3> QED  BY <3>1, <3>2, <3>3, <3>4, <3>5 DEF StickersInv, StickersTold
  <2> QED  BY <1>4, <2>1, <2>2 DEF WriteSticker
<1>5. ASSUME NEW c \in StickerClients, Notify(c)  PROVE StickersInv'
  <2>1. /\ request' \in [StickerClients -> Request]
        /\ \A d \in StickerClients : request'[d] = IF d = c THEN NoRequest ELSE request[d]
    BY <1>0, <1>5 DEF Notify, Done, StickersInv
  <2>2. /\ unseen' \in [StickerClients -> BOOLEAN]
        /\ \A d \in StickerClients : unseen'[d] = IF d = c THEN FALSE ELSE unseen[d]
    BY <1>5 DEF Notify, StickersInv
  <2> QED  BY <1>0, <1>5, <2>1, <2>2 DEF Notify, StickersInv, StickersTold
<1>6. ASSUME NEW s \in StickerSongs, ForgetSong(s)  PROVE StickersInv'
  BY <1>6 DEF ForgetSong, StickersInv, StickersTold
<1>7. CASE UNCHANGED stickervars
  BY <1>7 DEF stickervars, StickersInv, StickersTold
<1>8. CASE StickersNext
  <2>1. Deltas \subseteq Numbers /\ 0 \in Numbers
    BY StickersConstants DEF Numbers
  <2> QED  BY <1>1, <1>2, <1>3, <1>4, <1>5, <1>6, <1>8, <2>1 DEF StickersNext
<1> QED  BY <1>7, <1>8

\* Whatever set, inc, dec and delete of any number of clients interleave, whichever of
\* their statements fail: every value is a word or in the width of an i32, and a change
\* that no listener was told of yet has its event, or another's, still to come.
THEOREM StickersToldAlways == StickersSpec => [](StickersTypeOK /\ StickersTold)
<1>1. StickersInv => StickersTypeOK /\ StickersTold
  BY DEF StickersInv, StickersTypeOK, Request
<1> QED  BY <1>1, StickersInvInit, StickersStep, PTL DEF StickersSpec

-----------------------------------------------------------------------------
(* Partitions and outputs.                                                 *)

\* Two sequences joined, element by element.
LEMMA Concatenated ==
  ASSUME NEW S, NEW s \in Seq(S), NEW t \in Seq(S)
  PROVE  /\ s \o t \in Seq(S) /\ Len(s \o t) = Len(s) + Len(t)
         /\ \A k \in 1 .. Len(s) + Len(t) :
              (s \o t)[k] = IF k <= Len(s) THEN s[k] ELSE t[k - Len(s)]
BY ConcatProperties

Doing == [op : {"idle", "scan", "move", "assign", "own", "reconcile", "engine"},
          dev : Devices \union {NoName}, rest : Seq(AllNamed), from : AllNamed \union {NoName},
          dst : Nat, set : SUBSET Devices]

Moves == {"scan", "move", "assign", "own"}

\* The variables' types; a command has an output while it moves it.
Tables ==
  /\ owner \in [Devices -> AllNamed] /\ enabled \in [Devices -> BOOLEAN]
  /\ DOMAIN named \subseteq AllNamed /\ named \in [DOMAIN named -> DOMAIN assigned]
  /\ assigned \in Seq(SUBSET Devices) /\ audible \subseteq Devices
  /\ visiting \in [Connections -> AllNamed] /\ doing \in [Connections -> Doing]
  /\ clashed \subseteq Devices /\ crossed \in BOOLEAN
  /\ \A c \in Connections :
       /\ IF doing[c].op \in Moves THEN doing[c].dev \in Devices ELSE doing[c].dev = NoName
       /\ doing[c].op = "assign" => doing[c].dst \in DOMAIN assigned

\* Names have objects of their own, and are listed once each.
ListedOnce ==
  /\ \A m, n \in DOMAIN named : named[m] = named[n] => m = n
  /\ HasPartition(Default)
  /\ order \in Seq(AllNamed)
  /\ \A i, j \in 1 .. Len(order) : order[i] = order[j] => i = j
  /\ \A i \in 1 .. Len(order) : order[i] \in DOMAIN named
  /\ \A n \in DOMAIN named : \E i \in 1 .. Len(order) : order[i] = n
  /\ IsFiniteSet(DOMAIN named) /\ Len(order) = Cardinality(DOMAIN named)

\* The output is on its owner's list and no other; at first it is on none.
AtRest(d) == Owners(d) \subseteq {owner[d]} /\ (owner[d] = Default \/ owner[d] \in Owners(d))

\* It has left a list, or joined one, and its owner is still to be written.
Carried(d) == \E c \in Connections : doing[c].op \in {"assign", "own"} /\ doing[c].dev = d

\* What a move knows at each of its steps.
OnTheMove(c) ==
  LET m == doing[c]  to == visiting[c]
  IN  /\ m.op = "scan" => /\ m.from = NoName
                         /\ \A n \in Owners(m.dev) : \E i \in 1 .. Len(m.rest) : m.rest[i] = n
      /\ m.op = "move" => IF m.from = NoName THEN Owners(m.dev) = {} ELSE m.from \in Owners(m.dev)
      /\ m.op = "assign" => Owners(m.dev) = {} /\ HasPartition(to) /\ m.dst = named[to]
      /\ m.op = "own" => Owners(m.dev) = {to}

\* At rest, or on the move by one command that knows where it is.
Tended(d) ==
  /\ \A c, e \in Connections : doing[c].dev = d /\ doing[e].dev = d => c = e
  /\ Carried(d) \/ AtRest(d)
  /\ \A c \in Connections : doing[c].dev = d => OnTheMove(c)

Owned == \A d \in Devices \ clashed : Tended(d)

On == {d \in Devices : enabled[d]}

\* The engine plays to the enabled outputs, or a toggle is on its way to tell it.
Followed ==
  /\ EngineFollows
  /\ ~crossed => \A c \in Connections : doing[c].op = "engine" => doing[c].set = On

PartitionsInv == Tables /\ ListedOnce /\ Owned /\ Followed

-----------------------------------------------------------------------------
LEMMA IdlingIsDoing ==
  Idling \in Doing /\ Idling.op = "idle" /\ Idling.from = NoName /\ Idling.dev = NoName
BY DEF Idling, Doing

LEMMA PartitionsInvInit == PartitionsInit => PartitionsInv
<1> SUFFICES ASSUME PartitionsInit  PROVE PartitionsInv
  OBVIOUS
<1>1. Idling \in Doing /\ Idling.op = "idle" /\ Idling.dev = NoName
  BY IdlingIsDoing
<1>2. /\ \A c \in Connections : doing[c] = Idling
      /\ doing \in [Connections -> Doing] /\ visiting \in [Connections -> AllNamed]
  BY <1>1 DEF PartitionsInit, AllNamed
<1>3. /\ DOMAIN named = {Default} /\ named[Default] = 1 /\ order = <<Default>> /\ assigned = <<{}>>
      /\ assigned \in Seq(SUBSET Devices) /\ DOMAIN assigned = {1} /\ assigned[1] = {}
      /\ named \in [DOMAIN named -> DOMAIN assigned] /\ Default \in AllNamed
  BY DEF PartitionsInit, AllNamed
<1>4. Tables
  BY <1>1, <1>2, <1>3 DEF Tables, PartitionsInit, Moves
<1>5. ListedOnce
  <2>1. IsFiniteSet(DOMAIN named) /\ Cardinality(DOMAIN named) = 1
    <3>1. IsFiniteSet({Default}) /\ Cardinality({Default}) = 1
      BY FS_Singleton
    <3> QED  BY <1>3, <3>1
  <2>2. order \in Seq(AllNamed) /\ Len(order) = 1 /\ order[1] = Default
    BY <1>3
  <2> QED  BY <1>3, <2>1, <2>2 DEF ListedOnce, HasPartition
<1>6. \A d \in Devices : AtRest(d)
  BY <1>3 DEF AtRest, Owners, HasPartition, PartitionsInit
<1>7. Owned
  BY <1>1, <1>2, <1>6, PartitionConstants DEF Owned, Tended
<1>8. Followed
  BY <1>1, <1>2 DEF Followed, EngineFollows, PartitionsInit
<1> QED  BY <1>4, <1>5, <1>7, <1>8 DEF PartitionsInv

\* t is s without the name at i.
ListedWithout(t, s, i, S) ==
  /\ t \in Seq(S) /\ Len(t) = Len(s) - 1
  /\ \A j, k \in 1 .. Len(t) : t[j] = t[k] => j = k
  /\ \A j \in 1 .. Len(t) : \E k \in 1 .. Len(s) : t[j] = s[k] /\ k # i
  /\ \A k \in 1 .. Len(s) : k # i => \E j \in 1 .. Len(t) : t[j] = s[k]

\* An index taken out of a list of names that are listed once.
LEMMA Unlisted ==
  ASSUME NEW S, NEW s \in Seq(S), NEW i \in 1 .. Len(s),
         \A j, k \in 1 .. Len(s) : s[j] = s[k] => j = k
  PROVE  ListedWithout(RemoveAt(s, i), s, i, S)
<1> DEFINE t == RemoveAt(s, i)
<1>1. /\ t \in Seq(S) /\ Len(t) = Len(s) - 1
      /\ \A j \in 1 .. Len(s) - 1 : t[j] = IF j < i THEN s[j] ELSE s[j + 1]
  <2> DEFINE l == SubSeq(s, 1, i - 1)
             r == SubSeq(s, i + 1, Len(s))
  <2>1. l \in Seq(S) /\ Len(l) = i - 1 /\ \A k \in 1 .. i - 1 : l[k] = s[k]
    OBVIOUS
  <2>2. /\ r \in Seq(S) /\ Len(r) = Len(s) - i
        /\ \A k \in 1 .. Len(s) - i : r[k] = s[i + k]
    OBVIOUS
  <2>3. t = l \o r
    BY DEF RemoveAt
  <2> HIDE DEF l, r
  <2>4. /\ l \o r \in Seq(S) /\ Len(l \o r) = Len(l) + Len(r)
        /\ \A j \in 1 .. Len(l) + Len(r) :
             (l \o r)[j] = IF j <= Len(l) THEN l[j] ELSE r[j - Len(l)]
    <3>1. l \in Seq(S) /\ r \in Seq(S)
      BY <2>1, <2>2
    <3> QED  BY <3>1, Concatenated
  <2>5. /\ t \in Seq(S) /\ Len(t) = Len(s) - 1
        /\ \A j \in 1 .. Len(s) - 1 : t[j] = IF j <= i - 1 THEN l[j] ELSE r[j - (i - 1)]
    <3>1. Len(l) + Len(r) = Len(s) - 1
      BY <2>1, <2>2
    <3> QED  BY <2>1, <2>3, <2>4, <3>1
  <2>6. ASSUME NEW j \in 1 .. Len(s) - 1  PROVE t[j] = IF j < i THEN s[j] ELSE s[j + 1]
    <3>1. CASE j < i
      BY <2>1, <2>5, <3>1
    <3>2. CASE ~(j < i)
      <4>1. j - (i - 1) \in 1 .. Len(s) - i /\ i + (j - (i - 1)) = j + 1 /\ ~(j <= i - 1)
        BY <3>2
      <4> QED  BY <2>2, <2>5, <3>2, <4>1
    <3> QED  BY <3>1, <3>2
  <2> QED  BY <2>5, <2>6
<1>2. \A k \in 1 .. Len(s) : k # i => \E j \in 1 .. Len(t) : t[j] = s[k]
  <2> SUFFICES ASSUME NEW k \in 1 .. Len(s), k # i  PROVE \E j \in 1 .. Len(t) : t[j] = s[k]
    OBVIOUS
  <2>1. CASE k < i
    BY <1>1, <2>1
  <2>2. CASE k > i
    <3>1. k - 1 \in 1 .. Len(t) /\ t[k - 1] = s[k]
      BY <1>1, <2>2
    <3> QED  BY <3>1
  <2> QED  BY <2>1, <2>2
<1>3. \A j \in 1 .. Len(t) : \E k \in 1 .. Len(s) : t[j] = s[k] /\ k # i /\ k = (IF j < i THEN j ELSE j + 1)
  BY <1>1
<1>4. \A j, k \in 1 .. Len(t) : t[j] = t[k] => j = k
  BY <1>3
<1> QED  BY <1>1, <1>2, <1>3, <1>4 DEF ListedWithout

\* One connection goes on; the lists and the owners stay.
LEMMA CommandGoesOn ==
  ASSUME PartitionsInv, NEW c \in Connections, NEW r \in Doing, doing' = [doing EXCEPT ![c] = r]
  PROVE  /\ doing' \in [Connections -> Doing] /\ doing'[c] = r
         /\ \A e \in Connections : e # c => doing'[e] = doing[e]
BY DEF PartitionsInv, Tables

\* An output whose lists, owner and moves stay as they are, and the target of its move.
LEMMA Untouched ==
  ASSUME NEW d \in Devices, Tended(d), Owners(d)' = Owners(d), owner'[d] = owner[d],
         \A c \in Connections :
           /\ doing[c].dev = d \/ doing'[c].dev = d =>
                doing'[c] = doing[c] /\ visiting'[c] = visiting[c]
           /\ doing[c].dev = d /\ doing[c].op = "assign" /\ HasPartition(visiting[c])
              /\ doing[c].dst = named[visiting[c]] =>
                visiting[c] \in DOMAIN named' /\ named'[visiting[c]] = named[visiting[c]]
  PROVE  Tended(d)'
<1>1. AtRest(d) => AtRest(d)'
  BY DEF AtRest
<1>2. Carried(d) => Carried(d)'
  BY DEF Carried
<1>3. ASSUME NEW c \in Connections, doing'[c].dev = d  PROVE OnTheMove(c)'
  <2>1. /\ doing'[c] = doing[c] /\ visiting'[c] = visiting[c] /\ doing[c].dev = d /\ OnTheMove(c)
    BY <1>3 DEF Tended
  <2>2. doing[c].op = "assign" => HasPartition(visiting[c])' /\ named'[visiting[c]] = named[visiting[c]]
    BY <2>1 DEF OnTheMove, HasPartition
  <2> QED  BY <2>1, <2>2 DEF OnTheMove
<1> QED  BY <1>1, <1>2, <1>3 DEF Tended

\* The lists, their objects and what moves stay as they are.
Unmoved ==
  /\ UNCHANGED <<owner, named, order, assigned, visiting, clashed>>
  /\ \A c \in Connections :
       doing'[c] = doing[c] \/ (doing[c].dev = NoName /\ doing'[c].dev = NoName)

LEMMA UnmovedKeeps ==
  ASSUME PartitionsInv, Unmoved  PROVE ListedOnce' /\ Owned'
<1>1. ListedOnce'
  BY DEF Unmoved, PartitionsInv, ListedOnce, HasPartition
<1>2. ASSUME NEW d \in Devices \ clashed  PROVE Tended(d)'
  <2>1. Tended(d) /\ Owners(d)' = Owners(d) /\ owner'[d] = owner[d] /\ d # NoName
    BY PartitionConstants DEF PartitionsInv, Owned, Unmoved, Owners
  <2>2. \A c \in Connections :
          /\ doing[c].dev = d \/ doing'[c].dev = d =>
               doing'[c] = doing[c] /\ visiting'[c] = visiting[c]
          /\ HasPartition(visiting[c]) =>
               visiting[c] \in DOMAIN named' /\ named'[visiting[c]] = named[visiting[c]]
    BY <2>1 DEF Unmoved, HasPartition
  <2> QED  BY <2>1, <2>2, Untouched
<1> QED  BY <1>1, <1>2 DEF Owned, Unmoved

-----------------------------------------------------------------------------
(* Toggles.                                                                 *)

LEMMA ToggleKeeps ==
  ASSUME PartitionsInv, NEW c \in Connections, NEW d \in Devices, NEW on \in BOOLEAN,
         SetEnabled(c, d, on)
  PROVE  PartitionsInv'
<1> DEFINE r == [Idling EXCEPT !.op = "reconcile"]
<1>1. r \in Doing /\ r.op = "reconcile" /\ r.dev = NoName
  BY IdlingIsDoing DEF Doing
<1>2. /\ doing' \in [Connections -> Doing] /\ doing'[c] = r
      /\ \A e \in Connections : e # c => doing'[e] = doing[e]
  BY <1>1, CommandGoesOn DEF SetEnabled, Undertake
<1> HIDE DEF r
<1>3. Tables'
  <2>1. crossed' \in BOOLEAN
    BY DEF SetEnabled
  <2> QED  BY <1>1, <1>2, <2>1 DEF SetEnabled, PartitionsInv, Tables, Moves
<1>4. Unmoved
  BY <1>1, <1>2 DEF SetEnabled, Unmoved, At, PartitionsInv, Tables, Moves
<1>5. ASSUME ~crossed', NEW e \in Connections  PROVE doing'[e].op # "engine"
  <2>1. doing[e].op # "engine"
    BY <1>5 DEF SetEnabled, At, Toggling
  <2> QED  BY <1>1, <1>2, <2>1
<1>6. c \in Toggling'
  BY <1>1, <1>2 DEF Toggling
<1>7. Followed'
  BY <1>5, <1>6 DEF Followed, EngineFollows
<1> QED  BY <1>3, <1>4, <1>7, UnmovedKeeps DEF PartitionsInv

LEMMA ReadEnabledKeeps ==
  ASSUME PartitionsInv, NEW c \in Connections, ReadEnabled(c)
  PROVE  PartitionsInv'
<1> DEFINE r == [Idling EXCEPT !.op = "engine", !.set = {d \in Devices : enabled[d]}]
<1>1. r \in Doing /\ r.op = "engine" /\ r.set = On /\ r.dev = NoName
  BY IdlingIsDoing DEF Doing, On
<1>2. /\ doing' \in [Connections -> Doing] /\ doing'[c] = r
      /\ \A e \in Connections : e # c => doing'[e] = doing[e]
  BY <1>1, CommandGoesOn DEF ReadEnabled, Undertake
<1> HIDE DEF r
<1>3. Tables'
  BY <1>1, <1>2 DEF ReadEnabled, At, PartitionsInv, Tables, Moves
<1>4. Unmoved
  BY <1>1, <1>2 DEF ReadEnabled, Unmoved, At, PartitionsInv, Tables, Moves
<1>5. c \in Toggling' /\ On' = On /\ crossed' = crossed
  BY <1>1, <1>2 DEF Toggling, ReadEnabled, On
<1>6. Followed'
  BY <1>1, <1>2, <1>5 DEF PartitionsInv, Followed, EngineFollows
<1> QED  BY <1>3, <1>4, <1>6, UnmovedKeeps DEF PartitionsInv

LEMMA TellEngineKeeps ==
  ASSUME PartitionsInv, NEW c \in Connections, TellEngine(c)
  PROVE  PartitionsInv'
<1>1. Idling \in Doing /\ Idling.op = "idle" /\ Idling.dev = NoName
  BY IdlingIsDoing
<1>2. /\ doing' \in [Connections -> Doing] /\ doing'[c] = Idling
      /\ \A e \in Connections : e # c => doing'[e] = doing[e]
  BY <1>1, CommandGoesOn DEF TellEngine, Finish
<1>3. doing[c].op = "engine" /\ doing[c] \in Doing /\ doing[c].set \subseteq Devices
  <2>1. doing[c].op = "engine" /\ doing[c] \in Doing
    BY DEF TellEngine, At, PartitionsInv, Tables
  <2> QED  BY <2>1 DEF Doing
<1>4. Tables'
  BY <1>1, <1>2, <1>3 DEF TellEngine, PartitionsInv, Tables, Moves
<1>5. Unmoved
  BY <1>1, <1>2, <1>3 DEF TellEngine, Unmoved, PartitionsInv, Tables, Moves
<1>6. /\ On' = On /\ crossed' = crossed
      /\ ~crossed => doing[c].set = On /\ (On # {} => audible' = On)
  BY <1>3 DEF TellEngine, On, PartitionsInv, Followed
<1>7. Followed'
  <2>1. ~crossed' => \A e \in Connections : doing'[e].op = "engine" => doing'[e].set = On'
    BY <1>1, <1>2, <1>6 DEF PartitionsInv, Followed
  <2>2. ~crossed' => (On' # {} => audible' = On')
    BY <1>6
  <2> QED  BY <2>1, <2>2 DEF Followed, EngineFollows, On
<1> QED  BY <1>4, <1>5, <1>7, UnmovedKeeps DEF PartitionsInv

-----------------------------------------------------------------------------
(* Partitions come and go, whoever moves an output.                         *)

\* Lists that come and go empty, a target that goes only where its move has clashed, and
\* a switch of a connection that does not move leave every output as it was.
LEMMA ListsComeAndGo ==
  ASSUME PartitionsInv, UNCHANGED <<owner, doing>>, clashed \subseteq clashed',
         \A d \in Devices : Owners(d)' = Owners(d),
         \A c \in Connections : doing[c].dev # NoName => visiting'[c] = visiting[c],
         \A c \in Connections :
           doing[c].op = "assign" /\ doing[c].dev \notin clashed' /\ HasPartition(visiting[c])
           /\ doing[c].dst = named[visiting[c]] =>
             visiting[c] \in DOMAIN named' /\ named'[visiting[c]] = named[visiting[c]]
  PROVE  Owned'
<1>1. ASSUME NEW d \in Devices \ clashed'  PROVE Tended(d)'
  <2>1. Tended(d) /\ d # NoName
    BY PartitionConstants DEF PartitionsInv, Owned
  <2> QED  BY <2>1, Untouched
<1> QED  BY <1>1 DEF Owned

LEMMA CreateKeeps ==
  ASSUME PartitionsInv, NEW c \in Connections, NEW n \in Names, CreatePartition(c, n)
  PROVE  PartitionsInv'
<1>1. /\ n \notin DOMAIN named /\ n \in AllNamed
      /\ assigned \in Seq(SUBSET Devices) /\ DOMAIN assigned = 1 .. Len(assigned)
      /\ order \in Seq(AllNamed)
      /\ UNCHANGED <<owner, enabled, audible, visiting, doing, clashed, crossed>>
  BY DEF CreatePartition, HasPartition, AllNamed, PartitionsInv, Tables, ListedOnce
<1>2. /\ assigned' \in Seq(SUBSET Devices) /\ Len(assigned') = Len(assigned) + 1
      /\ \A p \in DOMAIN assigned : p \in DOMAIN assigned' /\ assigned'[p] = assigned[p]
      /\ Len(assigned) + 1 \in DOMAIN assigned' /\ assigned'[Len(assigned) + 1] = {}
  BY <1>1 DEF CreatePartition
<1>3. /\ DOMAIN named' = DOMAIN named \union {n} /\ named'[n] = Len(assigned) + 1
      /\ \A m \in DOMAIN named : named'[m] = named[m] /\ named[m] \in 1 .. Len(assigned)
      /\ named' = [m \in DOMAIN named' |-> named'[m]]
  BY <1>1 DEF CreatePartition, PartitionsInv, Tables
<1>4. /\ order' \in Seq(AllNamed) /\ Len(order') = Len(order) + 1 /\ order'[Len(order) + 1] = n
      /\ \A i \in 1 .. Len(order) : order'[i] = order[i]
  BY <1>1 DEF CreatePartition
<1>5. Tables'
  <2>1. named' \in [DOMAIN named' -> DOMAIN assigned'] /\ DOMAIN named' \subseteq AllNamed
    BY <1>1, <1>2, <1>3 DEF PartitionsInv, Tables
  <2> QED  BY <1>1, <1>2, <2>1 DEF PartitionsInv, Tables
<1>6. ListedOnce'
  <2>1. \A l, m \in DOMAIN named' : named'[l] = named'[m] => l = m
    BY <1>1, <1>3 DEF PartitionsInv, ListedOnce
  <2>2. \A i, j \in 1 .. Len(order') : order'[i] = order'[j] => i = j
    BY <1>1, <1>4 DEF PartitionsInv, ListedOnce
  <2>3. /\ \A i \in 1 .. Len(order') : order'[i] \in DOMAIN named'
        /\ \A m \in DOMAIN named' : \E i \in 1 .. Len(order') : order'[i] = m
    <3>1. ASSUME NEW m \in DOMAIN named'  PROVE \E i \in 1 .. Len(order') : order'[i] = m
      <4>1. CASE m = n
        BY <1>1, <1>4, <4>1
      <4>2. CASE m # n
        <5>1. PICK i \in 1 .. Len(order) : order[i] = m
          BY <1>3, <4>2 DEF PartitionsInv, ListedOnce
        <5>2. i \in 1 .. Len(order') /\ order'[i] = m
          BY <1>1, <1>4, <5>1
        <5> QED  BY <5>2
      <4> QED  BY <4>1, <4>2
    <3> QED  BY <1>1, <1>3, <1>4, <3>1 DEF PartitionsInv, ListedOnce
  <2>4. IsFiniteSet(DOMAIN named') /\ Len(order') = Cardinality(DOMAIN named')
    <3>1. IsFiniteSet(DOMAIN named) /\ Len(order) = Cardinality(DOMAIN named) /\ n \notin DOMAIN named
      BY <1>1 DEF PartitionsInv, ListedOnce
    <3>2. IsFiniteSet(DOMAIN named') /\ Cardinality(DOMAIN named') = Cardinality(DOMAIN named) + 1
      BY <1>3, <3>1, FS_AddElement
    <3> QED  BY <1>4, <3>1, <3>2
  <2> QED  BY <1>3, <1>4, <2>1, <2>2, <2>3, <2>4 DEF PartitionsInv, ListedOnce, HasPartition
<1>7. Owned'
  <2>1. \A d \in Devices : Owners(d)' = Owners(d)
    BY <1>1, <1>2, <1>3 DEF Owners
  <2>2. \A e \in Connections : HasPartition(visiting[e]) =>
          visiting[e] \in DOMAIN named' /\ named'[visiting[e]] = named[visiting[e]]
    BY <1>3 DEF HasPartition
  <2> QED  BY <1>1, <2>1, <2>2, ListsComeAndGo
<1>8. Followed'
  BY <1>1 DEF PartitionsInv, Followed, EngineFollows, On, Toggling
<1> QED  BY <1>5, <1>6, <1>7, <1>8 DEF PartitionsInv

LEMMA DeleteKeeps ==
  ASSUME PartitionsInv, NEW c \in Connections, NEW n \in Names, DeletePartition(c, n)
  PROVE  PartitionsInv'
<1> DEFINE lost == {doing[e].dev : e \in {x \in Connections : At(x, "assign") /\ doing[x].dst = named[n]}}
<1>1. /\ n \in DOMAIN named /\ n # Default /\ assigned[named[n]] = {}
      /\ clashed' = clashed \union lost /\ crossed' = crossed
      /\ UNCHANGED <<owner, enabled, assigned, audible, visiting, doing>>
  BY DEF DeletePartition, HasPartition, Endanger
<1>2. /\ DOMAIN named' = DOMAIN named \ {n}
      /\ \A m \in DOMAIN named' : named'[m] = named[m]
      /\ named' = [m \in DOMAIN named' |-> named'[m]]
  BY DEF DeletePartition, NamedWithout
<1>3. PICK i \in 1 .. Len(order) : order[i] = n /\ order' = RemoveAt(order, i)
  BY DEF DeletePartition, PartitionsInv, ListedOnce
<1>4. /\ order' \in Seq(AllNamed) /\ Len(order') = Len(order) - 1
      /\ \A j, k \in 1 .. Len(order') : order'[j] = order'[k] => j = k
      /\ \A j \in 1 .. Len(order') : \E k \in 1 .. Len(order) : order'[j] = order[k] /\ k # i
      /\ \A k \in 1 .. Len(order) : k # i => \E j \in 1 .. Len(order') : order'[j] = order[k]
  <2>1. order \in Seq(AllNamed) /\ \A j, k \in 1 .. Len(order) : order[j] = order[k] => j = k
    BY DEF PartitionsInv, ListedOnce
  <2>2. ListedWithout(RemoveAt(order, i), order, i, AllNamed)
    BY <2>1, Unlisted
  <2>3. ListedWithout(order', order, i, AllNamed)
    BY <1>3, <2>2
  <2> QED  BY <2>3 DEF ListedWithout
<1>5. Tables'
  <2>1. named' \in [DOMAIN named' -> DOMAIN assigned'] /\ DOMAIN named' \subseteq AllNamed
    BY <1>1, <1>2 DEF PartitionsInv, Tables
  <2>2. clashed' \subseteq Devices
    BY <1>1 DEF PartitionsInv, Tables, At, Moves
  <2> HIDE DEF lost
  <2> QED  BY <1>1, <2>1, <2>2 DEF PartitionsInv, Tables
<1>6. ListedOnce'
  <2>1. \A l, m \in DOMAIN named' : named'[l] = named'[m] => l = m
    BY <1>2 DEF PartitionsInv, ListedOnce
  <2>2. \A j \in 1 .. Len(order') : order'[j] \in DOMAIN named'
    BY <1>2, <1>3, <1>4 DEF PartitionsInv, ListedOnce
  <2>3. \A m \in DOMAIN named' : \E j \in 1 .. Len(order') : order'[j] = m
    BY <1>2, <1>3, <1>4 DEF PartitionsInv, ListedOnce
  <2>4. IsFiniteSet(DOMAIN named') /\ Len(order') = Cardinality(DOMAIN named')
    BY <1>1, <1>2, <1>4, FS_RemoveElement DEF PartitionsInv, ListedOnce
  <2> QED  BY <1>1, <1>2, <1>4, <2>1, <2>2, <2>3, <2>4 DEF PartitionsInv, ListedOnce, HasPartition
<1>7. Owned'
  <2>1. ASSUME NEW d \in Devices  PROVE Owners(d)' = Owners(d)
    BY <1>1, <1>2 DEF Owners
  <2>2. ASSUME NEW e \in Connections, doing[e].op = "assign", doing[e].dev \notin clashed',
               HasPartition(visiting[e]), doing[e].dst = named[visiting[e]]
        PROVE  visiting[e] \in DOMAIN named' /\ named'[visiting[e]] = named[visiting[e]]
    <3>1. doing[e].dst # named[n]
      BY <1>1, <2>2 DEF At
    <3> QED  BY <1>2, <2>2, <3>1 DEF HasPartition
  <2> HIDE DEF lost
  <2> QED  BY <1>1, <2>1, <2>2, ListsComeAndGo
<1>8. Followed'
  BY <1>1 DEF PartitionsInv, Followed, EngineFollows, On, Toggling
<1> QED  BY <1>5, <1>6, <1>7, <1>8 DEF PartitionsInv

LEMMA SwitchKeeps ==
  ASSUME PartitionsInv, NEW c \in Connections, NEW n \in AllNamed, SwitchPartition(c, n)
  PROVE  PartitionsInv'
<1>1. /\ At(c, "idle")
      /\ UNCHANGED <<owner, enabled, named, order, assigned, audible, doing, clashed, crossed>>
      /\ visiting' = [visiting EXCEPT ![c] = n]
  BY DEF SwitchPartition
<1>2. Tables'
  BY <1>1 DEF PartitionsInv, Tables
<1>3. ListedOnce' /\ Followed'
  BY <1>1 DEF PartitionsInv, ListedOnce, HasPartition, Followed, EngineFollows, On, Toggling
<1>4. Owned'
  <2>1. \A e \in Connections : doing[e].dev # NoName => visiting'[e] = visiting[e]
    BY <1>1 DEF PartitionsInv, Tables, At, Moves
  <2>2. \A d \in Devices : Owners(d)' = Owners(d)
    BY <1>1 DEF Owners
  <2>3. \A e \in Connections : HasPartition(visiting[e]) =>
          visiting[e] \in DOMAIN named' /\ named'[visiting[e]] = named[visiting[e]]
    BY <1>1 DEF HasPartition
  <2> QED  BY <1>1, <2>1, <2>2, <2>3, ListsComeAndGo
<1> QED  BY <1>2, <1>3, <1>4 DEF PartitionsInv

-----------------------------------------------------------------------------
(* moveoutput.                                                              *)

\* A step of connection c's move of output x, which is at r after it.
MoverSteps(c, x, r) ==
  /\ doing[c].op \in Moves \union {"idle"} /\ doing[c].dev \in {NoName, x}
  /\ doing' = [doing EXCEPT ![c] = r] /\ r.op \in Moves \union {"idle"}
  /\ r.dev = IF r.op = "idle" THEN NoName ELSE x
  /\ r.op = "assign" => r.dst \in DOMAIN assigned
  /\ UNCHANGED <<enabled, named, order, audible, visiting, crossed>>
  /\ clashed \subseteq clashed' /\ clashed' \subseteq Devices
  /\ owner' \in [Devices -> AllNamed]
  /\ assigned' \in Seq(SUBSET Devices) /\ Len(assigned') = Len(assigned)
  /\ \A d \in Devices : d # x => owner'[d] = owner[d] /\ Owners(d)' = Owners(d)

\* All that does not concern the output it moves goes on.
LEMMA MoverGoesOn ==
  ASSUME PartitionsInv, NEW c \in Connections, NEW x \in Devices, NEW r \in Doing,
         MoverSteps(c, x, r)
  PROVE  /\ Tables' /\ ListedOnce' /\ Followed' /\ doing'[c] = r
         /\ \A e \in Connections : e # c => doing'[e] = doing[e]
         /\ \A d \in Devices \ clashed' : d # x => Tended(d)'
<1>1. /\ doing' \in [Connections -> Doing] /\ doing'[c] = r
      /\ \A e \in Connections : e # c => doing'[e] = doing[e]
  BY CommandGoesOn DEF MoverSteps
<1>2. DOMAIN assigned' = DOMAIN assigned
  BY DEF PartitionsInv, Tables, MoverSteps
<1>3. Tables'
  BY <1>1, <1>2 DEF PartitionsInv, Tables, Moves, MoverSteps
<1>4. ListedOnce'
  BY DEF PartitionsInv, ListedOnce, HasPartition, MoverSteps
<1>5. Toggling' = Toggling
  BY <1>1 DEF Toggling, Moves, MoverSteps
<1>6. Followed'
  BY <1>1, <1>5 DEF PartitionsInv, Followed, EngineFollows, On, Moves, MoverSteps
<1>7. ASSUME NEW d \in Devices \ clashed', d # x  PROVE Tended(d)'
  <2>1. Tended(d) /\ d # NoName
    BY PartitionConstants DEF PartitionsInv, Owned, MoverSteps
  <2>2. \A e \in Connections :
          /\ doing[e].dev = d \/ doing'[e].dev = d =>
               doing'[e] = doing[e] /\ visiting'[e] = visiting[e]
          /\ HasPartition(visiting[e]) =>
               visiting[e] \in DOMAIN named' /\ named'[visiting[e]] = named[visiting[e]]
    BY <1>1, <1>7, <2>1 DEF HasPartition, MoverSteps
  <2>3. Owners(d)' = Owners(d) /\ owner'[d] = owner[d]
    BY <1>7 DEF MoverSteps
  <2> QED  BY <2>1, <2>2, <2>3, Untouched
<1> QED  BY <1>1, <1>3, <1>4, <1>6, <1>7

\* What is left to show: the output that is moved, unless commands met on it.
LEMMA MoverTends ==
  ASSUME Tables', ListedOnce', Followed', NEW c \in Connections, NEW x \in Devices,
         \A d \in Devices \ clashed' : d # x => Tended(d)',
         x \notin clashed' =>
           /\ \A e \in Connections : e # c => doing'[e].dev # x
           /\ (doing'[c].op \in {"assign", "own"} /\ doing'[c].dev = x) \/ AtRest(x)'
           /\ OnTheMove(c)'
  PROVE  PartitionsInv'
<1>1. x \notin clashed' => Tended(x)'
  BY DEF Tended, Carried
<1> QED  BY <1>1 DEF PartitionsInv, Owned

\* An output that nothing clashed on has one mover; until it leaves its list it rests.
LEMMA OnlyMover ==
  ASSUME PartitionsInv, NEW c \in Connections, doing[c].op \in Moves
  PROVE  /\ doing[c] \in Doing /\ doing[c].dev \in Devices
         /\ doing[c].dev \notin clashed =>
              /\ \A e \in Connections : e # c => doing[e].dev # doing[c].dev
              /\ doing[c].op \in {"scan", "move"} => AtRest(doing[c].dev)
              /\ OnTheMove(c)
<1>1. doing[c] \in Doing /\ doing[c].dev \in Devices
  BY DEF PartitionsInv, Tables
<1>2. ASSUME doing[c].dev \notin clashed  PROVE Tended(doing[c].dev)
  BY <1>1, <1>2 DEF PartitionsInv, Owned
<1> QED  BY <1>1, <1>2 DEF Tended, Carried

LEMMA MoveKeeps ==
  ASSUME PartitionsInv, NEW c \in Connections, NEW d \in Devices, MoveOutput(c, d)
  PROVE  PartitionsInv'
<1> DEFINE r == [Idling EXCEPT !.op = "scan", !.dev = d, !.rest = order]
<1>1. /\ At(c, "idle") /\ UNCHANGED <<owner, enabled, named, order, assigned, audible, visiting, crossed>>
      /\ doing' = [doing EXCEPT ![c] = r]
      /\ clashed' = clashed \union (IF Still(d) THEN {} ELSE {d})
  BY DEF MoveOutput, Undertake, Endanger
<1>2. r \in Doing /\ r.op = "scan" /\ r.dev = d /\ r.rest = order /\ r.from = NoName
  BY IdlingIsDoing DEF Doing, PartitionsInv, ListedOnce
<1> HIDE DEF r
<1>3. \A x \in Devices : Owners(x)' = Owners(x) /\ (AtRest(x) => AtRest(x)')
  BY <1>1 DEF Owners, AtRest
<1>4. /\ Tables' /\ ListedOnce' /\ Followed' /\ doing'[c] = r
      /\ \A e \in Connections : e # c => doing'[e] = doing[e]
      /\ \A x \in Devices \ clashed' : x # d => Tended(x)'
  <2>1. MoverSteps(c, d, r)
    BY <1>1, <1>2, <1>3 DEF At, PartitionsInv, Tables, Moves, MoverSteps
  <2>2. d \in Devices /\ r \in Doing
    BY <1>1, <1>2, <1>3
  <2> QED  BY <2>1, <2>2, MoverGoesOn
<1>5. ASSUME d \notin clashed'
      PROVE  (\A e \in Connections : e # c => doing'[e].dev # d) /\ AtRest(d)' /\ OnTheMove(c)'
  <2>1. Still(d) /\ Tended(d)
    BY <1>1, <1>5 DEF PartitionsInv, Owned
  <2>2. AtRest(d)'
    BY <1>3, <2>1 DEF Still, Tended, Carried
  <2>3. OnTheMove(c)'
    BY <1>1, <1>2, <1>3, <1>4 DEF OnTheMove, Owners, PartitionsInv, ListedOnce
  <2> QED  BY <1>4, <2>1, <2>2, <2>3 DEF Still
<1> QED  BY <1>4, <1>5, MoverTends

LEMMA ScanKeeps ==
  ASSUME PartitionsInv, NEW c \in Connections, ScanPartition(c)
  PROVE  PartitionsInv'
<1> DEFINE m == doing[c]
           n == Head(m.rest)
           r == IF m.rest = <<>> THEN [m EXCEPT !.op = "move"]
                ELSE IF HasPartition(n) /\ m.dev \in assigned[named[n]]
                THEN [m EXCEPT !.op = "move", !.from = n] ELSE [m EXCEPT !.rest = Tail(@)]
<1>1. /\ m.op = "scan"
      /\ UNCHANGED <<owner, enabled, named, order, assigned, audible, visiting, clashed, crossed>>
      /\ doing' = [doing EXCEPT ![c] = r]
  BY DEF ScanPartition, Undertake, At
<1>2. m \in Doing /\ m.dev \in Devices
  BY <1>1, OnlyMover DEF Moves
<1>3. /\ r \in Doing /\ r.dev = m.dev
      /\ r.op \in {"scan", "move"}
      /\ r.op = "scan" => /\ r.from = m.from /\ m.rest # <<>> /\ r.rest = Tail(m.rest)
                          /\ n \notin Owners(m.dev)
      /\ r.op = "move" => \/ m.rest = <<>> /\ r.from = m.from
                          \/ m.rest # <<>> /\ r.from = n /\ n \in Owners(m.dev)
  <2>1. CASE m.rest = <<>>
    BY <1>1, <1>2, <2>1 DEF Doing
  <2>2. CASE m.rest # <<>>
    <3>1. n \in AllNamed /\ Tail(m.rest) \in Seq(AllNamed)
      BY <1>2, <2>2 DEF Doing
    <3>2. n \in Owners(m.dev) <=> HasPartition(n) /\ m.dev \in assigned[named[n]]
      BY DEF Owners, HasPartition
    <3> HIDE DEF n
    <3> QED  BY <1>1, <1>2, <2>2, <3>1, <3>2 DEF Doing
  <2> QED  BY <2>1, <2>2
<1> HIDE DEF r
<1>4. \A x \in Devices : Owners(x)' = Owners(x) /\ (AtRest(x) => AtRest(x)')
  BY <1>1 DEF Owners, AtRest
<1>5. /\ Tables' /\ ListedOnce' /\ Followed' /\ doing'[c] = r
      /\ \A e \in Connections : e # c => doing'[e] = doing[e]
      /\ \A x \in Devices \ clashed' : x # m.dev => Tended(x)'
  <2>1. MoverSteps(c, m.dev, r)
    BY <1>1, <1>2, <1>3, <1>4 DEF PartitionsInv, Tables, Moves, MoverSteps
  <2>2. m.dev \in Devices /\ r \in Doing
    BY <1>1, <1>2, <1>3, <1>4
  <2> QED  BY <2>1, <2>2, MoverGoesOn
<1>6. ASSUME m.dev \notin clashed
      PROVE  /\ \A e \in Connections : e # c => doing[e].dev # m.dev
             /\ AtRest(m.dev) /\ m.from = NoName
             /\ \A x \in Owners(m.dev) : \E i \in 1 .. Len(m.rest) : m.rest[i] = x
  BY <1>1, <1>6, OnlyMover DEF OnTheMove, Moves
<1>7. ASSUME m.dev \notin clashed  PROVE OnTheMove(c)'
  <2>1. m.rest \in Seq(AllNamed)
    BY <1>2 DEF Doing
  <2>2. CASE r.op = "scan"
    <3>1. ASSUME NEW x \in Owners(m.dev)  PROVE \E i \in 1 .. Len(r.rest) : r.rest[i] = x
      <4>1. PICK i \in 1 .. Len(m.rest) : m.rest[i] = x
        BY <1>6, <1>7
      <4>2. i # 1 /\ m.rest # <<>> /\ r.rest = Tail(m.rest)
        BY <1>3, <2>1, <2>2, <4>1
      <4>3. i - 1 \in 1 .. Len(r.rest) /\ r.rest[i - 1] = m.rest[i]
        BY <2>1, <4>2
      <4> QED  BY <4>1, <4>3
    <3> QED  BY <1>3, <1>4, <1>2, <1>5, <1>6, <1>7, <2>2, <3>1 DEF OnTheMove
  <2>3. CASE r.op = "move"
    <3>1. m.rest = <<>> => Owners(m.dev) = {}
      BY <1>6, <1>7
    <3>2. n # NoName \/ m.rest = <<>>
      BY <2>1, PartitionConstants DEF AllNamed
    <3> QED  BY <1>2, <1>3, <1>4, <1>5, <1>6, <1>7, <2>3, <3>1, <3>2 DEF OnTheMove
  <2> QED  BY <1>3, <2>2, <2>3
<1> QED  BY <1>1, <1>2, <1>4, <1>5, <1>6, <1>7, MoverTends

\* The output leaves the list it was found on, if any, or the command fails.
LEMMA LeaveKeeps ==
  ASSUME PartitionsInv, NEW c \in Connections, LeaveSource(c)
  PROVE  PartitionsInv'
<1> DEFINE m == doing[c]
           to == visiting[c]
           r == [m EXCEPT !.op = "assign", !.dst = named[to]]
<1>1. m.op = "move" /\ UNCHANGED <<owner, enabled, named, order, audible, visiting, clashed, crossed>>
  BY DEF LeaveSource, At
<1>2. /\ m \in Doing /\ m.dev \in Devices
      /\ m.dev \notin clashed =>
           /\ \A e \in Connections : e # c => doing[e].dev # m.dev
           /\ AtRest(m.dev)
           /\ IF m.from = NoName THEN Owners(m.dev) = {} ELSE m.from \in Owners(m.dev)
  BY <1>1, OnlyMover DEF OnTheMove, Moves
<1>3. CASE Finish(c) /\ UNCHANGED assigned
  <2>1. \A x \in Devices : Owners(x)' = Owners(x) /\ (AtRest(x) => AtRest(x)')
    BY <1>1, <1>3 DEF Owners, AtRest
  <2>2. /\ Tables' /\ ListedOnce' /\ Followed' /\ doing'[c] = Idling
        /\ \A e \in Connections : e # c => doing'[e] = doing[e]
        /\ \A x \in Devices \ clashed' : x # m.dev => Tended(x)'
    <3>1. MoverSteps(c, m.dev, Idling)
      BY <1>1, <1>2, <1>3, <2>1, IdlingIsDoing DEF Finish, PartitionsInv, Tables, Moves, MoverSteps
    <3>2. m.dev \in Devices /\ Idling \in Doing
      BY <1>2, IdlingIsDoing
    <3> QED  BY <3>1, <3>2, MoverGoesOn
  <2>3. OnTheMove(c)'
    BY <2>2, IdlingIsDoing DEF OnTheMove
  <2> QED  BY <1>1, <1>2, <2>1, <2>2, <2>3, MoverTends
<1>4. CASE /\ HasPartition(to)
           /\ m.from = NoName \/ (HasPartition(m.from) /\ m.dev \in assigned[named[m.from]])
           /\ assigned' = IF m.from = NoName THEN assigned
                          ELSE [assigned EXCEPT ![named[m.from]] = @ \ {m.dev}]
           /\ Undertake(c, r)
  <2>1. /\ named[to] \in DOMAIN assigned /\ DOMAIN assigned = 1 .. Len(assigned)
        /\ assigned \in Seq(SUBSET Devices)
        /\ \A x \in DOMAIN named : named[x] \in DOMAIN assigned
    BY <1>4 DEF PartitionsInv, Tables, HasPartition
  <2>2. r \in Doing /\ r.op = "assign" /\ r.dev = m.dev /\ r.dst = named[to]
    <3>1. named[to] \in Nat
      BY <2>1
    <3> DEFINE k == named[to]
               q == [m EXCEPT !.op = "assign", !.dst = k]
    <3>2. k \in Nat
      BY <3>1
    <3> HIDE DEF k
    <3>3. q \in Doing /\ q.op = "assign" /\ q.dev = m.dev /\ q.dst = k
      BY <1>2, <3>2 DEF Doing
    <3> QED  BY <3>3 DEF k
  <2> HIDE DEF r
  <2>3. /\ assigned' \in Seq(SUBSET Devices) /\ Len(assigned') = Len(assigned)
        /\ \A p \in DOMAIN assigned : \A d : d # m.dev => (d \in assigned'[p] <=> d \in assigned[p])
        /\ \A p \in DOMAIN assigned : m.dev \in assigned'[p] => m.dev \in assigned[p]
        /\ m.from # NoName => m.dev \notin assigned'[named[m.from]]
    <3>1. CASE m.from = NoName
      BY <1>4, <2>1, <3>1
    <3>2. CASE m.from # NoName
      <4>1. named[m.from] \in DOMAIN assigned
        BY <1>4, <2>1, <3>2 DEF HasPartition
      <4>2. /\ assigned' = [assigned EXCEPT ![named[m.from]] = @ \ {m.dev}]
            /\ assigned[named[m.from]] \ {m.dev} \in SUBSET Devices
        BY <1>4, <2>1, <3>2, <4>1
      <4> QED  BY <2>1, <4>1, <4>2
    <3> QED  BY <3>1, <3>2
  <2>4. \A d \in Devices : d # m.dev => owner'[d] = owner[d] /\ Owners(d)' = Owners(d)
    BY <1>1, <2>1, <2>3 DEF Owners
  <2>5. /\ Tables' /\ ListedOnce' /\ Followed' /\ doing'[c] = r
        /\ \A e \in Connections : e # c => doing'[e] = doing[e]
        /\ \A x \in Devices \ clashed' : x # m.dev => Tended(x)'
    <3>1. MoverSteps(c, m.dev, r)
      BY <1>1, <1>2, <1>4, <2>1, <2>2, <2>3, <2>4 DEF Undertake, PartitionsInv, Tables, Moves, MoverSteps
    <3>2. m.dev \in Devices /\ r \in Doing
      BY <1>1, <1>2, <1>4, <2>1, <2>2, <2>3, <2>4
    <3> QED  BY <3>1, <3>2, MoverGoesOn
  <2>6. ASSUME m.dev \notin clashed  PROVE \A x \in DOMAIN named : m.dev \notin assigned'[named[x]]
    <3>1. CASE m.from = NoName
      BY <1>2, <2>1, <2>3, <2>6, <3>1 DEF Owners
    <3>2. CASE m.from # NoName
      <4>1. \A x \in Owners(m.dev) : x = m.from
        BY <1>2, <2>6, <3>2 DEF AtRest
      <4> QED  BY <2>1, <2>3, <3>2, <4>1 DEF Owners
    <3> QED  BY <3>1, <3>2
  <2>7. ASSUME m.dev \notin clashed  PROVE OnTheMove(c)'
    BY <1>1, <1>4, <2>2, <2>5, <2>6, <2>7 DEF OnTheMove, Owners, HasPartition
  <2> QED  BY <1>1, <1>2, <2>2, <2>5, <2>7, MoverTends
<1> QED  BY <1>3, <1>4 DEF LeaveSource

LEMMA JoinKeeps ==
  ASSUME PartitionsInv, NEW c \in Connections, JoinTarget(c)
  PROVE  PartitionsInv'
<1> DEFINE m == doing[c]
           to == visiting[c]
           r == [m EXCEPT !.op = "own"]
<1>1. /\ m.op = "assign"
      /\ UNCHANGED <<owner, enabled, named, order, audible, visiting, clashed, crossed>>
      /\ assigned' = [assigned EXCEPT ![m.dst] = @ \union {m.dev}]
      /\ doing' = [doing EXCEPT ![c] = r]
  BY DEF JoinTarget, At, Undertake
<1>2. /\ m \in Doing /\ m.dev \in Devices
      /\ m.dev \notin clashed =>
           /\ \A e \in Connections : e # c => doing[e].dev # m.dev
           /\ Owners(m.dev) = {} /\ HasPartition(to) /\ m.dst = named[to]
  BY <1>1, OnlyMover DEF OnTheMove, Moves
<1>3. /\ assigned \in Seq(SUBSET Devices) /\ m.dst \in DOMAIN assigned
      /\ \A x \in DOMAIN named : named[x] \in DOMAIN assigned
  BY <1>1 DEF PartitionsInv, Tables
<1>4. r \in Doing /\ r.op = "own" /\ r.dev = m.dev
  BY <1>2 DEF Doing
<1> HIDE DEF r
<1>5. /\ assigned' \in Seq(SUBSET Devices) /\ Len(assigned') = Len(assigned)
      /\ \A p \in DOMAIN assigned : assigned'[p] = IF p = m.dst THEN assigned[p] \union {m.dev} ELSE assigned[p]
  <2> DEFINE b == assigned[m.dst] \union {m.dev}
  <2>1. b \in SUBSET Devices /\ assigned' = [assigned EXCEPT ![m.dst] = b]
    BY <1>1, <1>2, <1>3
  <2> HIDE DEF b
  <2>2. /\ assigned' \in Seq(SUBSET Devices) /\ Len(assigned') = Len(assigned)
        /\ \A p \in DOMAIN assigned : assigned'[p] = IF p = m.dst THEN b ELSE assigned[p]
    BY <1>3, <2>1
  <2> QED  BY <2>2 DEF b
<1>6. \A d \in Devices : d # m.dev => owner'[d] = owner[d] /\ Owners(d)' = Owners(d)
  BY <1>1, <1>3, <1>5 DEF Owners
<1>7. /\ Tables' /\ ListedOnce' /\ Followed' /\ doing'[c] = r
      /\ \A e \in Connections : e # c => doing'[e] = doing[e]
      /\ \A x \in Devices \ clashed' : x # m.dev => Tended(x)'
  <2>1. MoverSteps(c, m.dev, r)
    BY <1>1, <1>2, <1>4, <1>5, <1>6 DEF PartitionsInv, Tables, Moves, MoverSteps
  <2>2. m.dev \in Devices /\ r \in Doing
    BY <1>1, <1>2, <1>4, <1>5, <1>6
  <2> QED  BY <2>1, <2>2, MoverGoesOn
<1>8. ASSUME m.dev \notin clashed  PROVE OnTheMove(c)'
  <2>1. \A x \in DOMAIN named : named[x] = m.dst <=> x = to
    BY <1>2, <1>8 DEF PartitionsInv, ListedOnce, HasPartition
  <2>2. \A x \in DOMAIN named : m.dev \in assigned'[named[x]] <=> x = to
    BY <1>2, <1>3, <1>5, <1>8, <2>1 DEF Owners
  <2> QED  BY <1>1, <1>2, <1>4, <1>7, <1>8, <2>2 DEF OnTheMove, Owners, HasPartition
<1> QED  BY <1>1, <1>2, <1>4, <1>7, <1>8, MoverTends

LEMMA OwnKeeps ==
  ASSUME PartitionsInv, NEW c \in Connections, WriteOwner(c)
  PROVE  PartitionsInv'
<1> DEFINE m == doing[c]
           to == visiting[c]
<1>1. /\ m.op = "own" /\ UNCHANGED <<enabled, named, order, assigned, audible, visiting, clashed, crossed>>
      /\ owner' = [owner EXCEPT ![m.dev] = to]
      /\ doing' = [doing EXCEPT ![c] = Idling]
  BY DEF WriteOwner, At, Finish
<1>2. /\ m \in Doing /\ m.dev \in Devices
      /\ m.dev \notin clashed =>
           (\A e \in Connections : e # c => doing[e].dev # m.dev) /\ Owners(m.dev) = {to}
  BY <1>1, OnlyMover DEF OnTheMove, Moves
<1>3. /\ owner' \in [Devices -> AllNamed]
      /\ \A d \in Devices : owner'[d] = IF d = m.dev THEN to ELSE owner[d]
  BY <1>1, <1>2 DEF PartitionsInv, Tables
<1>4. \A d \in Devices : Owners(d)' = Owners(d)
  BY <1>1 DEF Owners
<1>5. /\ Tables' /\ ListedOnce' /\ Followed' /\ doing'[c] = Idling
      /\ \A e \in Connections : e # c => doing'[e] = doing[e]
      /\ \A x \in Devices \ clashed' : x # m.dev => Tended(x)'
  <2>1. MoverSteps(c, m.dev, Idling)
    BY <1>1, <1>2, <1>3, <1>4, IdlingIsDoing DEF PartitionsInv, Tables, Moves, MoverSteps
  <2>2. m.dev \in Devices /\ Idling \in Doing
    BY <1>2, IdlingIsDoing
  <2> QED  BY <2>1, <2>2, MoverGoesOn
<1>6. PICK x \in Devices : x = m.dev
  BY <1>2
<1>8. x \notin clashed => AtRest(x)'
  BY <1>1, <1>2, <1>3, <1>4, <1>6 DEF AtRest
<1>7. OnTheMove(c)'
  BY <1>5, IdlingIsDoing DEF OnTheMove
<1> QED  BY <1>1, <1>2, <1>5, <1>6, <1>7, <1>8, MoverTends

LEMMA PartitionsStep ==
  ASSUME PartitionsInv, [PartitionsNext]_partvars
  PROVE  PartitionsInv'
<1>1. CASE UNCHANGED partvars
  <2>1. Unmoved
    BY <1>1 DEF partvars, Unmoved
  <2> QED  BY <1>1, <2>1, UnmovedKeeps DEF partvars, PartitionsInv, Tables, Followed, EngineFollows, On, Toggling
<1>2. CASE PartitionsNext
  <2>1. \A c \in Connections : \A n \in Names :
          CreatePartition(c, n) \/ DeletePartition(c, n) => PartitionsInv'
    BY CreateKeeps, DeleteKeeps
  <2>2. \A c \in Connections : \A n \in AllNamed : SwitchPartition(c, n) => PartitionsInv'
    BY SwitchKeeps
  <2>3. \A c \in Connections : \A d \in Devices :
          MoveOutput(c, d) \/ (\E on \in BOOLEAN : SetEnabled(c, d, on)) => PartitionsInv'
    BY MoveKeeps, ToggleKeeps
  <2>4. \A c \in Connections :
          ScanPartition(c) \/ LeaveSource(c) \/ JoinTarget(c) \/ WriteOwner(c) => PartitionsInv'
    BY ScanKeeps, LeaveKeeps, JoinKeeps, OwnKeeps
  <2>5. \A c \in Connections : ReadEnabled(c) \/ TellEngine(c) => PartitionsInv'
    BY ReadEnabledKeeps, TellEngineKeeps
  <2> QED  BY <1>2, <2>1, <2>2, <2>3, <2>4, <2>5 DEF PartitionsNext
<1> QED  BY <1>1, <1>2

\* An output nothing clashed on is on one list at most, at rest or on the move.
LEMMA OwnedByOne ==
  ASSUME PartitionsInv  PROVE OutputsOwned
<1>1. ASSUME NEW d \in Devices \ clashed  PROVE Cardinality(Owners(d)) <= 1
  <2>1. PICK x : Owners(d) \subseteq {x}
    <3>1. CASE AtRest(d)
      BY <3>1 DEF AtRest
    <3>2. CASE Carried(d)
      <4>1. PICK c \in Connections : doing[c].op \in {"assign", "own"} /\ doing[c].dev = d
        BY <3>2 DEF Carried
      <4>2. Owners(d) = {} \/ Owners(d) = {visiting[c]}
        BY <4>1 DEF PartitionsInv, Owned, Tended, OnTheMove
      <4> QED  BY <4>2
    <3> QED  BY <3>1, <3>2 DEF PartitionsInv, Owned, Tended
  <2>2. Owners(d) = {} \/ Owners(d) = {x}
    BY <2>1
  <2>3. Cardinality({}) = 0 /\ Cardinality({x}) = 1
    BY FS_EmptySet, FS_Singleton
  <2> QED  BY <2>2, <2>3
<1>2. ASSUME NEW d \in Devices \ clashed, Still(d)
      PROVE  HasPartition(owner[d]) /\ Owners(d) \subseteq {owner[d]}
  <2>1. AtRest(d)
    BY <1>2 DEF Still, PartitionsInv, Owned, Tended, Carried
  <2> QED  BY <2>1 DEF AtRest, Owners, HasPartition, PartitionsInv, ListedOnce
<1>3. ToSet(order) = DOMAIN named /\ Len(order) = Cardinality(DOMAIN named)
  <2>1. ToSet(order) = {order[i] : i \in DOMAIN order} /\ DOMAIN order = 1 .. Len(order)
    BY DEF ToSet, PartitionsInv, ListedOnce
  <2>2. /\ \A i \in DOMAIN order : order[i] \in DOMAIN named
        /\ \A n \in DOMAIN named : \E i \in DOMAIN order : order[i] = n
    BY <2>1 DEF PartitionsInv, ListedOnce
  <2>3. \A n : n \in ToSet(order) <=> n \in DOMAIN named
    BY <2>1, <2>2
  <2>4. Len(order) = Cardinality(DOMAIN named)
    BY DEF PartitionsInv, ListedOnce
  <2> QED  BY <2>3, <2>4
<1> QED  BY <1>1, <1>2, <1>3 DEF OutputsOwned

\* However creates, deletes, switches, moves and toggles of any number of clients
\* interleave, for any outputs and names: an output that no two moves met on, and whose
\* target was not deleted under it, belongs to one partition, which exists; and the engine
\* plays to the outputs that are enabled, unless one toggle overtook another and none has
\* run alone since (commands/partition.rs, commands/outputs.rs).
THEOREM OutputsFollowAlways == PartitionsSpec => [](PartitionsTypeOK /\ OutputsFollow)
<1>1. PartitionsInv => PartitionsTypeOK /\ OutputsFollow
  <2>1. PartitionsInv => PartitionsTypeOK
    BY DEF PartitionsInv, Tables, PartitionsTypeOK
  <2> QED  BY <2>1, OwnedByOne DEF PartitionsInv, Followed, OutputsFollow
<1>2. PartitionsInv /\ [PartitionsNext]_partvars => PartitionsInv'
  BY PartitionsStep
<1> QED  BY <1>1, <1>2, PartitionsInvInit, PTL DEF PartitionsSpec

-----------------------------------------------------------------------------
(* The connection loop.                                                    *)

ReadLines == Lines \union {"unknown", "lost"}
Answers   == {Ok, ListOk} \union {Ack(i) : i \in Nat}

\* A list is open where the next line comes.
ListOpen == Inside(Len(taken) + 1)

Streams ==
  /\ pending \in Seq(ReadLines \ {"lost"}) /\ taken \in Seq(ReadLines) /\ out \in Seq(Answers)
  /\ response \in Seq(Answers) /\ ran \in Nat
  /\ mode \in {"plain", "batch", "run", "idle", "closed"}

\* Nothing is owed outside a list and inside one; running a list, or in idle, one answer is.
Owed ==
  /\ IsFiniteSet(Final) /\ IsFiniteSet(Answered)
  /\ mode \in {"plain", "run", "idle"} => ~ListOpen
  /\ mode = "batch" => ListOpen
  /\ mode \in {"plain", "batch"} => Cardinality(Final) = Cardinality(Answered)
  /\ mode \in {"run", "idle"} => Cardinality(Final) + 1 = Cardinality(Answered)
  /\ mode = "run" => \A i \in 1 .. Len(response) : response[i] = ListOk

ConnectionInv == Streams /\ Owed

Counts(l) == IF ListOpen THEN l = "command_list_end" ELSE l \notin Begins \union {"noidle", "lost"}

-----------------------------------------------------------------------------
LEMMA Appended ==
  ASSUME NEW S, NEW s \in Seq(S), NEW e \in S
  PROVE  /\ Append(s, e) \in Seq(S) /\ Len(Append(s, e)) = Len(s) + 1
         /\ Append(s, e)[Len(s) + 1] = e /\ \A i \in 1 .. Len(s) : Append(s, e)[i] = s[i]
OBVIOUS

LEMMA AnswersDiffer ==
  /\ Ok \in Answers /\ ListOk \in Answers /\ Ok # ListOk
  /\ \A i \in Nat : Ack(i) \in Answers /\ Ack(i) # ListOk
<1>1. Len(Ok) = 1 /\ Ok[1] = "OK" /\ Len(ListOk) = 1 /\ ListOk[1] = "list_OK"
  BY DEF Ok, ListOk
<1>2. \A i : Ack(i)[1] = "ACK"
  BY DEF Ack
<1>3. Ok # ListOk /\ \A i \in Nat : Ack(i) # ListOk
  BY <1>1, <1>2
<1> QED  BY <1>3 DEF Answers

\* A line is taken: where the lists stand, and what is to be answered.
LEMMA LineTaken ==
  ASSUME taken \in Seq(ReadLines), NEW l \in ReadLines, taken' = Append(taken, l), IsFiniteSet(Answered)
  PROVE  /\ taken' \in Seq(ReadLines)
         /\ ListOpen' <=> l \in Begins \/ (ListOpen /\ l # "command_list_end")
         /\ IsFiniteSet(Answered')
         /\ Cardinality(Answered') = Cardinality(Answered) + IF Counts(l) THEN 1 ELSE 0
<1> DEFINE n == Len(taken) + 1
<1>1. /\ taken' \in Seq(ReadLines) /\ Len(taken') = n /\ n \in Nat /\ taken'[n] = l
      /\ DOMAIN taken = 1 .. n - 1 /\ DOMAIN taken' = 1 .. n
      /\ \A i \in 1 .. n - 1 : taken'[i] = taken[i]
  OBVIOUS
<1> HIDE DEF n
<1>2. \A i \in 1 .. n : Inside(i)' <=> Inside(i)
  BY <1>1 DEF Inside
<1>3. ListOpen <=> Inside(n)
  BY DEF ListOpen, n
<1>4. ListOpen' <=> l \in Begins \/ (ListOpen /\ l # "command_list_end")
  <2>1. ListOpen' <=> \E j \in 1 .. n : taken'[j] \in Begins
                                    /\ \A k \in j + 1 .. n : taken'[k] # "command_list_end"
    BY <1>1 DEF ListOpen, Inside
  <2>2. ListOpen <=> \E j \in 1 .. n - 1 : taken[j] \in Begins
                                       /\ \A k \in j + 1 .. n - 1 : taken[k] # "command_list_end"
    BY <1>3 DEF Inside
  <2>3. ASSUME ListOpen'  PROVE l \in Begins \/ (ListOpen /\ l # "command_list_end")
    <3>1. PICK j \in 1 .. n : taken'[j] \in Begins
                              /\ \A k \in j + 1 .. n : taken'[k] # "command_list_end"
      BY <2>1, <2>3
    <3>2. CASE j = n
      BY <1>1, <3>1, <3>2
    <3>3. CASE j # n
      <4>1. j \in 1 .. n - 1 /\ n \in j + 1 .. n /\ \A k \in j + 1 .. n - 1 : k \in j + 1 .. n /\ k \in 1 .. n - 1
        BY <1>1, <3>1, <3>3
      <4> QED  BY <1>1, <2>2, <3>1, <4>1
    <3> QED  BY <3>2, <3>3
  <2>4. ASSUME l \in Begins  PROVE ListOpen'
    <3>1. n \in 1 .. n /\ \A k \in n + 1 .. n : FALSE
      BY <1>1
    <3> QED  BY <1>1, <2>1, <2>4, <3>1
  <2>5. ASSUME ListOpen, l # "command_list_end"  PROVE ListOpen'
    <3>1. PICK j \in 1 .. n - 1 : taken[j] \in Begins
                                  /\ \A k \in j + 1 .. n - 1 : taken[k] # "command_list_end"
      BY <2>2, <2>5
    <3>2. ASSUME NEW k \in j + 1 .. n  PROVE taken'[k] # "command_list_end"
      <4>1. CASE k = n
        BY <1>1, <2>5, <4>1
      <4>2. CASE k # n
        <5>1. k \in j + 1 .. n - 1 /\ k \in 1 .. n - 1
          BY <1>1, <4>2
        <5> QED  BY <1>1, <3>1, <5>1
      <4> QED  BY <4>1, <4>2
    <3>3. j \in 1 .. n /\ taken'[j] \in Begins
      BY <1>1, <3>1
    <3> QED  BY <2>1, <3>2, <3>3
  <2> QED  BY <2>3, <2>4, <2>5
<1>5. \A i : i \in Answered' <=> i \in Answered \/ (i = n /\ Counts(l))
  <2>1. \A i \in 1 .. n - 1 : i \in Answered' <=> i \in Answered
    BY <1>1, <1>2 DEF Answered
  <2>2. n \in Answered' <=> Counts(l)
    BY <1>1, <1>2, <1>3 DEF Answered, Counts
  <2>3. \A i : (i \in Answered' => i \in 1 .. n) /\ (i \in Answered => i \in 1 .. n - 1)
    BY <1>1 DEF Answered
  <2>4. \A i \in 1 .. n : i \in 1 .. n - 1 \/ i = n
    BY <1>1
  <2> QED  BY <2>1, <2>2, <2>3, <2>4
<1>6. n \notin Answered
  BY <1>1 DEF Answered
<1>7. CASE Counts(l)
  <2>1. Answered' = Answered \union {n}
    BY <1>5, <1>7
  <2> QED  BY <1>1, <1>4, <1>6, <1>7, <2>1, FS_AddElement
<1>8. CASE ~Counts(l)
  <2>1. Answered' = Answered
    BY <1>5, <1>8
  <2>2. Cardinality(Answered) \in Nat
    BY FS_CardinalityType
  <2> QED  BY <1>1, <1>4, <1>8, <2>1, <2>2
<1> QED  BY <1>7, <1>8

\* An answer that is final at its end and nowhere else.
LEMMA AnswerGiven ==
  ASSUME out \in Seq(Answers), IsFiniteSet(Final),
         NEW a \in Seq(Answers), NEW f \in Answers, f # ListOk,
         \A i \in 1 .. Len(a) : a[i] = ListOk,
         out' = out \o Append(a, f)
  PROVE  /\ out' \in Seq(Answers) /\ IsFiniteSet(Final')
         /\ Cardinality(Final') = Cardinality(Final) + 1
<1> DEFINE n == Len(out) + Len(a) + 1
           b == Append(a, f)
<1>1. /\ b \in Seq(Answers) /\ Len(b) = Len(a) + 1 /\ b[Len(a) + 1] = f
      /\ \A i \in 1 .. Len(a) : b[i] = ListOk
  <2>1. /\ b \in Seq(Answers) /\ Len(b) = Len(a) + 1
        /\ b[Len(a) + 1] = f /\ \A i \in 1 .. Len(a) : b[i] = a[i]
    BY Appended
  <2> QED  BY <2>1
<1>2. out' = out \o b /\ Len(out) \in Nat /\ Len(a) \in Nat
  OBVIOUS
<1> HIDE DEF b
<1>3. /\ out' \in Seq(Answers) /\ Len(out') = n /\ DOMAIN out = 1 .. Len(out) /\ DOMAIN out' = 1 .. n
      /\ \A i \in 1 .. Len(out) : out'[i] = out[i]
      /\ \A i \in 1 .. Len(b) : out'[Len(out) + i] = b[i]
  <2> DEFINE o == out \o b
  <2>1. /\ o \in Seq(Answers) /\ Len(o) = Len(out) + Len(b)
        /\ \A k \in 1 .. Len(out) + Len(b) :
             o[k] = IF k <= Len(out) THEN out[k] ELSE b[k - Len(out)]
    <3>1. out \in Seq(Answers) /\ b \in Seq(Answers)
      BY <1>1
    <3> QED  BY <3>1, Concatenated
  <2> HIDE DEF o
  <2>2. /\ Len(b) \in Nat /\ Len(out) + Len(b) = n
        /\ \A i \in 1 .. Len(out) : i \in 1 .. Len(out) + Len(b) /\ i <= Len(out)
        /\ \A i \in 1 .. Len(b) : /\ Len(out) + i \in 1 .. Len(out) + Len(b)
                                 /\ ~(Len(out) + i <= Len(out)) /\ Len(out) + i - Len(out) = i
    BY <1>1, <1>2
  <2>3. /\ o \in Seq(Answers) /\ Len(o) = n
        /\ \A i \in 1 .. Len(out) : o[i] = out[i]
        /\ \A i \in 1 .. Len(b) : o[Len(out) + i] = b[i]
    BY <2>1, <2>2
  <2>4. out' = o
    BY <1>2 DEF o
  <2>5. DOMAIN out = 1 .. Len(out) /\ DOMAIN o = 1 .. n
    BY <2>3
  <2> QED  BY <2>3, <2>4, <2>5
<1>4. n \in 1 .. n /\ out'[n] = f
  <2>1. Len(a) + 1 \in 1 .. Len(b) /\ Len(out) + (Len(a) + 1) = n
    BY <1>1, <1>2
  <2> QED  BY <1>1, <1>3, <2>1
<1>5. \A i \in 1 .. n : i > Len(out) /\ i # n => out'[i] = ListOk
  <2> SUFFICES ASSUME NEW i \in 1 .. n, i > Len(out), i # n  PROVE out'[i] = ListOk
    OBVIOUS
  <2>1. /\ i - Len(out) \in 1 .. Len(a) /\ i - Len(out) \in 1 .. Len(a) + 1
        /\ Len(out) + (i - Len(out)) = i
    BY <1>2
  <2> QED  BY <1>1, <1>3, <2>1
<1>6. \A i : i \in Final' <=> i \in Final \/ i = n
  <2>1. \A i \in 1 .. Len(out) : i \in Final' <=> i \in Final
    BY <1>2, <1>3 DEF Final
  <2>2. n \in Final'
    BY <1>3, <1>4 DEF Final
  <2>3. \A i \in 1 .. n : i > Len(out) /\ i # n => i \notin Final'
    BY <1>3, <1>5 DEF Final
  <2>4. \A i : (i \in Final' => i \in 1 .. n) /\ (i \in Final => i \in 1 .. Len(out))
    BY <1>3 DEF Final
  <2>5. \A i \in 1 .. n : i \in 1 .. Len(out) \/ i > Len(out)
    BY <1>2
  <2>6. n \notin Final
    BY <1>2, <1>3 DEF Final
  <2> QED  BY <2>1, <2>2, <2>3, <2>4, <2>5, <2>6
<1>7. Final' = Final \union {n} /\ n \notin Final
  <2>1. n \notin Final
    BY <1>2, <1>3 DEF Final
  <2> QED  BY <1>6, <2>1
<1> QED  BY <1>3, <1>7, FS_AddElement

\* One answer, written by itself.
LEMMA OneAnswer ==
  ASSUME out \in Seq(Answers), IsFiniteSet(Final), NEW f \in Answers, f # ListOk, out' = Append(out, f)
  PROVE  /\ out' \in Seq(Answers) /\ IsFiniteSet(Final')
         /\ Cardinality(Final') = Cardinality(Final) + 1
<1>1. out' = out \o Append(<<>>, f)
  OBVIOUS
<1>2. <<>> \in Seq(Answers) /\ \A i \in 1 .. Len(<<>>) : <<>>[i] = ListOk
  OBVIOUS
<1> QED  BY <1>1, <1>2, AnswerGiven

\* Nothing is read or written.
LEMMA NothingSaid ==
  ASSUME UNCHANGED <<taken, out>>
  PROVE  Final' = Final /\ Answered' = Answered /\ (ListOpen' <=> ListOpen)
BY DEF Final, Answered, ListOpen, Inside

LEMMA NothingWritten ==
  ASSUME UNCHANGED out  PROVE Final' = Final
BY DEF Final

-----------------------------------------------------------------------------
LEMMA LineIsRead ==
  ASSUME Streams, pending # <<>>
  PROVE  Head(pending) \in ReadLines \ {"lost"} /\ Tail(pending) \in Seq(ReadLines \ {"lost"})
BY DEF Streams

LEMMA PlainKeeps ==
  ASSUME ConnectionInv, NEW success \in BOOLEAN, ReadPlain(success)
  PROVE  ConnectionInv'
<1> DEFINE l == Head(pending)
<1>1. l \in ReadLines \ {"lost"} /\ pending' = Tail(pending) /\ Tail(pending) \in Seq(ReadLines \ {"lost"})
  BY LineIsRead DEF ReadPlain, Take, ConnectionInv
<1>2. /\ mode = "plain" /\ taken' = Append(taken, l)
      /\ taken \in Seq(ReadLines) /\ out \in Seq(Answers) /\ response \in Seq(Answers) /\ ran \in Nat
      /\ IsFiniteSet(Final) /\ IsFiniteSet(Answered) /\ ~ListOpen
      /\ Cardinality(Final) = Cardinality(Answered)
      /\ Cardinality(Final) \in Nat
  BY FS_CardinalityType DEF ReadPlain, Take, ConnectionInv, Streams, Owed
<1>3. /\ taken' \in Seq(ReadLines) /\ (ListOpen' <=> l \in Begins) /\ IsFiniteSet(Answered')
      /\ Cardinality(Answered') = Cardinality(Answered) + IF l \notin Begins \union {"noidle"} THEN 1 ELSE 0
  BY <1>1, <1>2, LineTaken DEF Counts
<1>4. CASE l \in Begins
  <2>1. mode' = "batch" /\ UNCHANGED <<response, ran, out>>
    BY <1>4 DEF ReadPlain, Begins
  <2> QED  BY <1>1, <1>2, <1>3, <1>4, <2>1, NothingWritten DEF ConnectionInv, Streams, Owed
<1>5. CASE l = "idle" /\ granted
  <2>1. mode' = "idle" /\ UNCHANGED <<response, ran, out>> /\ l \notin Begins \union {"noidle"}
    BY <1>5 DEF ReadPlain, Begins
  <2> QED  BY <1>1, <1>2, <1>3, <2>1, NothingWritten DEF ConnectionInv, Streams, Owed
<1>6. CASE l \in {"close", "malformed"}
  <2>1. mode' = "closed" /\ UNCHANGED <<response, ran, out>>
    BY <1>6 DEF ReadPlain, Begins, Close
  <2> QED  BY <1>1, <1>2, <1>3, <2>1, NothingWritten DEF ConnectionInv, Streams, Owed
<1>7. CASE l = "noidle"
  <2>1. mode' = mode /\ UNCHANGED <<response, ran, out>> /\ l \notin Begins
    BY <1>7 DEF ReadPlain, Begins
  <2> QED  BY <1>1, <1>2, <1>3, <1>7, <2>1, NothingWritten DEF ConnectionInv, Streams, Owed
<1>8. CASE l \notin Begins /\ ~(l = "idle" /\ granted) /\ l \notin {"close", "malformed", "noidle"}
  <2> DEFINE f == IF l \in {"command_list_end", "idle"} THEN Ack(0) ELSE Answer(l, success, 0)
  <2>1. mode' = mode /\ UNCHANGED <<response, ran>> /\ out' = Append(out, f)
    BY <1>8 DEF ReadPlain
  <2>2. f \in Answers /\ f # ListOk
    BY AnswersDiffer DEF Answer
  <2> HIDE DEF f
  <2>3. /\ out' \in Seq(Answers) /\ IsFiniteSet(Final') /\ Cardinality(Final') = Cardinality(Final) + 1
    BY <1>2, <2>1, <2>2, OneAnswer
  <2> QED  BY <1>1, <1>2, <1>3, <1>8, <2>1, <2>3 DEF ConnectionInv, Streams, Owed
<1> QED  BY <1>4, <1>5, <1>6, <1>7, <1>8

LEMMA BatchKeeps ==
  ASSUME ConnectionInv, ReadBatch
  PROVE  ConnectionInv'
<1> DEFINE l == Head(pending)
<1>1. l \in ReadLines \ {"lost"} /\ pending' = Tail(pending) /\ Tail(pending) \in Seq(ReadLines \ {"lost"})
  BY LineIsRead DEF ReadBatch, Take, ConnectionInv
<1>2. /\ mode = "batch" /\ taken' = Append(taken, l) /\ out' = out
      /\ taken \in Seq(ReadLines) /\ out \in Seq(Answers) /\ response \in Seq(Answers) /\ ran \in Nat
      /\ IsFiniteSet(Final) /\ IsFiniteSet(Answered) /\ ListOpen
      /\ Cardinality(Final) = Cardinality(Answered)
      /\ Cardinality(Final) \in Nat /\ Final' = Final
  <2>1. out' = out
    BY DEF ReadBatch
  <2> QED  BY <2>1, NothingWritten, FS_CardinalityType DEF ReadBatch, Take, ConnectionInv, Streams, Owed
<1>3. /\ taken' \in Seq(ReadLines) /\ (l = "command_list_end" => ~ListOpen') /\ (l # "command_list_end" => ListOpen')
      /\ IsFiniteSet(Answered')
      /\ Cardinality(Answered') = Cardinality(Answered) + IF l = "command_list_end" THEN 1 ELSE 0
  <2>1. "command_list_end" \notin Begins
    BY DEF Begins
  <2> QED  BY <1>1, <1>2, <2>1, LineTaken DEF Counts
<1>4. CASE l \in {"idle", "noidle", "malformed"}
  <2>1. mode' = "closed" /\ UNCHANGED <<response, ran>>
    BY <1>4 DEF ReadBatch, Close
  <2> QED  BY <1>1, <1>2, <1>3, <2>1 DEF ConnectionInv, Streams, Owed
<1>5. CASE l = "command_list_end"
  <2>1. mode' = "run" /\ ran' = 0 /\ response' = <<>>
    BY <1>5 DEF ReadBatch
  <2> QED  BY <1>1, <1>2, <1>3, <1>5, <2>1 DEF ConnectionInv, Streams, Owed
<1>6. CASE l \notin {"idle", "noidle", "malformed", "command_list_end"}
  <2>1. mode' = mode /\ UNCHANGED <<response, ran>>
    BY <1>6 DEF ReadBatch
  <2> QED  BY <1>1, <1>2, <1>3, <1>6, <2>1 DEF ConnectionInv, Streams, Owed
<1> QED  BY <1>4, <1>5, <1>6

\* The list's answer is written, and it is final at its end only.
LEMMA ListAnswered ==
  ASSUME ConnectionInv, mode = "run", NEW a \in Seq(Answers), NEW f \in Answers, f # ListOk,
         \A i \in 1 .. Len(a) : a[i] = ListOk, EndList(Append(a, f))
  PROVE  ConnectionInv'
<1>1. /\ out' = out \o Append(a, f) /\ UNCHANGED <<pending, taken>>
      /\ mode' = "plain" /\ ran' = 0 /\ response' = <<>>
  BY DEF EndList
<1>2. /\ out \in Seq(Answers) /\ IsFiniteSet(Final) /\ ~ListOpen /\ IsFiniteSet(Answered)
      /\ Cardinality(Final) + 1 = Cardinality(Answered)
  BY DEF ConnectionInv, Streams, Owed
<1>3. /\ out' \in Seq(Answers) /\ IsFiniteSet(Final') /\ Cardinality(Final') = Cardinality(Final) + 1
  BY <1>1, <1>2, AnswerGiven
<1>4. Answered' = Answered /\ (ListOpen' <=> ListOpen)
  BY <1>1 DEF Answered, ListOpen, Inside
<1> QED  BY <1>1, <1>2, <1>3, <1>4 DEF ConnectionInv, Streams, Owed

LEMMA RunKeeps ==
  ASSUME ConnectionInv, NEW success \in BOOLEAN, Run(success)
  PROVE  ConnectionInv'
<1> DEFINE l == batch[ran + 1]
<1>1. /\ mode = "run" /\ response \in Seq(Answers) /\ \A i \in 1 .. Len(response) : response[i] = ListOk
      /\ ran \in Nat
  BY DEF Run, ConnectionInv, Streams, Owed
<1>2. CASE ran = Len(batch)
  <2>1. EndList(response \o <<Ok>>) /\ response \o <<Ok>> = Append(response, Ok)
    BY <1>1, <1>2 DEF Run
  <2> QED  BY <1>1, <2>1, AnswersDiffer, ListAnswered
<1>3. ASSUME EndList(<<Ack(ran)>>)  PROVE ConnectionInv'
  <2>1. <<Ack(ran)>> = Append(<<>>, Ack(ran)) /\ <<>> \in Seq(Answers)
        /\ \A i \in 1 .. Len(<<>>) : <<>>[i] = ListOk
    OBVIOUS
  <2> QED  BY <1>1, <1>3, <2>1, AnswersDiffer, ListAnswered
<1>4. ASSUME EndList(Append(response, Ack(ran)))  PROVE ConnectionInv'
  BY <1>1, <1>4, AnswersDiffer, ListAnswered
<1>5. ASSUME ran' = ran + 1, response' = IF listOk THEN Append(response, ListOk) ELSE response,
             UNCHANGED <<pending, mode, out, taken>>
      PROVE  ConnectionInv'
  <2>1. response' \in Seq(Answers) /\ \A i \in 1 .. Len(response') : response'[i] = ListOk
    BY <1>1, <1>5, AnswersDiffer
  <2> QED  BY <1>1, <1>5, <2>1, NothingSaid DEF ConnectionInv, Streams, Owed
<1>6. ASSUME out' = out \o response, mode' = "closed", UNCHANGED <<pending, ran, response, taken>>
      PROVE  ConnectionInv'
  <2>1. /\ out \in Seq(Answers) /\ out' \in Seq(Answers) /\ Len(out') = Len(out) + Len(response)
        /\ \A i \in 1 .. Len(out) : out'[i] = out[i]
        /\ \A i \in 1 .. Len(response) : out'[Len(out) + i] = response[i]
    BY <1>1, <1>6 DEF ConnectionInv, Streams
  <2>2. IsFiniteSet(Final')
    <3>1. Final' \subseteq 1 .. Len(out')
      BY <2>1 DEF Final
    <3>2. Len(out') \in Nat
      BY <2>1
    <3>3. IsFiniteSet(1 .. Len(out'))
      BY <3>2, FS_Interval
    <3> QED  BY <3>1, <3>3, FS_Subset
  <2>3. Answered' = Answered
    BY <1>6 DEF Answered, Inside
  <2> QED  BY <1>1, <1>6, <2>1, <2>2, <2>3 DEF ConnectionInv, Streams, Owed
<1>7. CASE ran # Len(batch)
  <2>1. CASE l \in Begins
    BY <1>3, <1>7, <2>1 DEF Run, Begins
  <2>2. CASE l = "close"
    BY <1>6, <1>7, <2>2 DEF Run, Begins
  <2>3. CASE l = "albumart" /\ Succeeds(l, success)
    BY <1>3, <1>7, <2>3 DEF Run, Begins
  <2>4. CASE l \notin Begins /\ l # "close" /\ l # "albumart" /\ Succeeds(l, success)
    BY <1>5, <1>7, <2>4 DEF Run
  <2>5. CASE l \notin Begins /\ l # "close" /\ ~Succeeds(l, success)
    BY <1>4, <1>7, <2>5 DEF Run
  <2> QED  BY <2>1, <2>2, <2>3, <2>4, <2>5
<1> QED  BY <1>2, <1>7

LEMMA IdleKeeps ==
  ASSUME ConnectionInv, NEW half \in BOOLEAN, IdleLine \/ IdleEvent(half)
  PROVE  ConnectionInv'
<1>1. /\ mode = "idle" /\ mode' = "plain" /\ out' = Append(out, Ok) /\ UNCHANGED <<response, ran>>
      /\ out \in Seq(Answers) /\ IsFiniteSet(Final) /\ ~ListOpen /\ IsFiniteSet(Answered)
      /\ Cardinality(Final) + 1 = Cardinality(Answered) /\ Cardinality(Answered) \in Nat
  BY FS_CardinalityType DEF IdleLine, IdleEvent, ConnectionInv, Streams, Owed
<1>2. /\ out' \in Seq(Answers) /\ IsFiniteSet(Final') /\ Cardinality(Final') = Cardinality(Final) + 1
  BY <1>1, OneAnswer, AnswersDiffer
<1>3. CASE IdleLine
  <2>1. pending' = Tail(pending) /\ taken' = Append(taken, "lost") /\ "lost" \in ReadLines
        /\ Tail(pending) \in Seq(ReadLines \ {"lost"}) /\ taken \in Seq(ReadLines)
    BY <1>3, LineIsRead DEF IdleLine, Take, ReadLines, ConnectionInv, Streams
  <2>2. /\ taken' \in Seq(ReadLines) /\ ~ListOpen' /\ IsFiniteSet(Answered')
        /\ Cardinality(Answered') = Cardinality(Answered)
    <3>1. "lost" \notin Begins
      BY DEF Begins
    <3> QED  BY <1>1, <2>1, <3>1, LineTaken DEF Counts
  <2> QED  BY <1>1, <1>2, <2>1, <2>2 DEF ConnectionInv, Streams, Owed
<1>4. CASE IdleEvent(half)
  <2>1. taken' = taken /\ taken \in Seq(ReadLines) /\ pending' \in Seq(ReadLines \ {"lost"})
    <3>1. pending \in Seq(ReadLines \ {"lost"}) /\ taken \in Seq(ReadLines) /\ "unknown" \in ReadLines \ {"lost"}
      BY DEF ConnectionInv, Streams, ReadLines
    <3> QED  BY <1>4, <3>1, LineIsRead DEF IdleEvent, ConnectionInv
  <2>2. Answered' = Answered /\ (ListOpen' <=> ListOpen)
    BY <2>1 DEF Answered, ListOpen, Inside
  <2> QED  BY <1>1, <1>2, <2>1, <2>2 DEF ConnectionInv, Streams, Owed
<1> QED  BY <1>3, <1>4

\* What the list has run, and the mask.
Typed ==
  /\ batch \in Seq(ReadLines) /\ ran <= Len(batch) /\ Len(taken) + Len(pending) <= MaxLines
  /\ mask = AllTags \/ mask \subseteq Tags
  /\ mode \in {"plain", "idle"} => batch = <<>> /\ response = <<>>

LEMMA MaskTyped ==
  ASSUME mask = AllTags \/ mask \subseteq Tags, NEW l, NEW success, HandleCommand(l, success)
  PROVE  mask' = AllTags \/ mask' \subseteq Tags
<1>1. CASE l # "tagtypes"
  BY <1>1 DEF HandleCommand
<1>2. ASSUME NEW c \in Masks, mask' = AfterMask(mask, c)  PROVE mask' = AllTags \/ mask' \subseteq Tags
  <2>1. c.op \in {"enable", "disable", "reset", "all", "clear"} /\ c.tags \subseteq Tags
    BY DEF Masks
  <2>2. DefaultTags \subseteq Tags
    BY ConnectionConstants
  <2> QED  BY <1>2, <2>1, <2>2 DEF AfterMask
<1> QED  BY <1>1, <1>2 DEF HandleCommand

LEMMA TypedKeeps ==
  ASSUME Streams, Typed, [ConnectionNext]_connvars
  PROVE  Typed'
<1> DEFINE l == Head(pending)
<1>1. /\ pending \in Seq(ReadLines \ {"lost"}) /\ taken \in Seq(ReadLines) /\ batch \in Seq(ReadLines) /\ ran \in Nat
      /\ Len(pending) \in Nat /\ Len(taken) \in Nat /\ Len(batch) \in Nat /\ MaxLines \in Nat
  BY ConnectionConstants DEF Streams, Typed
<1>2. ASSUME pending # <<>>, NEW k, Take(k)  PROVE Len(taken') + Len(pending') <= MaxLines
  BY <1>1, <1>2 DEF Take, Typed
<1>3. ASSUME NEW a, EndList(a), mask' = AllTags \/ mask' \subseteq Tags  PROVE Typed'
  BY <1>1, <1>3 DEF EndList, Typed
<1>4. CASE UNCHANGED connvars
  BY <1>4 DEF connvars, Typed
<1>5. ASSUME NEW k \in Lines, Send(k)  PROVE Typed'
  <2>1. k \in ReadLines \ {"lost"}
    BY ConnectionConstants DEF ReadLines
  <2>2. Len(pending') = Len(pending) + 1
    BY <1>1, <1>5, <2>1 DEF Send
  <2> QED  BY <1>1, <1>5, <2>2 DEF Send, Typed
<1>6. ASSUME NEW success \in BOOLEAN, ReadPlain(success)  PROVE Typed'
  <2>1. Len(taken') + Len(pending') <= MaxLines /\ UNCHANGED <<batch, ran, response>>
        /\ batch = <<>> /\ response = <<>>
    BY <1>2, <1>6 DEF ReadPlain, Close, Typed, Begins
  <2>2. mask' = mask \/ HandleCommand(l, success)
    BY <1>6 DEF ReadPlain, Close, Begins
  <2> QED  BY <1>1, <2>1, <2>2, MaskTyped DEF Typed
<1>7. ASSUME ReadBatch  PROVE Typed'
  <2>1. Len(taken') + Len(pending') <= MaxLines /\ mask' = mask /\ mode' \in {"batch", "run", "closed"}
    BY <1>2, <1>7 DEF ReadBatch, Close, Typed
  <2>2. batch' \in Seq(ReadLines) /\ ran' <= Len(batch')
    <3>1. l \in ReadLines
      BY <1>7, LineIsRead DEF ReadBatch
    <3>2. Append(batch, l) \in Seq(ReadLines) /\ Len(Append(batch, l)) = Len(batch) + 1
      BY <1>1, <3>1
    <3>3. CASE batch' = batch /\ ran' \in {ran, 0}
      BY <1>1, <3>3 DEF Typed
    <3>4. CASE batch' = Append(batch, l) /\ ran' = ran
      BY <1>1, <3>2, <3>4 DEF Typed
    <3> QED  BY <1>7, <3>3, <3>4 DEF ReadBatch, Close
  <2> QED  BY <2>1, <2>2 DEF Typed
<1>8. ASSUME NEW success \in BOOLEAN, Run(success)  PROVE Typed'
  <2> DEFINE k == batch[ran + 1]
  <2>1. mask' = mask \/ HandleCommand(k, success)
    BY <1>8 DEF Run, Begins
  <2>2. mask' = AllTags \/ mask' \subseteq Tags
    BY <2>1, MaskTyped DEF Typed
  <2>3. \/ \E a : EndList(a)
        \/ mode' = "closed" /\ UNCHANGED <<pending, batch, ran, taken>>
        \/ ran # Len(batch) /\ ran' = ran + 1 /\ mode' = "run" /\ UNCHANGED <<pending, batch, taken>>
    <3>1. CASE ran = Len(batch)
      BY <1>8, <3>1 DEF Run
    <3>2. CASE ran # Len(batch)
      <4>1. CASE k \in Begins
        BY <1>8, <3>2, <4>1 DEF Run, Begins
      <4>2. CASE k = "close"
        BY <1>8, <3>2, <4>2 DEF Run, Begins
      <4>3. CASE k = "albumart" /\ Succeeds(k, success)
        BY <1>8, <3>2, <4>3 DEF Run, Begins
      <4>4. CASE k \notin Begins /\ k # "close" /\ k # "albumart" /\ Succeeds(k, success)
        BY <1>8, <3>2, <4>4 DEF Run
      <4>5. CASE k \notin Begins /\ k # "close" /\ ~Succeeds(k, success)
        BY <1>8, <3>2, <4>5 DEF Run
      <4> QED  BY <4>1, <4>2, <4>3, <4>4, <4>5
    <3> QED  BY <3>1, <3>2
  <2> QED  BY <1>1, <1>3, <2>2, <2>3 DEF Typed
<1>9. ASSUME NEW half \in BOOLEAN, IdleLine \/ IdleEvent(half)  PROVE Typed'
  <2>1. mask' = mask /\ UNCHANGED <<batch, ran, response>> /\ batch = <<>> /\ response = <<>>
    BY <1>9 DEF IdleLine, IdleEvent, Typed
  <2>2. Len(taken') + Len(pending') <= MaxLines
    <3>1. CASE IdleLine
      BY <1>2, <3>1 DEF IdleLine
    <3>2. CASE IdleEvent(half)
      <4>1. CASE half /\ pending # <<>>
        <5>1. /\ pending' = <<"unknown">> \o Tail(pending) /\ taken' = taken
              /\ Tail(pending) \in Seq(ReadLines \ {"lost"}) /\ Len(Tail(pending)) = Len(pending) - 1
          BY <1>1, <3>2, <4>1 DEF IdleEvent
        <5>2. Len(pending') = Len(pending)
          BY <1>1, <5>1
        <5> QED  BY <5>1, <5>2 DEF Typed
      <4>2. CASE ~(half /\ pending # <<>>)
        BY <3>2, <4>2 DEF IdleEvent, Typed
      <4> QED  BY <4>1, <4>2
    <3> QED  BY <1>9, <3>1, <3>2
  <2> QED  BY <1>1, <2>1, <2>2 DEF Typed
<1>10. ASSUME Leave  PROVE Typed'
  BY <1>10 DEF Leave, Close, Typed
<1> QED  BY <1>4, <1>5, <1>6, <1>7, <1>8, <1>9, <1>10 DEF ConnectionNext

\* Whatever a client sends and however commands end: each request it has made, a list
\* being one, has had one final answer when the loop waits for the next
\* (rmpd-protocol/src/server.rs).
THEOREM AnswersInStepAlways == ConnectionSpec => [](ConnectionTypeOK /\ AnswersInStep)
<1>1. ConnectionInit => ConnectionInv /\ Typed
  <2> SUFFICES ASSUME ConnectionInit  PROVE ConnectionInv /\ Typed
    OBVIOUS
  <2>1. /\ taken = <<>> /\ out = <<>> /\ pending = <<>> /\ response = <<>> /\ mode = "plain" /\ ran = 0
        /\ batch = <<>> /\ mask = AllTags
    BY DEF ConnectionInit
  <2>2. Final = {} /\ Answered = {} /\ ~ListOpen
    BY <2>1 DEF Final, Answered, ListOpen, Inside
  <2> QED  BY <2>1, <2>2, FS_EmptySet, ConnectionConstants DEF ConnectionInv, Streams, Owed, Typed
<1>2. ConnectionInv /\ [ConnectionNext]_connvars => ConnectionInv'
  <2> SUFFICES ASSUME ConnectionInv, [ConnectionNext]_connvars  PROVE ConnectionInv'
    OBVIOUS
  <2>1. CASE UNCHANGED connvars
    BY <2>1, NothingSaid DEF connvars, ConnectionInv, Streams, Owed
  <2>2. ASSUME NEW l \in Lines, Send(l)  PROVE ConnectionInv'
    <3>1. l \in ReadLines \ {"lost"}
      BY ConnectionConstants DEF ReadLines
    <3> QED  BY <2>2, <3>1, NothingSaid DEF Send, ConnectionInv, Streams, Owed
  <2>3. ASSUME Leave  PROVE ConnectionInv'
    BY <2>3, NothingSaid DEF Leave, Close, ConnectionInv, Streams, Owed
  <2> QED  BY <2>1, <2>2, <2>3, PlainKeeps, BatchKeeps, RunKeeps, IdleKeeps DEF ConnectionNext
<1>3. ConnectionInv /\ Typed /\ [ConnectionNext]_connvars => Typed'
  BY TypedKeeps DEF ConnectionInv
<1>4. ConnectionInv /\ Typed => ConnectionTypeOK /\ AnswersInStep
  BY DEF ConnectionInv, Streams, Owed, Typed, ConnectionTypeOK, AnswersInStep
<1> QED  BY <1>1, <1>2, <1>3, <1>4, PTL DEF ConnectionSpec

-----------------------------------------------------------------------------
(* The library.                                                            *)

Versions == 0 .. MaxVersion
Rows     == [mtime : Versions, tags : Seq(Versions), remote : BOOLEAN]
Works    == {NoWork} \union [step : {"upsert", "clear", "insert"}, file : Files, mtime : Versions]
Progresses ==
  [at : {"idle", "walk", "write", "prune", "dirs", "end"}, force : BOOLEAN,
   todo : SUBSET (Files \union Folders), files : SUBSET Files,
   read : SUBSET [file : Files, mtime : Versions], write : Works,
   missing : SUBSET (Files \union Remote), id : Nat]
Syncs == {NoSync} \union [at : {"clear", "add"}, list : SUBSET Remote, todo : SUBSET Remote]

LibraryTables ==
  /\ disk \in [Files -> Versions] /\ standing \subseteq Folders
  /\ DOMAIN songs \subseteq Files \union Remote /\ songs \in [DOMAIN songs -> Rows]
  /\ dirs \subseteq Folders \union {Mount}

\* Who writes a row writes a file's, or a song's of the catalog as one of its.
Writers ==
  /\ writing \in Works /\ job \in [Jobs -> Progresses]
  /\ catalog \subseteq Remote /\ sync \in Syncs
  /\ updating \in Nat /\ runs \in Nat /\ updating <= runs /\ runs <= MaxRuns

\* A song of the catalog, and none but those, is marked as such, whoever wrote it last.
Marked == \A p \in DOMAIN songs : songs[p].remote = (p \in Remote)

LibraryInv == LibraryTables /\ Writers /\ Marked

-----------------------------------------------------------------------------
LEMMA NothingRuns == NoWork \in Works /\ NoJob \in Progresses /\ NoSync \in Syncs
BY DEF NoWork, Works, NoJob, Progresses, NoSync, Syncs

LEMMA LibraryInvInit == LibraryInit => LibraryInv
<1> SUFFICES ASSUME LibraryInit  PROVE LibraryInv
  OBVIOUS
<1>1. 0 \in Versions /\ 1 \in Versions /\ MaxRuns \in Nat
  BY LibraryConstants DEF Versions
<1>2. PICK rows \in {{}, Files \union Remote} :
        /\ songs = [p \in rows |-> [mtime |-> 1, tags |-> <<1>>, remote |-> p \in Remote]]
        /\ dirs = {FolderOfSong(p) : p \in rows} \ {Root}
  BY DEF LibraryInit
<1>3. \A p \in rows : FolderOfSong(p) \in Folders \union {Mount, Root}
  BY LibraryConstants DEF FolderOfSong
<1>4. LibraryTables
  <2>1. \A p \in rows : [mtime |-> 1, tags |-> <<1>>, remote |-> p \in Remote] \in Rows
    BY <1>1 DEF Rows
  <2>2. songs \in [rows -> Rows] /\ DOMAIN songs = rows /\ rows \subseteq Files \union Remote
    BY <1>2, <2>1
  <2> QED  BY <1>1, <1>2, <1>3, <2>2 DEF LibraryTables, LibraryInit
<1>5. Writers
  BY <1>1, NothingRuns DEF Writers, LibraryInit
<1>6. Marked
  BY <1>2 DEF Marked
<1> QED  BY <1>4, <1>5, <1>6 DEF LibraryInv

-----------------------------------------------------------------------------
(* The rows.                                                                *)

\* Rows are kept, but for those that are erased.
RowsKept(gone) == DOMAIN songs \ gone \subseteq DOMAIN songs'

\* A row is written: a file's, or a song's of the catalog as one of its.
LEMMA Upserted ==
  ASSUME LibraryTables, Marked, NEW p \in Files \union Remote, NEW mtime \in Versions, NEW remote \in BOOLEAN,
         remote <=> (p \in Remote), Upsert(p, mtime, remote)
  PROVE  /\ DOMAIN songs' \subseteq Files \union Remote /\ songs' \in [DOMAIN songs' -> Rows]
         /\ dirs' \subseteq Folders \union {Mount} /\ Marked' /\ RowsKept({})
<1> DEFINE row == IF HasRow(p) THEN [songs[p] EXCEPT !.mtime = mtime, !.remote = @ \/ remote]
                  ELSE [mtime |-> mtime, tags |-> <<>>, remote |-> remote]
<1>1. row \in Rows /\ row.remote = (p \in Remote)
  <2>1. CASE HasRow(p)
    <3>1. songs[p] \in Rows /\ row = [songs[p] EXCEPT !.mtime = mtime, !.remote = @ \/ remote]
      BY <2>1 DEF HasRow, LibraryTables
    <3>2. songs[p].remote \/ remote \in BOOLEAN
      BY <3>1 DEF Rows
    <3>3. row \in Rows /\ row.remote = (songs[p].remote \/ remote)
      BY <3>1, <3>2 DEF Rows
    <3>4. songs[p].remote = (p \in Remote)
      BY <2>1 DEF HasRow, Marked
    <3> HIDE DEF row
    <3> QED  BY <3>3, <3>4, Zenon
  <2>2. CASE ~HasRow(p)
    BY <2>2 DEF Rows
  <2> QED  BY <2>1, <2>2
<1>2. /\ DOMAIN songs' = DOMAIN songs \union {p}
      /\ \A q \in DOMAIN songs' : songs'[q] = IF q # p THEN songs[q] ELSE row
      /\ songs' = [q \in DOMAIN songs' |-> songs'[q]]
  BY DEF Upsert
<1> HIDE DEF row
<1>3. songs' \in [DOMAIN songs' -> Rows]
  BY <1>1, <1>2 DEF LibraryTables
<1>4. FolderOfSong(p) \in Folders \union {Mount, Root}
  BY LibraryConstants DEF FolderOfSong
<1>5. dirs' \subseteq Folders \union {Mount}
  BY <1>4 DEF Upsert, LibraryTables
<1> QED  BY <1>1, <1>2, <1>3, <1>5 DEF LibraryTables, Marked, RowsKept

\* Only the tags of a row change.
LEMMA TagsChanged ==
  ASSUME LibraryTables, Marked, NEW p, NEW v \in Versions, ClearTags(p) \/ InsertTags(p, v)
  PROVE  /\ DOMAIN songs' \subseteq Files \union Remote /\ songs' \in [DOMAIN songs' -> Rows]
         /\ Marked' /\ RowsKept({})
<1>1. CASE ~HasRow(p)
  <2>1. songs' = songs
    BY <1>1 DEF ClearTags, InsertTags
  <2> QED  BY <2>1 DEF LibraryTables, Marked, RowsKept
<1>2. CASE HasRow(p)
  <2>1. songs[p] \in Rows /\ songs[p].tags \in Seq(Versions)
    BY <1>2 DEF HasRow, LibraryTables, Rows
  <2>2. PICK t \in Seq(Versions) : songs' = [songs EXCEPT ![p].tags = t]
    <3>1. <<>> \in Seq(Versions) /\ Append(songs[p].tags, v) \in Seq(Versions)
      BY <2>1
    <3> QED  BY <1>2, <3>1 DEF ClearTags, InsertTags
  <2> DEFINE row == [songs[p] EXCEPT !.tags = t]
  <2>3. row \in Rows /\ row.remote = songs[p].remote
    BY <2>1 DEF Rows
  <2>4. /\ DOMAIN songs' = DOMAIN songs /\ songs'[p] = row
        /\ \A q \in DOMAIN songs : q # p => songs'[q] = songs[q]
        /\ songs' = [q \in DOMAIN songs' |-> songs'[q]]
    BY <1>2, <2>2 DEF HasRow, LibraryTables
  <2> HIDE DEF row
  <2> QED  BY <1>2, <2>3, <2>4 DEF HasRow, LibraryTables, Marked, RowsKept
<1> QED  BY <1>1, <1>2

LEMMA Erased ==
  ASSUME LibraryTables, Marked, NEW paths, Erase(paths)
  PROVE  /\ DOMAIN songs' \subseteq Files \union Remote /\ songs' \in [DOMAIN songs' -> Rows]
         /\ Marked' /\ RowsKept(paths)
<1> DEFINE D == DOMAIN songs \ paths
<1>1. songs' = [q \in D |-> songs[q]]
  BY DEF Erase
<1>2. D \subseteq DOMAIN songs /\ D \subseteq Files \union Remote /\ \A q \in D : songs[q] \in Rows
  BY DEF LibraryTables
<1> HIDE DEF D
<1>3. DOMAIN songs' = D /\ songs' \in [D -> Rows] /\ \A q \in D : songs'[q] = songs[q]
  BY <1>1, <1>2
<1>4. Marked'
  BY <1>2, <1>3 DEF Marked
<1>5. RowsKept(paths)
  BY <1>3 DEF RowsKept, D
<1> QED  BY <1>2, <1>3, <1>4, <1>5

\* What is deleted for the disk's sake is no song of the catalog.
LEMMA LocalsDeleted ==
  ASSUME LibraryTables, Marked, NEW paths, DeleteLocalSongs(paths)
  PROVE  /\ DOMAIN songs' \subseteq Files \union Remote /\ songs' \in [DOMAIN songs' -> Rows]
         /\ Marked' /\ RowsKept(Files)
<1>1. paths \intersect Local \subseteq Files
  BY DEF Local, LibraryTables, Marked
<1>2. /\ DOMAIN songs' \subseteq Files \union Remote /\ songs' \in [DOMAIN songs' -> Rows]
      /\ Marked' /\ RowsKept(paths \intersect Local)
  BY Erased DEF DeleteLocalSongs
<1> QED  BY <1>1, <1>2 DEF RowsKept

\* One commit of add_song for a file.
LEMMA SongAdded ==
  ASSUME LibraryTables, Marked, NEW w \in Works, w # NoWork, AddSong(w)
  PROVE  /\ Onward(w) \in Works /\ RowsKept({}) /\ Marked'
         /\ DOMAIN songs' \subseteq Files \union Remote /\ songs' \in [DOMAIN songs' -> Rows]
         /\ dirs' \subseteq Folders \union {Mount}
<1>1. w \in [step : {"upsert", "clear", "insert"}, file : Files, mtime : Versions]
  BY DEF Works
<1>2. Onward(w) \in Works
  <2>1. [w EXCEPT !.step = "clear"] \in Works /\ [w EXCEPT !.step = "insert"] \in Works
    BY <1>1 DEF Works
  <2> QED  BY <1>1, <2>1, NothingRuns DEF Onward
<1>3. CASE w.step = "upsert" /\ Upsert(w.file, w.mtime, FALSE)
  <2>1. w.file \in Files \union Remote /\ w.file \notin Remote /\ w.mtime \in Versions
    BY <1>1, LibraryConstants
  <2>2. FALSE \in BOOLEAN /\ (FALSE <=> (w.file \in Remote))
    BY <2>1
  <2> QED  BY <1>2, <1>3, <2>1, <2>2, Upserted
<1>4. CASE (ClearTags(w.file) \/ InsertTags(w.file, w.mtime)) /\ UNCHANGED dirs
  <2>1. w.mtime \in Versions
    BY <1>1
  <2> QED  BY <1>2, <1>4, <2>1, TagsChanged DEF LibraryTables
<1> QED  BY <1>3, <1>4 DEF AddSong

\* A job goes on.
LEMMA JobGoesOn ==
  ASSUME Writers, NEW j \in Jobs, NEW r \in Progresses, Set(j, r)
  PROVE  job' \in [Jobs -> Progresses]
BY DEF Writers, Set

-----------------------------------------------------------------------------
LEMMA LibraryKeeps ==
  ASSUME LibraryInv, [LibraryNext]_libvars
  PROVE  /\ LibraryInv'
         /\ sync.at = "clear" \/ DOMAIN songs \intersect Remote \subseteq DOMAIN songs'
<1> DEFINE Kept == sync.at = "clear" \/ DOMAIN songs \intersect Remote \subseteq DOMAIN songs'
<1>a. MaxVersion \in Nat /\ MaxRuns \in Nat /\ 0 \in Versions /\ 1 \in Versions
      /\ Files \intersect Remote = {}
  BY LibraryConstants DEF Versions
<1>b. LibraryTables /\ Writers /\ Marked
  BY DEF LibraryInv
<1>c. ASSUME UNCHANGED <<songs, dirs>>, disk' \in [Files -> Versions], standing' \subseteq Folders
      PROVE  LibraryTables' /\ Marked' /\ Kept
  BY <1>b, <1>c DEF LibraryTables, Marked
<1>d. ASSUME UNCHANGED <<disk, standing>>, Marked', dirs' \subseteq Folders \union {Mount},
             DOMAIN songs' \subseteq Files \union Remote, songs' \in [DOMAIN songs' -> Rows]
      PROVE  LibraryTables' /\ Marked'
  BY <1>b, <1>d DEF LibraryTables
<1>e. ASSUME NEW gone \in {{}, Files}, RowsKept(gone)  PROVE Kept
  BY <1>a, <1>e DEF RowsKept
<1>f. ASSUME NEW j \in Jobs
      PROVE  job[j] \in Progresses /\ (UNCHANGED <<writing, catalog, sync, updating, runs>> =>
             \A r \in Progresses : Set(j, r) => Writers')
  BY <1>b, JobGoesOn DEF Writers
<1>1. CASE UNCHANGED libvars
  BY <1>b, <1>c, <1>1 DEF libvars, LibraryTables, Writers, LibraryInv
<1>2. ASSUME NEW f \in Files, WriteFile(f) \/ RemoveFile(f)  PROVE LibraryInv' /\ Kept
  <2>1. disk' \in [Files -> Versions]
    <3>1. disk[f] \in Versions /\ (WriteFile(f) => disk[f] + 1 \in Versions)
      BY <1>a, <1>b DEF LibraryTables, Versions, WriteFile
    <3> QED  BY <1>a, <1>b, <1>2, <3>1 DEF LibraryTables, WriteFile, RemoveFile
  <2> QED  BY <1>b, <1>c, <1>2, <2>1 DEF WriteFile, RemoveFile, LibraryTables, Writers, LibraryInv
<1>3. ASSUME NEW d \in Folders, RemoveFolder(d)  PROVE LibraryInv' /\ Kept
  <2>1. disk' \in [Files -> Versions] /\ standing' \subseteq Folders
    BY <1>a, <1>b, <1>3 DEF LibraryTables, RemoveFolder
  <2> QED  BY <1>b, <1>c, <1>3, <2>1 DEF RemoveFolder, Writers, LibraryInv
<1>4. ASSUME NEW s \in Remote, ChangeCatalog(s)  PROVE LibraryInv' /\ Kept
  BY <1>b, <1>c, <1>4 DEF ChangeCatalog, LibraryTables, Writers, LibraryInv
<1>5. ASSUME NEW s \in Remote, AddSourceSong(s)  PROVE LibraryInv' /\ Kept
  <2>1. Upsert(s, 1, TRUE) /\ UNCHANGED <<disk, standing, job, updating, writing, catalog, runs>>
        /\ sync' = [sync EXCEPT !.todo = @ \ {s}] /\ sync.at = "add"
    BY <1>5 DEF AddSourceSong
  <2>2. sync' \in Syncs
    <3>1. sync \in [at : {"clear", "add"}, list : SUBSET Remote, todo : SUBSET Remote]
      BY <1>b, <2>1 DEF Writers, Syncs, NoSync
    <3>2. sync.todo \ {s} \in SUBSET Remote
      BY <3>1
    <3>3. sync' \in [at : {"clear", "add"}, list : SUBSET Remote, todo : SUBSET Remote]
      BY <2>1, <3>1, <3>2
    <3> QED  BY <3>3 DEF Syncs
  <2>3. LibraryTables' /\ Marked' /\ Kept
    BY <1>a, <1>b, <1>d, <1>e, <2>1, Upserted
  <2> QED  BY <1>b, <2>1, <2>2, <2>3 DEF Writers, LibraryInv
<1>6. ASSUME Crash  PROVE LibraryInv' /\ Kept
  <2>1. Writers'
    BY <1>a, <1>b, <1>6, NothingRuns DEF Crash, Writers
  <2> QED  BY <1>b, <1>c, <1>6, <2>1 DEF Crash, LibraryTables, LibraryInv
<1>7. ASSUME WatcherSees  PROVE LibraryInv' /\ Kept
  <2> DEFINE p == Head(events)
  <2>1. UNCHANGED <<disk, standing, dirs, job, updating, catalog, sync, runs>>
    BY <1>7 DEF WatcherSees
  <2>2. CASE songs' = songs
    <3>1. writing' \in Works
      <4>1. CASE writing' = writing
        BY <1>b, <4>1 DEF Writers
      <4>2. CASE writing' = [step |-> "upsert", file |-> p, mtime |-> disk[p]] /\ Present(p)
        BY <1>b, <4>2 DEF Present, LibraryTables, Works
      <4> QED  BY <1>7, <4>1, <4>2 DEF WatcherSees
    <3> QED  BY <1>b, <1>c, <2>1, <2>2, <3>1 DEF LibraryTables, Writers, LibraryInv
  <2>3. ASSUME NEW paths, DeleteLocalSongs(paths), writing' = writing  PROVE LibraryInv' /\ Kept
    <3>1. LibraryTables' /\ Marked' /\ Kept
      BY <1>b, <1>d, <1>e, <2>1, <2>3, LocalsDeleted DEF LibraryTables
    <3> QED  BY <1>b, <2>1, <2>3, <3>1 DEF Writers, LibraryInv
  <2> QED  BY <1>7, <2>2, <2>3 DEF WatcherSees
<1>8. ASSUME WatcherWrites  PROVE LibraryInv' /\ Kept
  <2>1. /\ UNCHANGED <<disk, standing, job, updating, catalog, sync, runs>>
        /\ AddSong(writing) /\ writing' = Onward(writing) /\ writing \in Works /\ writing # NoWork
    BY <1>b, <1>8 DEF WatcherWrites, Writers
  <2>2. LibraryTables' /\ Marked' /\ Kept /\ writing' \in Works
    BY <1>b, <1>d, <1>e, <2>1, SongAdded
  <2> QED  BY <1>b, <2>1, <2>2 DEF Writers, LibraryInv
<1>9. ASSUME NEW j \in Jobs, NEW force \in BOOLEAN, StartUpdate(j, force)  PROVE LibraryInv' /\ Kept
  <2> DEFINE r == [NoJob EXCEPT !.at = "walk", !.force = force, !.todo = Files \union Folders,
                                !.id = updating + 1]
  <2>1. r \in Progresses
    <3>1. updating + 1 \in Nat
      BY <1>b DEF Writers
    <3> QED  BY <3>1, NothingRuns DEF Progresses
  <2>2. Set(j, r)
    BY <1>9 DEF StartUpdate
  <2>3. job' \in [Jobs -> Progresses]
    <3> HIDE DEF r
    <3> QED  BY <1>b, <2>1, <2>2, JobGoesOn
  <2>4. Writers'
    BY <1>a, <1>b, <1>9, <2>3 DEF StartUpdate, Writers
  <2> QED  BY <1>b, <1>c, <1>9, <2>4 DEF StartUpdate, LibraryTables, LibraryInv
<1>10. ASSUME NEW j \in Jobs, NEW r \in Progresses, Set(j, r),
              UNCHANGED <<disk, standing, writing, catalog, sync, updating, runs, songs>>,
              dirs' \subseteq Folders \union {Mount}
       PROVE  LibraryInv' /\ Kept
  BY <1>b, <1>f, <1>10 DEF LibraryTables, Marked, LibraryInv
<1>11. ASSUME NEW j \in Jobs, NEW e \in Files \union Folders, Visit(j, e)  PROVE LibraryInv' /\ Kept
  <2>1. PICK t \in SUBSET (Files \union Folders), fs \in SUBSET Files :
          Set(j, [job[j] EXCEPT !.todo = t, !.files = fs])
    <3>1. job[j] \in Progresses /\ job[j].todo \ {e} \in SUBSET (Files \union Folders)
          /\ job[j].files \in SUBSET Files /\ job[j].files \union {e} = {e} \union job[j].files
      BY <1>f DEF Progresses
    <3>2. CASE e \in Folders
      <4>1. Set(j, [job[j] EXCEPT !.todo = @ \ {e}])
        BY <1>11, <3>2 DEF Visit
      <4>2. [job[j] EXCEPT !.todo = @ \ {e}] = [job[j] EXCEPT !.todo = job[j].todo \ {e}, !.files = job[j].files]
        BY <3>1 DEF Progresses
      <4> QED  BY <3>1, <4>1, <4>2
    <3>3. CASE e \notin Folders
      <4> DEFINE fs == IF Present(e) /\ (job[j].force \/ NeedsReading(e))
                       THEN job[j].files \union {e} ELSE job[j].files
      <4>1. Set(j, [job[j] EXCEPT !.todo = job[j].todo \ {e}, !.files = fs])
        BY <1>11, <3>3 DEF Visit
      <4>2. fs \in SUBSET Files
        BY <3>1, <3>3
      <4> HIDE DEF fs
      <4> QED  BY <3>1, <4>1, <4>2
    <3> QED  BY <3>2, <3>3
  <2>2. [job[j] EXCEPT !.todo = t, !.files = fs] \in Progresses
    BY <1>f DEF Progresses
  <2>3. dirs' \subseteq Folders \union {Mount}
    BY <1>b, <1>11 DEF Visit, LibraryTables
  <2>4. UNCHANGED <<disk, standing, writing, catalog, sync, updating, runs, songs>>
    BY <1>11 DEF Visit
  <2> QED  BY <1>10, <2>1, <2>2, <2>3, <2>4
<1>12. ASSUME NEW j \in Jobs, Extract(j)  PROVE LibraryInv' /\ Kept
  <2>1. PICK r \in Progresses : Set(j, r)
    <3>1. job[j] \in Progresses
      BY <1>f
    <3>2. CASE job[j].files # {}
      <4> DEFINE f == CHOOSE x \in job[j].files : TRUE
                 more == IF Present(f) THEN job[j].read \union {[file |-> f, mtime |-> disk[f]]} ELSE job[j].read
                 less == job[j].files \ {f}
      <4>1. f \in job[j].files
        BY <3>2
      <4>2. f \in Files
        BY <3>1, <4>1 DEF Progresses
      <4>3. Set(j, [job[j] EXCEPT !.files = less, !.read = more])
        BY <1>12, <3>2 DEF Extract
      <4> HIDE DEF f
      <4>4. more \in SUBSET [file : Files, mtime : Versions] /\ less \in SUBSET Files
        BY <1>b, <3>1, <4>2 DEF Progresses, LibraryTables
      <4> HIDE DEF more, less
      <4>5. [job[j] EXCEPT !.files = less, !.read = more] \in Progresses
        BY <3>1, <4>4 DEF Progresses
      <4> QED  BY <4>3, <4>5
    <3>3. CASE job[j].files = {}
      <4>1. [job[j] EXCEPT !.at = "write"] \in Progresses
        BY <3>1 DEF Progresses
      <4> QED  BY <1>12, <3>3, <4>1 DEF Extract
    <3> QED  BY <3>2, <3>3
  <2>2. UNCHANGED <<disk, standing, writing, catalog, sync, updating, runs, songs, dirs>>
    BY <1>12 DEF Extract
  <2> QED  BY <1>b, <1>10, <2>1, <2>2 DEF LibraryTables
<1>13. ASSUME NEW j \in Jobs, TakeSong(j)  PROVE LibraryInv' /\ Kept
  <2>1. PICK r \in Progresses : Set(j, r)
    <3>1. job[j] \in Progresses
      BY <1>f
    <3>2. CASE job[j].read # {}
      <4> DEFINE f == CHOOSE x \in job[j].read : TRUE
                 less == job[j].read \ {f}
                 w == [step |-> "upsert", file |-> f.file, mtime |-> f.mtime]
      <4>1. f \in job[j].read
        BY <3>2
      <4>2. f \in [file : Files, mtime : Versions]
        BY <3>1, <4>1 DEF Progresses
      <4>3. Set(j, [job[j] EXCEPT !.read = less, !.write = w])
        BY <1>13, <3>2 DEF TakeSong
      <4> HIDE DEF f
      <4>4. less \in SUBSET [file : Files, mtime : Versions] /\ w \in Works
        BY <3>1, <4>2 DEF Progresses, Works
      <4> HIDE DEF less, w
      <4>5. [job[j] EXCEPT !.read = less, !.write = w] \in Progresses
        BY <3>1, <4>4 DEF Progresses
      <4> QED  BY <4>3, <4>5
    <3>3. CASE job[j].read = {}
      <4> DEFINE m == {p \in LocalSongsUnder(Root) : ~Present(p)}
      <4>1. m \in SUBSET (Files \union Remote)
        BY <1>b DEF LocalSongsUnder, Local, LibraryTables
      <4>2. Set(j, [job[j] EXCEPT !.at = "prune", !.missing = m])
        BY <1>13, <3>3 DEF TakeSong
      <4> HIDE DEF m
      <4>3. [job[j] EXCEPT !.at = "prune", !.missing = m] \in Progresses
        BY <3>1, <4>1 DEF Progresses
      <4> QED  BY <4>2, <4>3
    <3> QED  BY <3>2, <3>3
  <2>2. UNCHANGED <<disk, standing, writing, catalog, sync, updating, runs, songs, dirs>>
    BY <1>13 DEF TakeSong
  <2> QED  BY <1>b, <1>10, <2>1, <2>2 DEF LibraryTables
<1>14. ASSUME NEW j \in Jobs, StoreSong(j)  PROVE LibraryInv' /\ Kept
  <2>1. job[j] \in Progresses /\ job[j].write \in Works /\ job[j].write # NoWork /\ AddSong(job[j].write)
        /\ UNCHANGED <<disk, standing, writing, catalog, sync, updating, runs>>
    BY <1>f, <1>14 DEF StoreSong, Progresses
  <2>2. LibraryTables' /\ Marked' /\ Kept /\ Onward(job[j].write) \in Works
    BY <1>b, <1>d, <1>e, <2>1, SongAdded
  <2> DEFINE w == Onward(job[j].write)
  <2>3. Set(j, [job[j] EXCEPT !.write = w])
    BY <1>14 DEF StoreSong
  <2> HIDE DEF w
  <2>4. [job[j] EXCEPT !.write = w] \in Progresses
    BY <2>1, <2>2 DEF Progresses, w
  <2> QED  BY <1>f, <2>1, <2>2, <2>3, <2>4 DEF LibraryInv
<1>15. ASSUME NEW j \in Jobs, PruneMissing(j)  PROVE LibraryInv' /\ Kept
  <2>1. DeleteLocalSongs(job[j].missing) /\ Set(j, [job[j] EXCEPT !.at = "dirs", !.missing = {}])
        /\ UNCHANGED <<disk, standing, writing, catalog, sync, updating, runs, dirs>>
    BY <1>15 DEF PruneMissing
  <2>2. LibraryTables' /\ Marked' /\ Kept
    BY <1>b, <1>d, <1>e, <2>1, LocalsDeleted DEF LibraryTables
  <2>3. [job[j] EXCEPT !.at = "dirs", !.missing = {}] \in Progresses
    BY <1>f DEF Progresses
  <2> QED  BY <1>f, <2>1, <2>2, <2>3 DEF LibraryInv
<1>16. ASSUME NEW j \in Jobs, PruneEmptyDirectories(j)  PROVE LibraryInv' /\ Kept
  <2>1. [job[j] EXCEPT !.at = "end"] \in Progresses
    BY <1>f DEF Progresses
  <2>2. dirs' \subseteq Folders \union {Mount}
        /\ Set(j, [job[j] EXCEPT !.at = "end"])
        /\ UNCHANGED <<disk, standing, writing, catalog, sync, updating, runs, songs>>
    BY <1>b, <1>16 DEF PruneEmptyDirectories, LibraryTables
  <2> QED  BY <1>10, <2>1, <2>2
<1>17. ASSUME NEW j \in Jobs, FinishUpdate(j)  PROVE LibraryInv' /\ Kept
  <2>1. job' \in [Jobs -> Progresses] /\ updating' = 0
        /\ UNCHANGED <<disk, standing, writing, catalog, sync, runs, songs, dirs>>
    BY <1>b, <1>17, JobGoesOn, NothingRuns DEF FinishUpdate
  <2> QED  BY <1>b, <1>c, <2>1 DEF LibraryTables, Writers, LibraryInv
<1>18. ASSUME StartSync  PROVE LibraryInv' /\ Kept
  <2>1. sync' \in Syncs
    BY <1>b, <1>18 DEF StartSync, Writers, Syncs
  <2>2. Writers'
    BY <1>a, <1>b, <1>18, <2>1 DEF StartSync, Writers
  <2> QED  BY <1>b, <1>c, <1>18, <2>2 DEF StartSync, LibraryTables, LibraryInv
<1>19. ASSUME ClearSource  PROVE LibraryInv' /\ Kept
  <2>1. sync.at = "clear" /\ Erase(DOMAIN songs \ Local)
        /\ UNCHANGED <<disk, standing, dirs, job, updating, writing, catalog, runs>>
        /\ sync' = [sync EXCEPT !.at = "add"]
    BY <1>19 DEF ClearSource
  <2>2. sync' \in Syncs
    BY <1>b, <2>1 DEF Writers, Syncs, NoSync
  <2>3. LibraryTables' /\ Marked'
    BY <1>b, <1>d, <2>1, Erased DEF LibraryTables
  <2> QED  BY <1>b, <2>1, <2>2, <2>3 DEF Writers, LibraryInv
<1>20. ASSUME EndSync  PROVE LibraryInv' /\ Kept
  BY <1>b, <1>c, <1>20, NothingRuns DEF EndSync, LibraryTables, Writers, LibraryInv
<1> QED
  BY <1>1, <1>2, <1>3, <1>4, <1>5, <1>6, <1>7, <1>8, <1>9, <1>11, <1>12, <1>13, <1>14, <1>15, <1>16,
     <1>17, <1>18, <1>19, <1>20 DEF LibraryNext

\* Whatever vanishes from the disk, whichever updates, events and syncs overlap and wherever
\* the process dies: a row of a remote catalog goes only when a sync replaces it
\* (database.rs, scanner.rs, watcher.rs, rmpd-source/src/lib.rs).
THEOREM RemoteKeptAlways == LibrarySpec => []LibraryTypeOK /\ RemoteKept
<1>1. LibraryInv => LibraryTypeOK
  <2> SUFFICES ASSUME LibraryInv  PROVE LibraryTypeOK
    OBVIOUS
  <2>1. MaxRuns \in Nat
    BY LibraryConstants
  <2> QED  BY <2>1 DEF LibraryInv, LibraryTables, Writers, Rows, Versions, LibraryTypeOK
<1>2. LibraryInv /\ [LibraryNext]_libvars => LibraryInv'
  BY LibraryKeeps
<1>3. LibraryInv /\ [LibraryNext]_libvars
        => [(DOMAIN songs \intersect Remote) \ DOMAIN songs' # {} => sync.at = "clear"]_libvars
  BY LibraryKeeps
<1> QED  BY <1>1, <1>2, <1>3, LibraryInvInit, PTL DEF LibrarySpec, RemoteKept

-----------------------------------------------------------------------------
(* An update that nothing overlaps with.                                    *)

\* The row of f says what is on disk, version v; after a rescan its tags too.
UpToDate(f, v, S, force) == f \in DOMAIN S /\ S[f].mtime >= v /\ (force => S[f].tags = <<v>>)
OnDisk(f, K)          == f \in Files /\ K[f] # 0
AsOnDisk(r, K)        == OnDisk(r.file, K) /\ r.mtime = K[r.file]
LocalIn(S)            == {p \in DOMAIN S : ~S[p].remote}

\* The job w has yet to look at f, to read it or to write its row.
Queued(f, w) ==
  f \in w.todo \/ f \in w.files \/ (\E r \in w.read : r.file = f) \/ (w.write # NoWork /\ w.write.file = f)

\* How far the job w is with rows S, disk K, directories D of which B stand.
Repairing(w, S, K, D, B) ==
  /\ \A r \in w.read : AsOnDisk(r, K)
  /\ w.write # NoWork =>
       /\ AsOnDisk(w.write, K)
       /\ w.write.step # "upsert" => w.write.file \in DOMAIN S /\ S[w.write.file].mtime = w.write.mtime
       /\ w.write.step = "insert" => S[w.write.file].tags = <<>>
  /\ \A f \in Files : OnDisk(f, K) => Queued(f, w) \/ UpToDate(f, K[f], S, w.force)
  /\ B \subseteq D \union w.todo
  /\ w.at # "walk" => w.todo = {} /\ w.files = {}
  /\ w.at # "write" => w.write = NoWork
  /\ w.at \in {"prune", "dirs", "end"} => w.read = {}
  /\ w.at = "prune" => w.missing = {p \in LocalIn(S) : ~OnDisk(p, K)}
  /\ w.at \in {"dirs", "end"} => LocalIn(S) = {f \in Files : OnDisk(f, K)}
  /\ w.at = "end" => D \ {Mount} = B

\* A file on disk is in a folder on disk.
Sheltered == \A f \in Files : OnDisk(f, disk) => FolderOf[f] \in standing \union {Root}

\* While nothing else happens there is one job, and all there is to repair it has done
\* or has before it.
Calm ==
  /\ events = <<>> /\ writing = NoWork
  /\ \A i, j \in Running : i = j
  /\ \A j \in Running : Repairing(job[j], songs, disk, dirs, standing)

CalmInv == Sheltered /\ (~disturbed => Calm)

LEMMA CalmInvInit == LibraryInit => CalmInv
<1> SUFFICES ASSUME LibraryInit  PROVE CalmInv
  OBVIOUS
<1>1. Running = {}
  BY DEF LibraryInit, Running, NoJob
<1> QED  BY <1>1, LibraryConstants DEF LibraryInit, CalmInv, Calm, Sheltered

\* What a sync does to songs of the catalog is nothing to a job.
LEMMA RepairsOn ==
  ASSUME NEW w, NEW S, NEW T, NEW K, NEW D, NEW E, NEW B, Repairing(w, S, K, D, B),
         \A f \in Files : /\ f \in DOMAIN T <=> f \in DOMAIN S
                          /\ f \in DOMAIN S => T[f] = S[f],
         LocalIn(T) = LocalIn(S), D \subseteq E, E \ {Mount} = D \ {Mount}
  PROVE  Repairing(w, T, K, E, B)
<1>1. \A f \in Files : UpToDate(f, K[f], S, w.force) => UpToDate(f, K[f], T, w.force)
  BY DEF UpToDate
<1>2. w.write # NoWork => w.write.file \in Files
  BY DEF Repairing, AsOnDisk, OnDisk
<1> QED  BY <1>1, <1>2 DEF Repairing

\* The job goes on, and it is the only one.
LEMMA OnlyJob ==
  ASSUME Writers, Calm, NEW j \in Running, NEW r, Set(j, r), UNCHANGED <<events, writing>>,
         r.at # "idle" => Repairing(r, songs', disk', dirs', standing')
  PROVE  Calm'
<1>1. j \in Jobs /\ job'[j] = r /\ \A i \in Jobs \ {j} : job'[i] = job[i]
  BY DEF Running, Set, Writers
<1>2. Running' \subseteq {j}
  BY <1>1 DEF Calm, Running
<1> QED  BY <1>1, <1>2 DEF Calm, Running

\* Other actors' steps beside the job.
LEMMA BesideJob ==
  ASSUME Calm, UNCHANGED <<disk, standing, job, events, writing>>,
         \A f \in Files : /\ f \in DOMAIN songs' <=> f \in DOMAIN songs
                          /\ f \in DOMAIN songs => songs'[f] = songs[f],
         LocalIn(songs') = LocalIn(songs), dirs \subseteq dirs', dirs' \ {Mount} = dirs \ {Mount}
  PROVE  Calm'
<1>1. Running' = Running
  BY DEF Running
<1>2. ASSUME NEW j \in Running  PROVE Repairing(job[j], songs', disk, dirs', standing)
  BY RepairsOn DEF Calm
<1> QED  BY <1>1, <1>2 DEF Calm

-----------------------------------------------------------------------------
(* The steps of a job.                                                      *)

LEMMA VisitRepairs ==
  ASSUME LibraryInv, Calm, NEW j \in Jobs, NEW e \in Files \union Folders, Visit(j, e)
  PROVE  Calm'
<1> DEFINE w == job[j]
<1>1. /\ w \in Progresses /\ w.at = "walk" /\ j \in Running /\ e \in w.todo
      /\ Repairing(w, songs, disk, dirs, standing)
      /\ UNCHANGED <<disk, standing, songs, events, writing>>
  BY DEF LibraryInv, Writers, Visit, Running, Calm
<1>2. Files \intersect Folders = {} /\ standing \subseteq Folders
  BY LibraryConstants DEF LibraryInv, LibraryTables
<1>3. CASE e \in Folders
  <2> DEFINE r == [w EXCEPT !.todo = @ \ {e}]
  <2>1. Set(j, r) /\ dirs \subseteq dirs' /\ (e \in standing => e \in dirs')
    BY <1>3 DEF Visit
  <2>2. /\ r.at = "walk" /\ r.todo = w.todo \ {e} /\ r.files = w.files /\ r.read = w.read
        /\ r.write = w.write /\ r.force = w.force
    BY <1>1 DEF Progresses
  <2> HIDE DEF r, w
  <2>3. \A f \in Files : Queued(f, w) => Queued(f, r)
    BY <1>2, <1>3, <2>2 DEF Queued
  <2>4. Repairing(r, songs, disk, dirs', standing)
    BY <1>1, <2>1, <2>2, <2>3 DEF Repairing
  <2> QED  BY <1>1, <2>1, <2>4, OnlyJob DEF LibraryInv
<1>4. CASE e \notin Folders
  <2> DEFINE fs == IF Present(e) /\ (w.force \/ NeedsReading(e)) THEN w.files \union {e} ELSE w.files
             r  == [w EXCEPT !.todo = @ \ {e}, !.files = fs]
  <2>1. Set(j, r) /\ UNCHANGED dirs
    BY <1>4 DEF Visit
  <2>2. /\ r.at = "walk" /\ r.todo = w.todo \ {e} /\ r.files = fs /\ r.read = w.read
        /\ r.write = w.write /\ r.force = w.force
    BY <1>1 DEF Progresses
  <2>3. w.files \subseteq fs /\ e \in Files
    BY <1>4
  <2>4. OnDisk(e, disk) => e \in fs \/ UpToDate(e, disk[e], songs, w.force)
    <3> SUFFICES ASSUME OnDisk(e, disk), e \notin fs  PROVE UpToDate(e, disk[e], songs, w.force)
      OBVIOUS
    <3>1. ~w.force /\ e \in DOMAIN songs /\ ~(songs[e].mtime < disk[e])
      BY DEF OnDisk, Present, NeedsReading, HasRow
    <3>2. songs[e].mtime \in Int /\ disk[e] \in Int
      BY <2>3, <3>1, LibraryConstants DEF LibraryInv, LibraryTables, Rows, Versions
    <3> QED  BY <3>1, <3>2 DEF UpToDate
  <2> HIDE DEF r, w, fs
  <2>5. \A f \in Files \ {e} : Queued(f, w) => Queued(f, r)
    BY <2>2, <2>3 DEF Queued
  <2>6. e \in fs => Queued(e, r)
    BY <2>2 DEF Queued
  <2>7. \A f \in Files : OnDisk(f, disk) => Queued(f, r) \/ UpToDate(f, disk[f], songs, r.force)
    BY <1>1, <2>2, <2>4, <2>5, <2>6 DEF Repairing
  <2>8. standing \subseteq dirs \union r.todo
    BY <1>1, <1>2, <1>4, <2>2 DEF Repairing
  <2>9. Repairing(r, songs, disk, dirs, standing)
    BY <1>1, <2>2, <2>7, <2>8 DEF Repairing
  <2> QED  BY <1>1, <2>1, <2>9, OnlyJob DEF LibraryInv
<1> QED  BY <1>3, <1>4

LEMMA ExtractRepairs ==
  ASSUME LibraryInv, Calm, NEW j \in Jobs, Extract(j)
  PROVE  Calm'
<1> DEFINE w == job[j]
<1>1. /\ w \in Progresses /\ w.at = "walk" /\ j \in Running /\ w.todo = {}
      /\ Repairing(w, songs, disk, dirs, standing)
      /\ UNCHANGED <<disk, standing, songs, dirs, events, writing>>
  BY DEF LibraryInv, Writers, Extract, Running, Calm
<1>2. CASE w.files # {}
  <2> DEFINE f == CHOOSE x \in w.files : TRUE
             more == IF Present(f) THEN w.read \union {[file |-> f, mtime |-> disk[f]]} ELSE w.read
             r == [w EXCEPT !.files = @ \ {f}, !.read = more]
  <2>1. Set(j, r)
    BY <1>2 DEF Extract
  <2>2. /\ r.at = "walk" /\ r.todo = w.todo /\ r.files = w.files \ {f} /\ r.read = more
        /\ r.write = w.write /\ r.force = w.force
    BY <1>1 DEF Progresses
  <2> HIDE DEF r, w, f
  <2>3. w.read \subseteq more /\ \A x \in more : x \in w.read \/ AsOnDisk(x, disk)
    <3>1. Present(f) => AsOnDisk([file |-> f, mtime |-> disk[f]], disk)
      BY DEF Present, AsOnDisk, OnDisk
    <3> QED  BY <3>1
  <2>4. OnDisk(f, disk) => \E x \in more : x.file = f
    <3>1. Present(f) <=> OnDisk(f, disk)
      BY DEF Present, OnDisk
    <3>2. [file |-> f, mtime |-> disk[f]].file = f
      OBVIOUS
    <3> QED  BY <3>1, <3>2
  <2> HIDE DEF more
  <2>5. \A x \in Files : OnDisk(x, disk) /\ Queued(x, w) => Queued(x, r)
    BY <2>2, <2>3, <2>4 DEF Queued
  <2>6. \A x \in r.read : AsOnDisk(x, disk)
    BY <1>1, <2>2, <2>3 DEF Repairing
  <2>7. Repairing(r, songs, disk, dirs, standing)
    BY <1>1, <2>2, <2>5, <2>6 DEF Repairing
  <2> QED  BY <1>1, <2>1, <2>7, OnlyJob DEF LibraryInv
<1>3. CASE w.files = {}
  <2> DEFINE r == [w EXCEPT !.at = "write"]
  <2>1. Set(j, r)
    BY <1>3 DEF Extract
  <2>2. /\ r.at = "write" /\ r.todo = w.todo /\ r.files = w.files /\ r.read = w.read
        /\ r.write = w.write /\ r.force = w.force
    BY <1>1 DEF Progresses
  <2> HIDE DEF r, w
  <2>3. \A x \in Files : Queued(x, w) => Queued(x, r)
    BY <2>2 DEF Queued
  <2>4. Repairing(r, songs, disk, dirs, standing)
    BY <1>1, <1>3, <2>2, <2>3 DEF Repairing
  <2> QED  BY <1>1, <2>1, <2>4, OnlyJob DEF LibraryInv
<1> QED  BY <1>2, <1>3

LEMMA TakeRepairs ==
  ASSUME LibraryInv, Calm, NEW j \in Jobs, TakeSong(j)
  PROVE  Calm'
<1> DEFINE w == job[j]
<1>1. /\ w \in Progresses /\ w.at = "write" /\ j \in Running /\ w.write = NoWork
      /\ Repairing(w, songs, disk, dirs, standing)
      /\ UNCHANGED <<disk, standing, songs, dirs, events, writing>>
  BY DEF LibraryInv, Writers, TakeSong, Running, Calm
<1>2. CASE w.read # {}
  <2> DEFINE x == CHOOSE y \in w.read : TRUE
             now == [step |-> "upsert", file |-> x.file, mtime |-> x.mtime]
             r == [w EXCEPT !.read = @ \ {x}, !.write = now]
  <2>1. Set(j, r)
    BY <1>2 DEF TakeSong
  <2>2. /\ r.at = "write" /\ r.todo = w.todo /\ r.files = w.files /\ r.read = w.read \ {x}
        /\ r.write = now /\ r.force = w.force
    BY <1>1 DEF Progresses
  <2>3. now # NoWork /\ now.step = "upsert" /\ now.file = x.file /\ now.mtime = x.mtime
    BY DEF NoWork
  <2>4. x \in w.read
    BY <1>2
  <2> HIDE DEF r, w, now, x
  <2>5. \A f \in Files : Queued(f, w) => Queued(f, r)
    BY <1>1, <2>2, <2>3, <2>4 DEF Queued
  <2>6. AsOnDisk(now, disk)
    BY <1>1, <2>3, <2>4 DEF Repairing, AsOnDisk
  <2>7. Repairing(r, songs, disk, dirs, standing)
    BY <1>1, <2>2, <2>3, <2>5, <2>6 DEF Repairing
  <2> QED  BY <1>1, <2>1, <2>7, OnlyJob DEF LibraryInv
<1>3. CASE w.read = {}
  <2> DEFINE m == {p \in LocalSongsUnder(Root) : ~Present(p)}
             r == [w EXCEPT !.at = "prune", !.missing = m]
  <2>1. Set(j, r)
    BY <1>3 DEF TakeSong
  <2>2. /\ r.at = "prune" /\ r.todo = w.todo /\ r.files = w.files /\ r.read = w.read
        /\ r.write = w.write /\ r.force = w.force /\ r.missing = m
    BY <1>1 DEF Progresses
  <2>3. m = {p \in LocalIn(songs) : ~OnDisk(p, disk)}
    BY DEF LocalSongsUnder, Local, LocalIn, Present, OnDisk
  <2> HIDE DEF r, w, m
  <2>4. \A x \in Files : Queued(x, w) => Queued(x, r)
    BY <2>2 DEF Queued
  <2>5. Repairing(r, songs, disk, dirs, standing)
    BY <1>1, <1>3, <2>2, <2>3, <2>4 DEF Repairing
  <2> QED  BY <1>1, <2>1, <2>5, OnlyJob DEF LibraryInv
<1> QED  BY <1>2, <1>3

\* What a commit of add_song does to the row of its file.
LEMMA RowWritten ==
  ASSUME LibraryTables, NEW w \in Works, w # NoWork, AddSong(w),
         w.step # "upsert" => HasRow(w.file)
  PROVE  /\ DOMAIN songs' = DOMAIN songs \union {w.file}
         /\ \A q \in DOMAIN songs \ {w.file} : songs'[q] = songs[q]
         /\ w.step = "upsert" => songs'[w.file].mtime = w.mtime
         /\ w.step # "upsert" => songs'[w.file].mtime = songs[w.file].mtime
         /\ w.step = "clear" => songs'[w.file].tags = <<>>
         /\ w.step = "insert" => songs'[w.file].tags = Append(songs[w.file].tags, w.mtime)
         /\ dirs \subseteq dirs'
<1>1. w.step \in {"upsert", "clear", "insert"}
  BY DEF Works
<1>2. CASE w.step = "upsert"
  <2>1. Upsert(w.file, w.mtime, FALSE)
    BY <1>2 DEF AddSong
  <2>2. HasRow(w.file) => songs[w.file] \in Rows
    BY DEF HasRow, LibraryTables
  <2> QED  BY <1>2, <2>1, <2>2 DEF Upsert, Rows
<1>3. CASE w.step # "upsert"
  <2>1. HasRow(w.file) /\ songs[w.file] \in Rows /\ UNCHANGED dirs
    BY <1>3 DEF HasRow, LibraryTables, AddSong
  <2>2. CASE w.step = "clear"
    <3>1. songs' = [songs EXCEPT ![w.file].tags = <<>>]
      BY <2>1, <2>2 DEF AddSong, ClearTags
    <3> QED  BY <2>1, <2>2, <3>1 DEF HasRow, LibraryTables, Rows
  <2>3. CASE w.step = "insert"
    <3>1. songs' = [songs EXCEPT ![w.file].tags = Append(@, w.mtime)]
      BY <2>1, <2>3 DEF AddSong, InsertTags
    <3> QED  BY <2>1, <2>3, <3>1 DEF HasRow, LibraryTables, Rows
  <2> QED  BY <1>1, <1>3, <2>2, <2>3
<1> QED  BY <1>2, <1>3

LEMMA StoreRepairs ==
  ASSUME LibraryInv, Marked', Calm, NEW j \in Jobs, StoreSong(j)
  PROVE  Calm'
<1> DEFINE w == job[j]
           now == job[j].write
           next == Onward(now)
           r == [w EXCEPT !.write = next]
<1>1. /\ w \in Progresses /\ w.at = "write" /\ j \in Running /\ now # NoWork /\ now \in Works
      /\ Repairing(w, songs, disk, dirs, standing) /\ AddSong(now)
      /\ UNCHANGED <<disk, standing, events, writing>> /\ Set(j, r)
  BY DEF LibraryInv, Writers, StoreSong, Running, Calm, Progresses
<1>2. /\ r.at = "write" /\ r.todo = w.todo /\ r.files = w.files /\ r.read = w.read
      /\ r.write = next /\ r.force = w.force
  BY <1>1 DEF Progresses
<1>3. now \in [step : {"upsert", "clear", "insert"}, file : Files, mtime : Versions]
  BY <1>1 DEF Works
<1>4. /\ now.step \in {"upsert", "clear"} =>
           /\ next # NoWork /\ next.file = now.file /\ next.mtime = now.mtime
           /\ next.step = IF now.step = "upsert" THEN "clear" ELSE "insert"
      /\ now.step = "insert" => next = NoWork
  BY <1>3 DEF Onward, NoWork
<1>5. /\ AsOnDisk(now, disk)
      /\ now.step # "upsert" => now.file \in DOMAIN songs /\ songs[now.file].mtime = now.mtime
      /\ now.step = "insert" => songs[now.file].tags = <<>>
  BY <1>1 DEF Repairing
<1>6. /\ DOMAIN songs' = DOMAIN songs \union {now.file}
      /\ \A q \in DOMAIN songs \ {now.file} : songs'[q] = songs[q]
      /\ songs'[now.file].mtime = now.mtime
      /\ now.step = "clear" => songs'[now.file].tags = <<>>
      /\ now.step = "insert" => songs'[now.file].tags = <<now.mtime>>
      /\ dirs \subseteq dirs'
  <2>1. LibraryTables /\ (now.step # "upsert" => HasRow(now.file))
    BY <1>5 DEF LibraryInv, HasRow
  <2>2. Append(<<>>, now.mtime) = <<now.mtime>>
    OBVIOUS
  <2> HIDE DEF now
  <2> QED  BY <1>1, <1>3, <1>5, <2>1, <2>2, RowWritten
<1>7. now.file \in Files /\ now.mtime = disk[now.file] /\ disk[now.file] \in Int
  BY <1>3, <1>5, LibraryConstants DEF AsOnDisk, LibraryInv, LibraryTables, Versions
<1> HIDE DEF r, w, now, next
<1>8. ASSUME NEW f \in Files, OnDisk(f, disk)
      PROVE  Queued(f, r) \/ UpToDate(f, disk[f], songs', r.force)
  <2>1. CASE f = now.file
    <3>1. CASE now.step = "insert"
      BY <1>6, <1>7, <2>1, <3>1 DEF UpToDate
    <3>2. CASE now.step # "insert"
      BY <1>2, <1>3, <1>4, <2>1, <3>2 DEF Queued
    <3> QED  BY <3>1, <3>2
  <2>2. CASE f # now.file
    <3>1. Queued(f, w) => Queued(f, r)
      <4>1. w.write = now
        BY DEF w, now
      <4> QED  BY <1>2, <2>2, <4>1 DEF Queued
    <3>2. UpToDate(f, disk[f], songs, w.force) => UpToDate(f, disk[f], songs', r.force)
      BY <1>2, <1>6, <2>2 DEF UpToDate
    <3> QED  BY <1>1, <1>8, <3>1, <3>2 DEF Repairing
  <2> QED  BY <2>1, <2>2
<1>9. next # NoWork =>
        /\ AsOnDisk(next, disk)
        /\ next.step # "upsert" => next.file \in DOMAIN songs' /\ songs'[next.file].mtime = next.mtime
        /\ next.step = "insert" => songs'[next.file].tags = <<>>
  BY <1>3, <1>4, <1>5, <1>6 DEF AsOnDisk
<1>10. Repairing(r, songs', disk, dirs', standing)
  <2>1. \A x \in r.read : AsOnDisk(x, disk)
    BY <1>1, <1>2 DEF Repairing
  <2>2. standing \subseteq dirs' \union r.todo /\ r.todo = {} /\ r.files = {}
    BY <1>1, <1>2, <1>6 DEF Repairing
  <2> QED  BY <1>2, <1>8, <1>9, <2>1, <2>2 DEF Repairing
<1> QED  BY <1>1, <1>10, OnlyJob DEF LibraryInv

LEMMA PruneRepairs ==
  ASSUME LibraryInv, Calm, NEW j \in Jobs, PruneMissing(j)
  PROVE  Calm'
<1> DEFINE w == job[j]
           r == [w EXCEPT !.at = "dirs", !.missing = {}]
           gone == w.missing \intersect Local
<1>1. /\ w \in Progresses /\ w.at = "prune" /\ j \in Running
      /\ Repairing(w, songs, disk, dirs, standing)
      /\ songs' = [q \in DOMAIN songs \ gone |-> songs[q]]
      /\ UNCHANGED <<disk, standing, dirs, events, writing>> /\ Set(j, r)
  BY DEF LibraryInv, Writers, PruneMissing, Running, Calm, DeleteLocalSongs, Erase
<1>2. /\ r.at = "dirs" /\ r.todo = w.todo /\ r.files = w.files /\ r.read = w.read
      /\ r.write = w.write /\ r.force = w.force
  BY <1>1 DEF Progresses
<1>3. gone = {p \in LocalIn(songs) : ~OnDisk(p, disk)}
  BY <1>1 DEF Repairing, Local, LocalIn
<1> HIDE DEF r, w, gone
<1>4. DOMAIN songs' = DOMAIN songs \ gone /\ \A q \in DOMAIN songs \ gone : songs'[q] = songs[q]
  BY <1>1
<1>5. \A f \in Files : OnDisk(f, disk) => UpToDate(f, disk[f], songs, w.force)
  BY <1>1 DEF Repairing, Queued
<1>6. \A f \in Files : OnDisk(f, disk) => UpToDate(f, disk[f], songs', r.force)
  BY <1>2, <1>3, <1>4, <1>5 DEF UpToDate
<1>7. LocalIn(songs') = {f \in Files : OnDisk(f, disk)}
  <2>1. \A p \in LocalIn(songs') : p \in Files /\ OnDisk(p, disk)
    BY <1>3, <1>4 DEF LocalIn, OnDisk
  <2>2. \A f \in Files : OnDisk(f, disk) => f \in LocalIn(songs')
    <3> SUFFICES ASSUME NEW f \in Files, OnDisk(f, disk)  PROVE f \in LocalIn(songs')
      OBVIOUS
    <3>1. f \in DOMAIN songs /\ f \notin gone
      BY <1>3, <1>5 DEF UpToDate
    <3>2. ~songs[f].remote
      BY <3>1, LibraryConstants DEF LibraryInv, Marked
    <3> QED  BY <1>4, <3>1, <3>2 DEF LocalIn
  <2> QED  BY <2>1, <2>2
<1>8. Repairing(r, songs', disk, dirs, standing)
  BY <1>1, <1>2, <1>6, <1>7 DEF Repairing
<1> QED  BY <1>1, <1>8, OnlyJob DEF LibraryInv

LEMMA DirectoriesRepair ==
  ASSUME LibraryInv, Sheltered, Calm, NEW j \in Jobs, PruneEmptyDirectories(j)
  PROVE  Calm'
<1> DEFINE w == job[j]
           r == [w EXCEPT !.at = "end"]
<1>1. /\ w \in Progresses /\ w.at = "dirs" /\ j \in Running
      /\ Repairing(w, songs, disk, dirs, standing)
      /\ dirs' = dirs \ {d \in EmptyDirs : d \notin standing}
      /\ UNCHANGED <<disk, standing, songs, events, writing>> /\ Set(j, r)
  BY DEF LibraryInv, Writers, PruneEmptyDirectories, Running, Calm
<1>2. /\ r.at = "end" /\ r.todo = w.todo /\ r.files = w.files /\ r.read = w.read
      /\ r.write = w.write /\ r.force = w.force
  BY <1>1 DEF Progresses
<1> HIDE DEF r, w
<1>3. standing \subseteq dirs
  BY <1>1 DEF Repairing
<1>4. dirs' \ {Mount} \subseteq standing
  <2> SUFFICES ASSUME NEW d \in dirs' \ {Mount}, d \notin standing  PROVE FALSE
    OBVIOUS
  <2>1. d \in dirs /\ d \notin EmptyDirs /\ d \in Folders
    BY <1>1 DEF LibraryInv, LibraryTables
  <2>2. PICK p \in DOMAIN songs : FolderOfSong(p) = d
    BY <2>1 DEF EmptyDirs
  <2>3. p \in Files /\ p \notin Remote /\ FolderOf[p] = d
    BY <2>2 DEF FolderOfSong, LibraryInv, LibraryTables
  <2>4. p \in LocalIn(songs)
    BY <2>2, <2>3 DEF LocalIn, LibraryInv, Marked
  <2>5. OnDisk(p, disk)
    BY <1>1, <2>4 DEF Repairing
  <2>6. d # Root
    BY <2>1, LibraryConstants
  <2> QED  BY <2>3, <2>5, <2>6 DEF Sheltered
<1>5. Mount \notin standing /\ standing \subseteq dirs'
  BY <1>1, <1>3, LibraryConstants DEF LibraryInv, LibraryTables
<1>6. \A f \in Files : Queued(f, w) => Queued(f, r)
  BY <1>2 DEF Queued
<1>7. Repairing(r, songs, disk, dirs', standing)
  BY <1>1, <1>2, <1>4, <1>5, <1>6 DEF Repairing
<1> QED  BY <1>1, <1>7, OnlyJob DEF LibraryInv

\* A job that starts when all is quiet has everything before it.
LEMMA StartRepairs ==
  ASSUME LibraryInv, NEW j \in Jobs, NEW force \in BOOLEAN, StartUpdate(j, force), ~disturbed'
  PROVE  Calm'
<1> DEFINE r == [NoJob EXCEPT !.at = "walk", !.force = force, !.todo = Files \union Folders,
                              !.id = updating + 1]
<1>1. /\ Set(j, r) /\ Running = {} /\ events = <<>> /\ writing = NoWork
      /\ UNCHANGED <<disk, standing, songs, dirs, events, writing>>
  BY DEF StartUpdate
<1>2. r.at = "walk" /\ r.todo = Files \union Folders /\ r.read = {} /\ r.write = NoWork
  BY DEF NoJob
<1>3. standing \subseteq Folders
  BY DEF LibraryInv, LibraryTables
<1> HIDE DEF r
<1>4. Repairing(r, songs, disk, dirs, standing)
  BY <1>2, <1>3 DEF Repairing, Queued
<1>5. job'[j] = r /\ \A i \in Jobs \ {j} : job'[i] = job[i]
  BY <1>1 DEF Set, LibraryInv, Writers
<1>6. Running' = {j}
  BY <1>1, <1>2, <1>5 DEF Running
<1> QED  BY <1>1, <1>4, <1>5, <1>6 DEF Calm

-----------------------------------------------------------------------------
\* Files come into folders that stand, and folders go with their files.
LEMMA ShelterKept == ASSUME LibraryInv, Sheltered, [LibraryNext]_libvars  PROVE Sheltered'
<1>1. ASSUME UNCHANGED <<disk, standing>>  PROVE Sheltered'
  BY <1>1 DEF Sheltered
<1>2. disk \in [Files -> Versions]
  BY DEF LibraryInv, LibraryTables
<1>3. ASSUME NEW f \in Files, WriteFile(f)  PROVE Sheltered'
  BY <1>2, <1>3 DEF WriteFile, Sheltered, OnDisk
<1>4. ASSUME NEW f \in Files, RemoveFile(f)  PROVE Sheltered'
  BY <1>2, <1>4 DEF RemoveFile, Sheltered, OnDisk
<1>5. ASSUME NEW d \in Folders, RemoveFolder(d)  PROVE Sheltered'
  BY <1>2, <1>5 DEF RemoveFolder, Sheltered, OnDisk
<1>6. ASSUME UNCHANGED libvars \/ Crash \/ WatcherSees \/ WatcherWrites \/ StartSync \/ ClearSource \/ EndSync
             \/ (\E s \in Remote : ChangeCatalog(s) \/ AddSourceSong(s))
      PROVE  Sheltered'
  BY <1>1, <1>6 DEF libvars, Crash, WatcherSees, WatcherWrites, StartSync, ClearSource, EndSync,
                    ChangeCatalog, AddSourceSong
<1>7. ASSUME NEW j \in Jobs,
             \/ \E force \in BOOLEAN : StartUpdate(j, force)
             \/ \E e \in Files \union Folders : Visit(j, e)
             \/ Extract(j) \/ TakeSong(j) \/ StoreSong(j) \/ PruneMissing(j)
             \/ PruneEmptyDirectories(j) \/ FinishUpdate(j)
      PROVE  Sheltered'
  BY <1>1, <1>7 DEF StartUpdate, Visit, Extract, TakeSong, StoreSong, PruneMissing,
                    PruneEmptyDirectories, FinishUpdate
<1> QED  BY <1>3, <1>4, <1>5, <1>6, <1>7 DEF LibraryNext

\* A song of the catalog comes or goes beside the job.
LEMMA SyncRepairs ==
  ASSUME LibraryInv, Marked', Calm,
         \/ \E s \in Remote : ChangeCatalog(s) \/ AddSourceSong(s)
         \/ StartSync \/ ClearSource \/ EndSync
  PROVE  Calm'
<1>1. CASE (\E s \in Remote : ChangeCatalog(s)) \/ StartSync \/ EndSync
  <2>1. UNCHANGED <<disk, standing, job, events, writing, songs, dirs>>
    BY <1>1 DEF ChangeCatalog, StartSync, EndSync
  <2> QED  BY <2>1, BesideJob
<1>2. CASE ClearSource
  <2> DEFINE gone == DOMAIN songs \ Local
  <2>1. UNCHANGED <<disk, standing, job, events, writing, dirs>>
        /\ songs' = [q \in DOMAIN songs \ gone |-> songs[q]]
    BY <1>2 DEF ClearSource, Erase
  <2>2. gone = {p \in DOMAIN songs : songs[p].remote}
    BY DEF Local
  <2> HIDE DEF gone
  <2>3. DOMAIN songs' = DOMAIN songs \ gone /\ \A q \in DOMAIN songs' : songs'[q] = songs[q]
    BY <2>1
  <2>4. \A f \in Files : f \notin gone
    BY <2>2, LibraryConstants DEF LibraryInv, Marked
  <2>5. LocalIn(songs') = LocalIn(songs)
    BY <2>2, <2>3 DEF LocalIn
  <2> QED  BY <2>1, <2>3, <2>4, <2>5, BesideJob
<1>3. ASSUME NEW s \in Remote, AddSourceSong(s)  PROVE Calm'
  <2>1. UNCHANGED <<disk, standing, job, events, writing>> /\ Upsert(s, 1, TRUE) /\ s \notin Files
    BY <1>3, LibraryConstants DEF AddSourceSong
  <2>2. /\ DOMAIN songs' = DOMAIN songs \union {s}
        /\ \A q \in DOMAIN songs \ {s} : songs'[q] = songs[q]
    BY <2>1 DEF Upsert
  <2>3. dirs' = dirs \union {Mount}
    BY <2>1, LibraryConstants DEF Upsert, FolderOfSong
  <2>4. s \notin LocalIn(songs') /\ s \notin LocalIn(songs)
    BY DEF LocalIn, LibraryInv, Marked
  <2>5. LocalIn(songs') = LocalIn(songs)
    BY <2>2, <2>4 DEF LocalIn
  <2> QED  BY <2>1, <2>2, <2>3, <2>5, BesideJob
<1> QED  BY <1>1, <1>2, <1>3

\* A job's own step.
LEMMA JobRepairs ==
  ASSUME LibraryInv, Marked', Sheltered, Calm, NEW j \in Jobs,
         \/ \E e \in Files \union Folders : Visit(j, e)
         \/ Extract(j) \/ TakeSong(j) \/ StoreSong(j) \/ PruneMissing(j)
         \/ PruneEmptyDirectories(j) \/ FinishUpdate(j)
  PROVE  Calm'
<1>1. CASE FinishUpdate(j)
  <2>1. j \in Running /\ Set(j, NoJob) /\ NoJob.at = "idle" /\ UNCHANGED <<events, writing>> /\ Writers
    BY <1>1 DEF FinishUpdate, Running, NoJob, LibraryInv
  <2> QED  BY <2>1, OnlyJob
<1> QED  BY <1>1, VisitRepairs, ExtractRepairs, TakeRepairs, StoreRepairs, PruneRepairs, DirectoriesRepair

\* Whatever else there is to do disturbs the job.
LEMMA CalmKeeps == ASSUME LibraryInv, LibraryInv', CalmInv, [LibraryNext]_libvars  PROVE CalmInv'
<1>1. Sheltered' /\ Sheltered /\ Marked' /\ (~disturbed => Calm)
  BY ShelterKept DEF CalmInv, LibraryInv
<1>2. CASE disturbed'
  BY <1>1, <1>2 DEF CalmInv
<1>3. CASE ~disturbed'
  <2>1. CASE UNCHANGED libvars
    BY <1>1, <1>3, <2>1 DEF libvars, CalmInv, Calm, Running
  <2>2. ASSUME NEW j \in Jobs, NEW force \in BOOLEAN, StartUpdate(j, force)  PROVE Calm'
    BY <1>3, <2>2, StartRepairs
  <2>3. ASSUME \/ \E s \in Remote : ChangeCatalog(s) \/ AddSourceSong(s)
               \/ StartSync \/ ClearSource \/ EndSync
        PROVE  Calm'
    <3>1. UNCHANGED disturbed
      BY <2>3 DEF ChangeCatalog, AddSourceSong, StartSync, ClearSource, EndSync
    <3> QED  BY <1>1, <1>3, <2>3, <3>1, SyncRepairs
  <2>4. ASSUME NEW j \in Jobs,
               \/ \E e \in Files \union Folders : Visit(j, e)
               \/ Extract(j) \/ TakeSong(j) \/ StoreSong(j) \/ PruneMissing(j)
               \/ PruneEmptyDirectories(j) \/ FinishUpdate(j)
        PROVE  Calm'
    <3>1. UNCHANGED disturbed
      BY <2>4 DEF Visit, Extract, TakeSong, StoreSong, PruneMissing, PruneEmptyDirectories, FinishUpdate
    <3> QED  BY <1>1, <1>3, <2>4, <3>1, JobRepairs
  <2>5. ASSUME \/ \E f \in Files : WriteFile(f) \/ RemoveFile(f)
               \/ \E d \in Folders : RemoveFolder(d)
               \/ Crash \/ WatcherSees \/ WatcherWrites
        PROVE  disturbed'
    BY <2>5 DEF WriteFile, RemoveFile, RemoveFolder, Crash, WatcherSees, WatcherWrites
  <2> QED  BY <1>1, <1>3, <2>1, <2>2, <2>3, <2>4, <2>5 DEF LibraryNext, CalmInv
<1> QED  BY <1>2, <1>3

\* At its end a job that was alone has repaired everything.
Repaired(j) ==
  (job[j].at = "end" /\ job'[j] = NoJob /\ ~disturbed') =>
    /\ Local' = {f \in Files : Present(f)'}
    /\ \A f \in Local' : /\ songs'[f].mtime >= disk'[f]
                         /\ job[j].force => songs'[f].tags = <<disk'[f]>>
    /\ dirs' \ {Mount} = standing'

LEMMA EndRepaired == ASSUME LibraryInv, CalmInv, LibraryNext, NEW j \in Jobs  PROVE Repaired(j)
<1> SUFFICES ASSUME job[j].at = "end", job'[j] = NoJob, ~disturbed'
             PROVE  /\ Local' = {f \in Files : Present(f)'}
                    /\ \A f \in Local' : /\ songs'[f].mtime >= disk'[f]
                                         /\ job[j].force => songs'[f].tags = <<disk'[f]>>
                    /\ dirs' \ {Mount} = standing'
  BY DEF Repaired
<1>1. job \in [Jobs -> Progresses] /\ job'[j] # job[j] /\ j \in Running
  BY DEF LibraryInv, Writers, NoJob, Running
<1>2. ASSUME NEW i \in Jobs, NEW r, Set(i, r)  PROVE i = j
  BY <1>1, <1>2 DEF Set
<1>3. FinishUpdate(j)
  <2>1. ASSUME NEW i \in Jobs, NEW force \in BOOLEAN, StartUpdate(i, force)  PROVE FALSE
    BY <1>2, <2>1 DEF StartUpdate
  <2>2. ASSUME NEW i \in Jobs, NEW e \in Files \union Folders, Visit(i, e)  PROVE FALSE
    BY <1>2, <2>2 DEF Visit
  <2>3. ASSUME NEW i \in Jobs, Extract(i) \/ TakeSong(i) \/ StoreSong(i)  PROVE FALSE
    BY <1>2, <2>3 DEF Extract, TakeSong, StoreSong
  <2>4. ASSUME NEW i \in Jobs, PruneMissing(i) \/ PruneEmptyDirectories(i)  PROVE FALSE
    BY <1>2, <2>4 DEF PruneMissing, PruneEmptyDirectories
  <2>5. ASSUME NEW i \in Jobs, FinishUpdate(i)  PROVE FinishUpdate(j)
    BY <1>2, <2>5 DEF FinishUpdate
  <2>6. ~Crash
    BY DEF Crash
  <2>7. ASSUME \/ \E f \in Files : WriteFile(f) \/ RemoveFile(f)
               \/ \E d \in Folders : RemoveFolder(d)
               \/ \E s \in Remote : ChangeCatalog(s) \/ AddSourceSong(s)
               \/ WatcherSees \/ WatcherWrites \/ StartSync \/ ClearSource \/ EndSync
        PROVE  FALSE
    BY <1>1, <2>7 DEF WriteFile, RemoveFile, RemoveFolder, ChangeCatalog, AddSourceSong, WatcherSees,
                      WatcherWrites, StartSync, ClearSource, EndSync
  <2> QED  BY <2>1, <2>2, <2>3, <2>4, <2>5, <2>6, <2>7 DEF LibraryNext
<1>4. UNCHANGED <<songs, disk, dirs, standing, disturbed>>
  BY <1>3 DEF FinishUpdate
<1>5. Repairing(job[j], songs, disk, dirs, standing)
  BY <1>1, <1>4 DEF CalmInv, Calm
<1>6. LocalIn(songs) = {f \in Files : OnDisk(f, disk)} /\ dirs \ {Mount} = standing
  BY <1>5 DEF Repairing
<1>7. \A f \in Files : OnDisk(f, disk) => UpToDate(f, disk[f], songs, job[j].force)
  BY <1>5 DEF Repairing, Queued
<1>8. Local' = LocalIn(songs) /\ {f \in Files : Present(f)'} = {f \in Files : OnDisk(f, disk)}
  BY <1>4 DEF Local, LocalIn, Present, OnDisk
<1> QED  BY <1>4, <1>6, <1>7, <1>8 DEF UpToDate

\* An update that nothing overlaps with makes the rows and directories those of the disk, whatever
\* crashes, failed walks and overlaps left behind, for any number of files and folders (scanner.rs).
THEOREM CalmUpdateRepairsAlways == LibrarySpec => CalmUpdateRepairs
<1> DEFINE Inv == LibraryInv /\ CalmInv
<1>1. LibraryInit => Inv
  BY LibraryInvInit, CalmInvInit
<1>2. Inv /\ [LibraryNext]_libvars => Inv'
  BY LibraryKeeps, CalmKeeps
<1>3. Inv /\ [LibraryNext]_libvars => [\A j \in Jobs : Repaired(j)]_libvars
  BY EndRepaired
<1>4. CalmUpdateRepairs <=> [][\A j \in Jobs : Repaired(j)]_libvars
  BY DEF CalmUpdateRepairs, Repaired
<1> QED  BY <1>1, <1>2, <1>3, <1>4, PTL DEF LibrarySpec

-----------------------------------------------------------------------------
(* Stored playlists.                                                        *)

\* Two sequences joined, element by element.
LEMMA Joined ==
  ASSUME NEW V, NEW a \in Seq(V), NEW b \in Seq(V)
  PROVE  /\ a \o b \in Seq(V) /\ Len(a \o b) = Len(a) + Len(b)
         /\ \A i \in 1 .. Len(a) : (a \o b)[i] = a[i]
         /\ \A i \in Len(a) + 1 .. Len(a) + Len(b) : (a \o b)[i] = b[i - Len(a)]
<1>1. a \o b \in Seq(V)
  OBVIOUS
<1>2. Len(a \o b) = Len(a) + Len(b)
  OBVIOUS
<1>3. \A i \in 1 .. Len(a) : (a \o b)[i] = a[i]
  OBVIOUS
<1>4. \A i \in Len(a) + 1 .. Len(a) + Len(b) : (a \o b)[i] = b[i - Len(a)]
  OBVIOUS
<1> QED  BY <1>1, <1>2, <1>3, <1>4

\* r is l with new behind the first pos.
PutIn(r, l, pos, new) ==
  /\ Len(r) = Len(l) + Len(new)
  /\ \A i \in 1 .. Len(l) + Len(new) :
       r[i] = IF i <= pos THEN l[i] ELSE IF i <= pos + Len(new) THEN new[i - pos] ELSE l[i - Len(new)]

\* r is l without what is behind from up to to.
TakenOut(r, l, from, to) ==
  /\ Len(r) = Len(l) - (to - from)
  /\ \A i \in 1 .. Len(l) - (to - from) : r[i] = IF i <= from THEN l[i] ELSE l[i + (to - from)]

\* r is l with the block behind from up to to moved behind dest.
BlockAt(r, l, from, to, dest) ==
  /\ Len(r) = Len(l)
  /\ \A i \in 1 .. to - from : r[dest + i] = l[from + i]
  /\ Without(r, dest, dest + (to - from)) = Without(l, from, to)

LEMMA InsertedAtProps ==
  ASSUME NEW V, NEW l \in Seq(V), NEW new \in Seq(V), NEW pos \in 0 .. Len(l)
  PROVE  InsertedAt(l, pos, new) \in Seq(V) /\ PutIn(InsertedAt(l, pos, new), l, pos, new)
<1> DEFINE a == SubSeq(l, 1, pos)
           b == SubSeq(l, pos + 1, Len(l))
           d == a \o new
<1>0. Len(l) \in Nat /\ Len(new) \in Nat /\ pos \in Nat /\ pos <= Len(l)
  OBVIOUS
<1>1. a \in Seq(V) /\ Len(a) = pos /\ \A i \in 1 .. pos : a[i] = l[i]
  OBVIOUS
<1>2. b \in Seq(V) /\ Len(b) = Len(l) - pos /\ \A i \in 1 .. Len(l) - pos : b[i] = l[pos + i]
  OBVIOUS
<1> HIDE DEF a, b
<1>3. /\ d \in Seq(V) /\ Len(d) = pos + Len(new)
      /\ \A i \in 1 .. pos : d[i] = l[i]
      /\ \A i \in pos + 1 .. pos + Len(new) : d[i] = new[i - pos]
  BY <1>0, <1>1, Joined
<1>4. InsertedAt(l, pos, new) = d \o b
  BY DEF InsertedAt, a, b
<1> HIDE DEF d
<1>5. /\ d \o b \in Seq(V) /\ Len(d \o b) = Len(d) + Len(b)
      /\ \A i \in 1 .. Len(d) : (d \o b)[i] = d[i]
      /\ \A i \in Len(d) + 1 .. Len(d) + Len(b) : (d \o b)[i] = b[i - Len(d)]
  BY <1>2, <1>3, Joined
<1>6. Len(d \o b) = Len(l) + Len(new)
  BY <1>0, <1>2, <1>3, <1>5
<1>7. ASSUME NEW i \in 1 .. Len(l) + Len(new)
      PROVE  (d \o b)[i] = IF i <= pos THEN l[i]
                           ELSE IF i <= pos + Len(new) THEN new[i - pos]
                           ELSE l[i - Len(new)]
  <2>1. CASE i <= pos + Len(new)
    <3>1. (d \o b)[i] = d[i]
      BY <1>0, <1>3, <1>5, <2>1
    <3>2. i \in 1 .. pos \/ (i \in pos + 1 .. pos + Len(new) /\ ~(i <= pos))
      BY <1>0, <2>1
    <3>3. i \in 1 .. pos => i <= pos
      BY <1>0
    <3> QED  BY <1>3, <2>1, <3>1, <3>2, <3>3
  <2>2. CASE ~(i <= pos + Len(new))
    <3>1. (d \o b)[i] = b[i - (pos + Len(new))]
      BY <1>0, <1>2, <1>3, <1>5, <2>2
    <3>2. i - (pos + Len(new)) \in 1 .. Len(l) - pos /\ pos + (i - (pos + Len(new))) = i - Len(new)
      BY <1>0, <2>2
    <3>3. b[i - (pos + Len(new))] = l[pos + (i - (pos + Len(new)))]
      BY <1>2, <3>2
    <3>4. ~(i <= pos)
      BY <1>0, <2>2
    <3> QED  BY <2>2, <3>1, <3>2, <3>3, <3>4
  <2> QED  BY <2>1, <2>2
<1> QED  BY <1>4, <1>5, <1>6, <1>7 DEF PutIn

LEMMA WithoutProps ==
  ASSUME NEW V, NEW l \in Seq(V), NEW from \in Nat, NEW to \in Nat, from <= to, to <= Len(l)
  PROVE  Without(l, from, to) \in Seq(V) /\ TakenOut(Without(l, from, to), l, from, to)
<1> DEFINE a == SubSeq(l, 1, from)
           b == SubSeq(l, to + 1, Len(l))
<1>0. Len(l) \in Nat
  OBVIOUS
<1>1. a \in Seq(V) /\ Len(a) = from /\ \A i \in 1 .. from : a[i] = l[i]
  OBVIOUS
<1>2. b \in Seq(V) /\ Len(b) = Len(l) - to /\ \A i \in 1 .. Len(l) - to : b[i] = l[to + i]
  OBVIOUS
<1>3. Without(l, from, to) = a \o b
  BY DEF Without
<1> HIDE DEF a, b
<1>4. /\ a \o b \in Seq(V) /\ Len(a \o b) = Len(a) + Len(b)
      /\ \A i \in 1 .. Len(a) : (a \o b)[i] = a[i]
      /\ \A i \in Len(a) + 1 .. Len(a) + Len(b) : (a \o b)[i] = b[i - Len(a)]
  BY <1>1, <1>2, Joined
<1>5. Len(a \o b) = Len(l) - (to - from)
  BY <1>0, <1>1, <1>2, <1>4
<1>6. ASSUME NEW i \in 1 .. Len(l) - (to - from)
      PROVE  (a \o b)[i] = IF i <= from THEN l[i] ELSE l[i + (to - from)]
  <2>1. CASE i <= from
    <3>1. (a \o b)[i] = a[i]
      BY <1>0, <1>1, <1>4, <2>1
    <3> QED  BY <1>1, <2>1, <3>1
  <2>2. CASE ~(i <= from)
    <3>1. i - from \in 1 .. Len(l) - to /\ to + (i - from) = i + (to - from)
      BY <1>0, <2>2
    <3>2. (a \o b)[i] = b[i - from]
      BY <1>0, <1>1, <1>2, <1>4, <2>2
    <3>3. b[i - from] = l[to + (i - from)]
      BY <1>2, <3>1
    <3> QED  BY <2>2, <3>1, <3>2, <3>3
  <2> QED  BY <2>1, <2>2
<1> QED  BY <1>3, <1>4, <1>5, <1>6 DEF TakenOut

\* What load inserts song by song stands together.
LEMMA InsertedTogether ==
  ASSUME NEW V, NEW q \in Seq(V), NEW l \in Seq(V), NEW pos \in Nat
  PROVE  InsertEach(q, pos, l) = InsertedAt(q, Clipped(pos, q), l)
<1> DEFINE n == Len(l)
           at == Clipped(pos, q)
           T == Seq(V)
           Round(x, i) == InsertedAt(x, Clipped(pos + i - 1, x), <<l[i]>>)
           F == [a \in T \X (1 .. n) |-> Round(a[1], a[2])]
           Rounded(h) == h = [i \in 0 .. n |-> IF i = 0 THEN q ELSE Round(h[i - 1], i)]
           g == CHOOSE h : Rounded(h)
           Upto(i) == InsertedAt(q, at, SubSeq(l, 1, i))
<1>1. n \in Nat /\ Len(q) \in Nat /\ at \in 0 .. Len(q) /\ \A i \in 1 .. n : l[i] \in V
  BY ElementOfSeq DEF Clipped
<1>2. ASSUME NEW x \in T, NEW i \in 1 .. n  PROVE Round(x, i) \in T
  <2>1. Clipped(pos + i - 1, x) \in 0 .. Len(x) /\ <<l[i]>> \in Seq(V)
    BY <1>1 DEF Clipped
  <2> QED  BY <2>1, InsertedAtProps
<1>3. InsertEach(q, pos, l) = g[n]
  BY DEF InsertEach, Looped
<1>4. ASSUME NEW i \in 1 .. n  PROVE Round(Upto(i - 1), i) = Upto(i)
  <2> DEFINE before == SubSeq(l, 1, i - 1)
             upto == SubSeq(l, 1, i)
             e == <<l[i]>>
             x == InsertedAt(q, at, before)
             z == InsertedAt(q, at, upto)
             k == at + i - 1
             y == InsertedAt(x, k, e)
  <2>1. /\ before \in Seq(V) /\ Len(before) = i - 1 /\ \A j \in 1 .. i - 1 : before[j] = l[j]
        /\ upto \in Seq(V) /\ Len(upto) = i /\ \A j \in 1 .. i : upto[j] = l[j]
        /\ e \in Seq(V) /\ Len(e) = 1 /\ e[1] = l[i]
    BY <1>1
  <2> HIDE DEF before, upto, e
  <2>2. /\ x \in Seq(V) /\ Len(x) = Len(q) + (i - 1)
        /\ \A j \in 1 .. Len(q) + (i - 1) :
             x[j] = IF j <= at THEN q[j] ELSE IF j <= at + (i - 1) THEN before[j - at] ELSE q[j - (i - 1)]
    <3> HIDE DEF at
    <3>1. x \in Seq(V) /\ PutIn(x, q, at, before)
      BY <1>1, <2>1, InsertedAtProps
    <3> HIDE DEF x
    <3> QED  BY <2>1, <3>1 DEF PutIn
  <2>3. /\ z \in Seq(V) /\ Len(z) = Len(q) + i
        /\ \A j \in 1 .. Len(q) + i :
             z[j] = IF j <= at THEN q[j] ELSE IF j <= at + i THEN upto[j - at] ELSE q[j - i]
    <3> HIDE DEF at
    <3>1. z \in Seq(V) /\ PutIn(z, q, at, upto)
      BY <1>1, <2>1, InsertedAtProps
    <3> HIDE DEF z
    <3> QED  BY <2>1, <3>1 DEF PutIn
  <2> HIDE DEF x, z
  <2>4. Clipped(pos + i - 1, x) = k
    BY <1>1, <2>2 DEF Clipped
  <2> HIDE DEF at
  <2>5. k \in 0 .. Len(x) /\ k \in Nat
    BY <1>1, <2>2
  <2>6. /\ y \in Seq(V) /\ Len(y) = Len(x) + 1
        /\ \A j \in 1 .. Len(x) + 1 :
             y[j] = IF j <= k THEN x[j] ELSE IF j <= k + 1 THEN e[j - k] ELSE x[j - 1]
    <3> HIDE DEF k
    <3>1. y \in Seq(V) /\ PutIn(y, x, k, e)
      BY <2>1, <2>2, <2>5, InsertedAtProps
    <3> HIDE DEF y
    <3> QED  BY <2>1, <3>1 DEF PutIn
  <2> HIDE DEF y
  <2>7. ASSUME NEW j \in 1 .. Len(q) + i  PROVE y[j] = z[j]
    <3>0. j \in 1 .. Len(x) + 1
      BY <1>1, <2>2
    <3>1. CASE j <= at
      <4>1. j <= k /\ j \in 1 .. Len(q) + (i - 1)
        BY <1>1, <3>1
      <4>2. y[j] = x[j] /\ x[j] = q[j] /\ z[j] = q[j]
        BY <2>2, <2>3, <2>6, <3>0, <3>1, <4>1
      <4> QED  BY <4>2
    <3>2. CASE ~(j <= at) /\ j <= k
      <4>1. /\ j <= at + (i - 1) /\ j <= at + i /\ j \in 1 .. Len(q) + (i - 1)
            /\ j - at \in 1 .. i - 1 /\ j - at \in 1 .. i
        BY <1>1, <3>2
      <4>2. y[j] = x[j] /\ x[j] = before[j - at] /\ z[j] = upto[j - at]
        BY <2>2, <2>3, <2>6, <3>0, <3>2, <4>1
      <4> QED  BY <2>1, <4>1, <4>2
    <3>3. CASE j = k + 1
      <4>1. j - k = 1 /\ j - at = i /\ ~(j <= at) /\ j <= at + i /\ ~(j <= k) /\ j <= k + 1 /\ i \in 1 .. i
        BY <1>1, <3>3
      <4>2. y[j] = e[j - k] /\ z[j] = upto[j - at]
        BY <2>3, <2>6, <3>0, <4>1
      <4> QED  BY <2>1, <4>1, <4>2
    <3>4. CASE j > k + 1
      <4>1. /\ j - 1 \in 1 .. Len(q) + (i - 1) /\ ~(j - 1 <= at) /\ ~(j - 1 <= at + (i - 1))
            /\ (j - 1) - (i - 1) = j - i
            /\ ~(j <= k) /\ ~(j <= k + 1) /\ ~(j <= at) /\ ~(j <= at + i)
        BY <1>1, <3>4
      <4>2. y[j] = x[j - 1] /\ z[j] = q[j - i]
        BY <2>3, <2>6, <3>0, <4>1
      <4>3. x[j - 1] = q[(j - 1) - (i - 1)]
        BY <2>2, <4>1
      <4> QED  BY <4>1, <4>2, <4>3
    <3>5. j \in Nat /\ k \in Nat /\ at \in Nat
      BY <1>1
    <3>6. j <= at \/ (~(j <= at) /\ j <= k) \/ j = k + 1 \/ j > k + 1
      <4> HIDE DEF k
      <4> QED  BY <3>5
    <3> QED  BY <3>1, <3>2, <3>3, <3>4, <3>6
  <2>8. Len(y) = Len(z)
    BY <1>1, <2>2, <2>3, <2>6
  <2>9. y = z
    BY <2>3, <2>6, <2>7, <2>8, SeqEqual
  <2>10. Round(Upto(i - 1), i) = y
    BY <2>4 DEF y, x, e, before
  <2> QED  BY <2>9, <2>10 DEF z, upto
<1>5. Upto(0) = q
  <2>1. SubSeq(l, 1, 0) = <<>>
    BY <1>1
  <2> DEFINE z == InsertedAt(q, at, <<>>)
  <2>2. <<>> \in Seq(V) /\ Len(<<>>) = 0
    OBVIOUS
  <2> HIDE DEF at
  <2>3. z \in Seq(V) /\ PutIn(z, q, at, <<>>)
    BY <1>1, <2>2, InsertedAtProps
  <2> HIDE DEF z
  <2>4. Len(z) = Len(q) /\ \A j \in 1 .. Len(q) : z[j] = q[j]
    <3>1. \A j \in 1 .. Len(q) : j + 0 = j /\ j - 0 = j /\ (~(j <= at) => ~(j <= at + 0))
      BY <1>1
    <3> QED  BY <1>1, <2>2, <2>3, <3>1 DEF PutIn
  <2>5. z = q
    BY <2>3, <2>4, SeqEqual
  <2> QED  BY <2>1, <2>5 DEF z
<1>6. SubSeq(l, 1, n) = l
  BY SubSeqFull
<1> HIDE DEF Round, T, n, Upto
<1>7. StaysIn(T, n, F)
  BY <1>2 DEF StaysIn
<1>8. PICK f \in [0 .. n -> T] : f[0] = q /\ \A i \in 1 .. n : f[i] = F[<<f[i - 1], i>>]
  <2> HIDE DEF F
  <2>1. Runs(T, q, n, F)
    BY <1>1, <1>7, LoopRuns, Zenon DEF T
  <2> QED  BY <2>1 DEF Runs
<1>9. ASSUME NEW i \in 1 .. n  PROVE f[i] = Round(f[i - 1], i)
  <2>1. i - 1 \in 0 .. n
    BY <1>1
  <2>2. f[i - 1] \in T
    BY <2>1
  <2> QED  BY <1>8, <2>2
<1>10. Rounded(f)
  BY <1>1, <1>8, <1>9
<1>11. Rounded(g)
  BY <1>10, Zenon
<1>12. g[0] = q /\ \A i \in 1 .. n : g[i] = Round(g[i - 1], i)
  <2> HIDE DEF g
  <2> QED  BY <1>1, <1>11
<1> HIDE DEF g
<1>13. \A i \in 0 .. n : i \in {k \in 0 .. n : g[k] = Upto(k)}
  <2>1. \A i \in 1 .. n : i - 1 \in {k \in 0 .. n : g[k] = Upto(k)} => i \in {k \in 0 .. n : g[k] = Upto(k)}
    BY <1>1, <1>4, <1>12
  <2>2. 0 \in {k \in 0 .. n : g[k] = Upto(k)}
    BY <1>1, <1>5, <1>12
  <2> QED  BY <1>1, <2>1, <2>2, UpTo
<1>14. g[n] = Upto(n)
  BY <1>1, <1>13
<1> QED  BY <1>3, <1>6, <1>14 DEF Upto

\* A block moved stands where it was asked to, and the rest as before.
LEMMA BlockMoved ==
  ASSUME NEW V, NEW old \in Seq(V), NEW from \in Nat, NEW to \in Nat, NEW dest \in Nat,
         from < to, to <= Len(old), dest <= Len(old) - (to - from)
  PROVE  LET l == InsertedAt(Without(old, from, to), dest, SubSeq(old, from + 1, to))
         IN  l \in Seq(V) /\ BlockAt(l, old, from, to, dest)
<1> DEFINE n == to - from
           block == SubSeq(old, from + 1, to)
           rest == Without(old, from, to)
           l == InsertedAt(rest, dest, block)
           w == Without(l, dest, dest + n)
<1>1. n \in Nat /\ Len(old) \in Nat /\ n <= Len(old) /\ dest <= Len(old) - n
  OBVIOUS
<1>2. block \in Seq(V) /\ Len(block) = n /\ \A i \in 1 .. n : block[i] = old[from + i]
  OBVIOUS
<1>3. rest \in Seq(V) /\ Len(rest) = Len(old) - n
  <2>1. rest \in Seq(V) /\ TakenOut(rest, old, from, to)
    BY WithoutProps
  <2> HIDE DEF rest
  <2> QED  BY <2>1 DEF TakenOut
<1> HIDE DEF block, rest, n
<1>4. dest \in 0 .. Len(rest) /\ Len(rest) + Len(block) = Len(old)
  BY <1>1, <1>2, <1>3
<1>5. l \in Seq(V) /\ PutIn(l, rest, dest, block)
  BY <1>2, <1>3, <1>4, InsertedAtProps
<1> HIDE DEF l
<1>6. /\ Len(l) = Len(old)
      /\ \A i \in 1 .. Len(old) :
           l[i] = IF i <= dest THEN rest[i] ELSE IF i <= dest + n THEN block[i - dest] ELSE rest[i - n]
  BY <1>2, <1>4, <1>5 DEF PutIn
<1>7. ASSUME NEW i \in 1 .. n  PROVE l[dest + i] = old[from + i]
  <2>1. dest + i \in 1 .. Len(old) /\ ~(dest + i <= dest) /\ dest + i <= dest + n /\ (dest + i) - dest = i
    BY <1>1
  <2>2. l[dest + i] = block[(dest + i) - dest]
    BY <1>6, <2>1
  <2> QED  BY <1>2, <2>1, <2>2
<1>8. w = rest
  <2>1. dest + n \in Nat /\ dest <= dest + n /\ dest + n <= Len(l) /\ (dest + n) - dest = n
    BY <1>1, <1>6
  <2>2. w \in Seq(V) /\ TakenOut(w, l, dest, dest + n)
    BY <1>5, <2>1, WithoutProps
  <2> HIDE DEF w
  <2>3. Len(w) = Len(rest)
    BY <1>1, <1>3, <1>6, <2>1, <2>2 DEF TakenOut
  <2>4. ASSUME NEW i \in 1 .. Len(rest)  PROVE w[i] = rest[i]
    <3>1. Len(l) - ((dest + n) - dest) = Len(rest)
      BY <1>1, <1>3, <1>6
    <3>0. i \in 1 .. Len(old) /\ i + n \in 1 .. Len(old) /\ (i + n) - n = i
      BY <1>1, <1>3
    <3>2. CASE i <= dest
      <4>1. w[i] = l[i]
        BY <2>2, <3>1, <3>2 DEF TakenOut
      <4> QED  BY <1>6, <3>0, <3>2, <4>1
    <3>3. CASE ~(i <= dest)
      <4>1. ~(i + n <= dest) /\ ~(i + n <= dest + n)
        BY <1>1, <3>3
      <4>2. w[i] = l[i + n]
        BY <2>1, <2>2, <3>1, <3>3 DEF TakenOut
      <4>3. l[i + n] = rest[(i + n) - n]
        BY <1>6, <3>0, <4>1
      <4> QED  BY <3>0, <4>2, <4>3
    <3> QED  BY <3>2, <3>3
  <2> QED  BY <1>3, <2>2, <2>3, <2>4, SeqEqual
<1> QED  BY <1>5, <1>6, <1>7, <1>8 DEF n, block, rest, l, w, BlockAt

\* An edit that is accepted gives what was asked for.
LEMMA EditedFits ==
  ASSUME NEW c \in EditCommands, NEW old \in Seq(Songs), Accepts(c, old),
         c.op \in {"add", "delete", "move"}, c.op = "move" => c.from < c.to
  PROVE  Edited(c, old) \in Seq(Songs) /\ Fits(c, old, Edited(c, old))
<1>0. Len(old) \in Nat
  OBVIOUS
<1>1. CASE c.op = "add"
  <2>1. c.new \in Seq(Songs) /\ c.pos \in Positions /\ (c.pos = NoPosition \/ c.pos <= Len(old))
    BY <1>1 DEF EditCommands, Accepts
  <2> DEFINE new == c.new
             pos == IF c.pos = NoPosition THEN Len(old) ELSE c.pos
             l == InsertedAt(old, pos, new)
  <2>2. pos \in 0 .. Len(old) /\ new \in Seq(Songs)
    BY <1>0, <2>1 DEF Positions
  <2>3. Edited(c, old) = l
    <3>1. SubSeq(old, 1, Len(old)) = old /\ SubSeq(old, Len(old) + 1, Len(old)) = <<>>
      BY <1>0, SubSeqFull, SubSeqEmpty
    <3>2. old \o new \in Seq(Songs)
      BY <2>2
    <3>3. (old \o new) \o <<>> = old \o new
      BY <3>2, ConcatEmptySeq
    <3> QED  BY <1>1, <3>1, <3>3 DEF Edited, InsertedAt
  <2>4. Fits(c, old, l) <=> /\ Len(l) = Len(old) + Len(new)
                            /\ \A i \in DOMAIN l : l[i] = IF i <= pos THEN old[i]
                                                           ELSE IF i <= pos + Len(new) THEN new[i - pos]
                                                           ELSE old[i - Len(new)]
    BY <1>1 DEF Fits
  <2> HIDE DEF pos, new
  <2>5. l \in Seq(Songs) /\ PutIn(l, old, pos, new)
    BY <2>2, InsertedAtProps
  <2> HIDE DEF l
  <2>6. DOMAIN l = 1 .. Len(old) + Len(new)
    BY <2>5 DEF PutIn
  <2> QED  BY <2>3, <2>4, <2>5, <2>6 DEF PutIn
<1>2. CASE c.op = "delete"
  <2> DEFINE from == c.from
             to == Clipped(c.to, old)
             l == Without(old, from, to)
  <2>1. from \in Nat /\ c.to \in Nat /\ from <= to
    BY <1>2 DEF EditCommands, Accepts
  <2>2. to \in Nat /\ to <= Len(old)
    BY <1>0, <2>1 DEF Clipped
  <2>3. Edited(c, old) = l
    BY <1>2 DEF Edited
  <2>4. Fits(c, old, l) <=> \E k \in 0 .. Len(old) :
          /\ Len(l) = Len(old) - k /\ from + k = to
          /\ \A i \in DOMAIN l : l[i] = IF i <= from THEN old[i] ELSE old[i + k]
    BY <1>2 DEF Fits
  <2> HIDE DEF from, to
  <2>5. l \in Seq(Songs) /\ TakenOut(l, old, from, to)
    BY <2>1, <2>2, WithoutProps
  <2> HIDE DEF l
  <2>6. /\ DOMAIN l = 1 .. Len(old) - (to - from) /\ to - from \in 0 .. Len(old)
        /\ from + (to - from) = to
    BY <1>0, <2>1, <2>2, <2>5 DEF TakenOut
  <2> DEFINE k == to - from
  <2>7. /\ k \in 0 .. Len(old) /\ Len(l) = Len(old) - k /\ from + k = to
        /\ \A i \in DOMAIN l : l[i] = IF i <= from THEN old[i] ELSE old[i + k]
    BY <2>5, <2>6 DEF TakenOut
  <2> HIDE DEF k
  <2> QED  BY <2>3, <2>4, <2>5, <2>7
<1>3. CASE c.op = "move"
  <2> DEFINE from == c.from
             to == c.to
             dest == c.dest
             l == InsertedAt(Without(old, from, to), dest, SubSeq(old, from + 1, to))
  <2>1. /\ from \in Nat /\ to \in Nat /\ dest \in Nat /\ from < to
        /\ to <= Len(old) /\ dest <= Len(old) - (to - from)
    BY <1>3 DEF EditCommands, Accepts
  <2>2. Edited(c, old) = l
    BY <1>3 DEF Edited, Moved
  <2>3. Fits(c, old, l) <=> BlockAt(l, old, from, to, dest)
    BY <1>3 DEF Fits, BlockAt
  <2> HIDE DEF from, to, dest
  <2>4. l \in Seq(Songs) /\ BlockAt(l, old, from, to, dest)
    BY <2>1, BlockMoved
  <2> QED  BY <2>2, <2>3, <2>4
<1> QED  BY <1>1, <1>2, <1>3

\* The files of the directory and the queue.
StoredLists == [there : BOOLEAN, text : BOOLEAN, lines : Seq(Songs \union {Comment})]

\* A command under way.
Stages   == {"look", "queue", "read", "write", "fill", "remove", "rename", "resolve", "songs", "insert"}
Editings == [at : Stages, cmd : EditCommands \union LoadCommands, list : Seq(Songs),
             found : StoredLists, alone : BOOLEAN]

StoredData ==
  /\ file \in [Lists -> StoredLists] /\ \A n \in Lists : ~file[n].there => file[n] = Gone
  /\ queue \in Seq(Songs) /\ current \in Positions /\ loaded \in Lists \union {NoPosition}
  /\ edits \in 0 .. MaxEdits

\* A command is at a step of its own kind.
InStage(r) ==
  /\ r.cmd.op = "move" => r.cmd.from < r.cmd.to
  /\ r.at \in {"resolve", "songs", "insert"} => r.cmd \in LoadCommands
  /\ r.at = "queue" => r.cmd.op \in {"create", "append", "replace"}
  /\ r.at = "read" => r.cmd.op \in {"append", "add", "delete", "move"}
  /\ r.at \in {"read", "write", "fill", "rename"} => r.cmd \in EditCommands
  /\ r.at = "rename" => r.cmd.op = "rename"

\* The list to write is what the command c makes of the playlist f.
Results(c, f, l) ==
  /\ c.op = "append" => \E q \in Seq(Songs) : l = OrEmpty(f) \o q
  /\ c.op \in {"add", "delete", "move"} => Accepts(c, OrEmpty(f)) /\ l = Edited(c, OrEmpty(f))

\* Nobody else has touched the directory: the file is as the command found it until it
\* writes, and what it writes comes from that.
Undisturbed(r, F) ==
  r.alone => /\ r.at \in {"look", "queue", "read"} => F[r.cmd.name] = r.found
             /\ r.at \in {"write", "fill"} => Results(r.cmd, r.found, r.list)

SoundEdit(r, F) == r = Waiting \/ (r \in Editings /\ InStage(r) /\ Undisturbed(r, F))

StoredInv ==
  /\ StoredData
  /\ edit = [e \in Editors |-> edit[e]] /\ \A e \in Editors : SoundEdit(edit[e], file)

\* What becomes of e's command; others learn that the directory was touched.
Proceeds(e, r) ==
  \/ edit' = [edit EXCEPT ![e] = r] /\ UNCHANGED file
  \/ edit' = [Disturbed(e) EXCEPT ![e] = r]

-----------------------------------------------------------------------------
LEMMA StoredInvInit == StoredInit => StoredInv
<1> SUFFICES ASSUME StoredInit  PROVE StoredInv
  OBVIOUS
<1>1. Gone \in StoredLists /\ Binary \in StoredLists
  BY DEF Gone, Binary, StoredLists
<1>2. File(<<Comment>> \o FirstQueue) \in StoredLists /\ File(<<Comment>> \o FirstQueue).there
  <2>1. <<Comment>> \in Seq(Songs \union {Comment}) /\ FirstQueue \in Seq(Songs \union {Comment})
    BY StoredConstants, SeqMonotonic
  <2>2. <<Comment>> \o FirstQueue \in Seq(Songs \union {Comment})
    BY <2>1, ConcatProperties
  <2> QED  BY <2>2 DEF File, StoredLists
<1>3. /\ file \in [Lists -> {Gone, Binary, File(<<Comment>> \o FirstQueue)}] /\ Binary.there
      /\ queue = FirstQueue /\ current \in {0, NoPosition} /\ loaded = NoPosition /\ edits = 0
  BY DEF StoredInit, Binary
<1>4. StoredData
  BY <1>1, <1>2, <1>3, StoredConstants DEF StoredData, Positions
<1> QED  BY <1>4 DEF StoredInv, StoredInit, SoundEdit

LEMMA OrEmptyTyped == ASSUME NEW f \in StoredLists  PROVE OrEmpty(f) \in Seq(Songs) /\ Entries(f) \in Seq(Songs)
<1>1. f.lines \in Seq(Songs \union {Comment})
  BY DEF StoredLists
<1>2. Entries(f) \in Seq(Songs)
  BY <1>1, SelectedTyped DEF Entries
<1> QED  BY <1>2 DEF OrEmpty

LEMMA CommandsTyped ==
  ASSUME NEW c \in EditCommands \union LoadCommands
  PROVE  /\ c.name \in Lists
         /\ c \in LoadCommands <=> c.op = "load"
         /\ c \in EditCommands <=> c.op # "load"
         /\ c.op = "rename" => c.new \in Lists
         /\ c.op = "move" => c.from \in Nat /\ c.to \in Nat
         /\ c.op \in {"create", "append", "replace", "clear", "rm", "rename", "add", "delete", "move", "load"}
BY DEF EditCommands, LoadCommands

\* r at another step, with another list.
Later(n, r, at, l) ==
  n \in Editings /\ n.at = at /\ n.cmd = r.cmd /\ n.list = l /\ n.found = r.found /\ n.alone = r.alone

LEMMA AtStep ==
  ASSUME NEW r \in Editings, NEW at \in Stages, NEW l \in Seq(Songs)
  PROVE  /\ Later([r EXCEPT !.at = at], r, at, r.list)
         /\ Later([r EXCEPT !.list = l, !.at = at], r, at, l)
         /\ Later([r EXCEPT !.at = at, !.list = l], r, at, l)
<1>1. Later([r EXCEPT !.at = at], r, at, r.list)
  BY DEF Editings, Later
<1>2. Later([r EXCEPT !.list = l, !.at = at], r, at, l)
  BY DEF Editings, Later
<1>3. Later([r EXCEPT !.at = at, !.list = l], r, at, l)
  BY DEF Editings, Later
<1> QED  BY <1>1, <1>2, <1>3

LEMMA NotWaiting ==
  ASSUME StoredInv, NEW e \in Editors, edit[e].at \in Stages
  PROVE  edit[e] \in Editings /\ InStage(edit[e]) /\ Undisturbed(edit[e], file)
<1>1. edit[e] # Waiting
  BY DEF Waiting, Stages
<1> QED  BY <1>1 DEF StoredInv, SoundEdit

\* The command of e goes on, or it ends; the others stay where they are.
LEMMA OthersStay ==
  ASSUME StoredInv, NEW e \in Editors, NEW r, Proceeds(e, r), SoundEdit(r, file')
  PROVE  /\ edit' = [x \in Editors |-> edit'[x]] /\ \A x \in Editors : SoundEdit(edit'[x], file')
         /\ edit'[e] = r /\ \A x \in Editors : x # e => (edit'[x] = Waiting <=> edit[x] = Waiting)
<1>1. edit'[e] = r /\ edit' = [x \in Editors |-> edit'[x]]
  BY DEF StoredInv, Proceeds, Disturbed
<1>2. ASSUME NEW x \in Editors, x # e
      PROVE  SoundEdit(edit'[x], file') /\ (edit'[x] = Waiting <=> edit[x] = Waiting)
  <2>1. CASE edit[x] = Waiting
    <3>1. edit'[x] = Waiting
      BY <1>2, <2>1 DEF StoredInv, Proceeds, Disturbed
    <3> QED  BY <2>1, <3>1 DEF SoundEdit
  <2>2. CASE edit[x] # Waiting
    <3>1. edit[x] \in Editings /\ InStage(edit[x]) /\ Undisturbed(edit[x], file)
      BY <2>2 DEF StoredInv, SoundEdit
    <3>2. CASE edit'[x] = edit[x] /\ file' = file
      BY <2>2, <3>1, <3>2 DEF SoundEdit
    <3>3. CASE edit'[x] = [edit[x] EXCEPT !.alone = FALSE]
      <4> DEFINE n == [edit[x] EXCEPT !.alone = FALSE]
      <4>1. n \in Editings /\ n.at = edit[x].at /\ n.cmd = edit[x].cmd /\ n.alone = FALSE
        BY <3>1 DEF Editings
      <4>2. n # Waiting
        BY <4>1 DEF Editings, Waiting, Stages
      <4>3. InStage(n) /\ Undisturbed(n, file')
        BY <3>1, <4>1 DEF InStage, Undisturbed
      <4> QED  BY <2>2, <3>3, <4>1, <4>2, <4>3 DEF SoundEdit
    <3> QED  BY <1>2, <2>2, <3>2, <3>3 DEF StoredInv, Proceeds, Disturbed
  <2> QED  BY <2>1, <2>2
<1> QED  BY <1>1, <1>2

\* A step of e's command, or its end.
Steps(e) == \E r : Proceeds(e, r) /\ SoundEdit(r, file') /\ (edit[e].at = "insert" /\ r = Waiting => Insert(e))

LEMMA RefuseSteps ==
  ASSUME StoredInv, NEW e \in Editors, Refuse(e), UNCHANGED edits, edit[e].at # "insert"
  PROVE  StoredData' /\ Steps(e)
BY DEF StoredInv, StoredData, Refuse, Steps, Proceeds, SoundEdit

\* A step that only moves the command on.
LEMMA GoSteps ==
  ASSUME StoredInv, NEW e \in Editors, edit[e].at \in Stages, NEW at \in Stages, NEW l \in Seq(Songs), NEW n,
         Later(n, edit[e], at, l), Go(e, n), UNCHANGED <<file, queue, current, loaded>>, edits' \in 0 .. MaxEdits,
         InStage(n), Undisturbed(n, file)
  PROVE  StoredData' /\ Steps(e)
<1>1. n \in Editings /\ n # Waiting
  BY DEF Later, Editings, Waiting, Stages
<1>2. SoundEdit(n, file') /\ Proceeds(e, n)
  BY <1>1 DEF SoundEdit, Proceeds, Go
<1> QED  BY <1>1, <1>2 DEF Steps, StoredInv, StoredData

LEMMA AskSteps ==
  ASSUME StoredInv, NEW e \in Editors, NEW c \in Edits \union Loads, AskEdit(e, c)
  PROVE  StoredData' /\ Steps(e)
<1> DEFINE r == [at |-> "look", cmd |-> c, list |-> <<>>, found |-> file[c.name], alone |-> TRUE]
<1>1. c \in EditCommands \union LoadCommands
  BY StoredConstants
<1>2. file[c.name] \in StoredLists
  BY <1>1, CommandsTyped DEF StoredInv, StoredData
<1>3. r \in Editings
  BY <1>1, <1>2 DEF Editings, Stages
<1>4. c.op = "move" => c.from < c.to
  BY <1>1, CommandsTyped DEF AskEdit
<1>5. InStage(r) /\ Undisturbed(r, file) /\ r # Waiting
  BY <1>4 DEF InStage, Undisturbed, Waiting
<1>6. Go(e, r) /\ edits' \in 0 .. MaxEdits /\ UNCHANGED <<file, queue, current, loaded>>
  BY StoredConstants DEF AskEdit, StoredInv, StoredData
<1> HIDE DEF r
<1>7. SoundEdit(r, file') /\ Proceeds(e, r)
  BY <1>3, <1>5, <1>6 DEF SoundEdit, Proceeds, Go
<1> QED  BY <1>5, <1>6, <1>7 DEF Steps, StoredInv, StoredData

LEMMA LookSteps ==
  ASSUME StoredInv, NEW e \in Editors, Look(e)
  PROVE  StoredData' /\ Steps(e)
<1> DEFINE r == edit[e]
           c == r.cmd
           Next(at) == Go(e, [r EXCEPT !.at = at]) /\ UNCHANGED <<file, queue, current, loaded>>
<1>1. r.at = "look" /\ r \in Editings /\ InStage(r) /\ Undisturbed(r, file) /\ UNCHANGED edits
      /\ c \in EditCommands \union LoadCommands
  <2>1. r.at = "look" /\ UNCHANGED edits
    BY DEF Look
  <2>2. r \in Editings /\ InStage(r) /\ Undisturbed(r, file)
    BY <2>1, NotWaiting DEF Stages
  <2> QED  BY <2>1, <2>2 DEF Editings
<1>2. ASSUME NEW at \in Stages, Next(at), at \notin {"write", "fill"},
             \A n : Later(n, r, at, r.list) => InStage(n)
      PROVE  StoredData' /\ Steps(e)
  <2> DEFINE n == [r EXCEPT !.at = at]
  <2>1. r.list \in Seq(Songs) /\ edits' \in 0 .. MaxEdits
    BY <1>1 DEF Editings, StoredInv, StoredData
  <2>2. Later(n, r, at, r.list)
    BY <1>1, <2>1, AtStep
  <2>3. Go(e, n) /\ UNCHANGED <<file, queue, current, loaded>>
    BY <1>2
  <2> HIDE DEF n
  <2>4. InStage(n) /\ Undisturbed(n, file)
    BY <1>1, <1>2, <2>2 DEF Undisturbed, Later
  <2> QED  BY <1>1, <2>1, <2>2, <2>3, <2>4, GoSteps DEF Stages
<1>3. CASE Refuse(e)
  BY <1>1, <1>3, RefuseSteps
<1>4. CASE c.op \in {"create", "append", "replace"} /\ Next("queue")
  BY <1>1, <1>2, <1>4, CommandsTyped DEF Stages, InStage, Later
<1>5. CASE c.op = "clear" /\ Next("write")
  <2> DEFINE n == [r EXCEPT !.at = "write"]
  <2>1. r.list \in Seq(Songs) /\ edits' \in 0 .. MaxEdits /\ "write" \in Stages
    BY <1>1 DEF Editings, StoredInv, StoredData, Stages
  <2>2. Later(n, r, "write", r.list)
    BY <1>1, <2>1, AtStep
  <2>3. Go(e, n) /\ UNCHANGED <<file, queue, current, loaded>>
    BY <1>5
  <2> HIDE DEF n
  <2>4. InStage(n) /\ Undisturbed(n, file)
    BY <1>1, <1>5, <2>2, CommandsTyped DEF InStage, Undisturbed, Results, Later
  <2> QED  BY <1>1, <2>1, <2>2, <2>3, <2>4, GoSteps DEF Stages
<1>6. CASE c.op = "rm" /\ Next("remove")
  BY <1>1, <1>2, <1>6 DEF Stages, InStage, Later
<1>7. CASE c.op = "rename" /\ Next("rename")
  BY <1>1, <1>2, <1>7, CommandsTyped DEF Stages, InStage, Later
<1>8. CASE c.op = "load" /\ Next("resolve")
  BY <1>1, <1>2, <1>8, CommandsTyped DEF Stages, InStage, Later
<1>9. CASE c.op \notin {"create", "append", "replace", "clear", "rm", "rename", "load"} /\ Next("read")
  BY <1>1, <1>2, <1>9, CommandsTyped DEF Stages, InStage, Later
<1> HIDE DEF Next
<1>10. \/ Refuse(e)
       \/ c.op \in {"create", "append", "replace"} /\ Next("queue")
       \/ c.op = "clear" /\ Next("write")
       \/ c.op = "rm" /\ Next("remove")
       \/ c.op = "rename" /\ Next("rename")
       \/ c.op = "load" /\ Next("resolve")
       \/ c.op \notin {"create", "append", "replace", "clear", "rm", "rename", "load"} /\ Next("read")
  BY DEF Look, Next
<1> QED  BY <1>3, <1>4, <1>5, <1>6, <1>7, <1>8, <1>9, <1>10

LEMMA QueueSteps ==
  ASSUME StoredInv, NEW e \in Editors, TakeQueue(e)
  PROVE  StoredData' /\ Steps(e)
<1> DEFINE r == edit[e]
           at == IF r.cmd.op = "append" THEN "read" ELSE "write"
           n == [r EXCEPT !.list = queue, !.at = at]
<1>1. r.at = "queue" /\ r \in Editings /\ InStage(r) /\ Undisturbed(r, file)
  <2>1. r.at = "queue"
    BY DEF TakeQueue
  <2> QED  BY <2>1, NotWaiting DEF Stages
<1>2. queue \in Seq(Songs) /\ at \in Stages /\ edits' \in 0 .. MaxEdits
  BY DEF StoredInv, StoredData, Stages, TakeQueue
<1>3. Later(n, r, at, queue)
  BY <1>1, <1>2, AtStep
<1>4. Go(e, n) /\ UNCHANGED <<file, queue, current, loaded>>
  BY DEF TakeQueue
<1> HIDE DEF n
<1>5. InStage(n)
  <2>1. r.cmd \in EditCommands \union LoadCommands
    BY <1>1 DEF Editings
  <2>2. r.cmd \in EditCommands
    BY <1>1, <2>1, CommandsTyped DEF InStage
  <2> QED  BY <1>1, <1>3, <2>2 DEF InStage, Later
<1>6. Undisturbed(n, file)
  BY <1>1, <1>3 DEF Undisturbed, Later, Results, InStage
<1> QED  BY <1>1, <1>2, <1>3, <1>4, <1>5, <1>6, GoSteps DEF Stages

LEMMA ReadSteps ==
  ASSUME StoredInv, NEW e \in Editors, Read(e)
  PROVE  StoredData' /\ Steps(e)
<1> DEFINE r == edit[e]
           c == r.cmd
           l == OrEmpty(file[c.name])
           Writes(result) == /\ Go(e, [r EXCEPT !.list = result, !.at = "write"])
                            /\ UNCHANGED <<file, queue, current, loaded>>
<1>1. /\ r.at = "read" /\ r \in Editings /\ InStage(r) /\ Undisturbed(r, file) /\ UNCHANGED edits
      /\ c \in EditCommands /\ c.op \in {"append", "add", "delete", "move"} /\ r.list \in Seq(Songs)
  <2>1. r.at = "read" /\ UNCHANGED edits
    BY DEF Read
  <2>2. r \in Editings /\ InStage(r) /\ Undisturbed(r, file)
    BY <2>1, NotWaiting DEF Stages
  <2> QED  BY <2>1, <2>2 DEF Editings, InStage
<1>2. file[c.name] \in StoredLists /\ l \in Seq(Songs)
  <2>1. c.name \in Lists
    BY <1>1, CommandsTyped
  <2> QED  BY <2>1, OrEmptyTyped DEF StoredInv, StoredData
<1>3. ASSUME NEW result \in Seq(Songs), Writes(result), Results(c, file[c.name], result)
      PROVE  StoredData' /\ Steps(e)
  <2> DEFINE n == [r EXCEPT !.list = result, !.at = "write"]
  <2>1. edits' \in 0 .. MaxEdits /\ "write" \in Stages
    BY <1>1 DEF StoredInv, StoredData, Stages
  <2>2. Later(n, r, "write", result)
    BY <1>1, <2>1, AtStep
  <2>3. Go(e, n) /\ UNCHANGED <<file, queue, current, loaded>>
    BY <1>3
  <2> HIDE DEF n
  <2>4. InStage(n)
    BY <1>1, <2>2 DEF InStage, Later
  <2>5. Undisturbed(n, file)
    BY <1>1, <1>3, <2>2 DEF Undisturbed, Later
  <2> QED  BY <1>1, <2>1, <2>2, <2>3, <2>4, <2>5, GoSteps DEF Stages
<1>4. CASE Refuse(e)
  BY <1>1, <1>4, RefuseSteps
<1>5. CASE c.op = "append" /\ Writes(l \o r.list)
  <2>1. l \o r.list \in Seq(Songs)
    BY <1>1, <1>2, ConcatProperties
  <2>2. Results(c, file[c.name], l \o r.list)
    BY <1>1, <1>5 DEF Results
  <2> HIDE DEF Writes
  <2> QED  BY <1>3, <1>5, <2>1, <2>2
<1>6. CASE c.op # "append" /\ Accepts(c, l) /\ Writes(Edited(c, l))
  <2>1. c.op \in {"add", "delete", "move"} /\ (c.op = "move" => c.from < c.to)
    BY <1>1, <1>6 DEF InStage
  <2>2. Edited(c, l) \in Seq(Songs)
    <3> HIDE DEF c, l
    <3> QED  BY <1>1, <1>2, <1>6, <2>1, EditedFits
  <2>3. Results(c, file[c.name], Edited(c, l))
    BY <1>6 DEF Results
  <2> HIDE DEF Writes
  <2> QED  BY <1>3, <1>6, <2>2, <2>3
<1> HIDE DEF Writes
<1>7. \/ Refuse(e)
      \/ c.op = "append" /\ Writes(l \o r.list)
      \/ c.op # "append" /\ Accepts(c, l) /\ Writes(Edited(c, l))
  BY DEF Read, Writes
<1> QED  BY <1>4, <1>5, <1>6, <1>7

\* The directory changes under the others.
LEMMA TouchSteps ==
  ASSUME StoredInv, NEW e \in Editors, NEW r, edit' = [Disturbed(e) EXCEPT ![e] = r],
         file' \in [Lists -> StoredLists], \A n \in Lists : ~file'[n].there => file'[n] = Gone,
         UNCHANGED <<queue, current, loaded, edits>>, SoundEdit(r, file'), edit[e].at # "insert"
  PROVE  StoredData' /\ Steps(e)
BY DEF Steps, Proceeds, StoredInv, StoredData

LEMMA TruncateSteps ==
  ASSUME StoredInv, NEW e \in Editors, Truncate(e)
  PROVE  StoredData' /\ Steps(e)
<1> DEFINE r == edit[e]
           n == [r EXCEPT !.at = "fill"]
<1>1. r.at = "write" /\ r \in Editings /\ InStage(r) /\ Undisturbed(r, file)
  <2>1. r.at = "write"
    BY DEF Truncate
  <2> QED  BY <2>1, NotWaiting DEF Stages
<1>2. r.list \in Seq(Songs) /\ "fill" \in Stages /\ r.cmd.name \in Lists
  <2>1. r.cmd \in EditCommands \union LoadCommands
    BY <1>1 DEF Editings
  <2> QED  BY <1>1, <2>1, CommandsTyped DEF Editings, Stages
<1>3. Later(n, r, "fill", r.list)
  BY <1>1, <1>2, AtStep
<1>4. edit' = [Disturbed(e) EXCEPT ![e] = n]
  <2>1. Disturbed(e)[e] = r
    BY DEF Disturbed
  <2> QED  BY <2>1 DEF Truncate
<1>5. File(<<>>) \in StoredLists /\ File(<<>>).there
  BY DEF File, StoredLists
<1>6. /\ file' \in [Lists -> StoredLists] /\ \A m \in Lists : ~file'[m].there => file'[m] = Gone
      /\ UNCHANGED <<queue, current, loaded, edits>>
  BY <1>5 DEF Truncate, StoredInv, StoredData
<1> HIDE DEF n
<1>7. SoundEdit(n, file')
  BY <1>1, <1>3 DEF SoundEdit, InStage, Undisturbed, Later
<1> QED  BY <1>1, <1>4, <1>6, <1>7, TouchSteps

\* A command ends, and whatever it made of the directory is of lists.
LEMMA EndSteps ==
  ASSUME StoredInv, NEW e \in Editors, EndEdit(e), file' \in [Lists -> StoredLists],
         \A n \in Lists : ~file'[n].there => file'[n] = Gone,
         UNCHANGED <<queue, current, loaded, edits>>, edit[e].at # "insert"
  PROVE  StoredData' /\ Steps(e)
BY TouchSteps DEF EndEdit, SoundEdit

LEMMA WriteSteps ==
  ASSUME StoredInv, NEW e \in Editors, Fill(e) \/ FillFails(e) \/ RemoveList(e) \/ Rename(e)
  PROVE  StoredData' /\ Steps(e)
<1> DEFINE r == edit[e]
           c == r.cmd
<1>1. /\ r.at \in {"fill", "remove", "rename"} /\ r.list \in Seq(Songs) /\ c.name \in Lists
      /\ r.at = "rename" => c.new \in Lists
  <2>1. r.at \in {"fill", "remove", "rename"}
    BY DEF Fill, FillFails, RemoveList, Rename
  <2>2. r \in Editings /\ InStage(r)
    BY <2>1, NotWaiting DEF Stages
  <2>3. c \in EditCommands \union LoadCommands /\ r.list \in Seq(Songs) /\ (r.at = "rename" => c.op = "rename")
    BY <2>2 DEF Editings, InStage
  <2> QED  BY <2>1, <2>3, CommandsTyped
<1>2. /\ file \in [Lists -> StoredLists] /\ \A n \in Lists : ~file[n].there => file[n] = Gone
      /\ Gone \in StoredLists /\ UNCHANGED <<queue, current, loaded, edits>>
  BY DEF StoredInv, StoredData, Gone, StoredLists, Fill, FillFails, RemoveList, Rename
<1>3. CASE EndEdit(e) /\ file' = file
  BY <1>1, <1>2, <1>3, EndSteps
<1>4. CASE EndEdit(e) /\ file' = [file EXCEPT ![c.name] = File(r.list)]
  <2>1. File(r.list) \in StoredLists /\ File(r.list).there
    <3>1. r.list \in Seq(Songs \union {Comment})
      BY <1>1, SeqMonotonic
    <3> QED  BY <3>1 DEF File, StoredLists
  <2>2. file' \in [Lists -> StoredLists] /\ \A n \in Lists : ~file'[n].there => file'[n] = Gone
    <3> DEFINE new == File(r.list)
    <3> HIDE DEF new
    <3> QED  BY <1>1, <1>2, <1>4, <2>1 DEF new
  <2> QED  BY <1>1, <1>2, <1>4, <2>2, EndSteps
<1>5. CASE EndEdit(e) /\ file' = [file EXCEPT ![c.name] = Gone]
  <2>1. file' \in [Lists -> StoredLists] /\ \A n \in Lists : ~file'[n].there => file'[n] = Gone
    BY <1>1, <1>2, <1>5
  <2> QED  BY <1>1, <1>2, <1>5, <2>1, EndSteps
<1>6. CASE EndEdit(e) /\ r.at = "rename" /\ file' = [file EXCEPT ![c.new] = file[c.name], ![c.name] = Gone]
  <2>1. file' \in [Lists -> StoredLists] /\ \A n \in Lists : ~file'[n].there => file'[n] = Gone
    BY <1>1, <1>2, <1>6
  <2> QED  BY <1>1, <1>2, <1>6, <2>1, EndSteps
<1>7. CASE Go(e, Waiting) /\ file' = file
  BY <1>1, <1>2, <1>7 DEF Go, Steps, Proceeds, SoundEdit, StoredData, StoredInv
<1> QED  BY <1>3, <1>4, <1>5, <1>6, <1>7 DEF Fill, FillFails, RemoveList, Rename

LEMMA ResolveSteps ==
  ASSUME StoredInv, NEW e \in Editors, Resolve(e)
  PROVE  StoredData' /\ Steps(e)
<1> DEFINE r == edit[e]
           c == r.cmd
           pos == IF c.relative THEN current + 1 + c.pos ELSE c.pos
           d == [c EXCEPT !.pos = pos]
           n == [r EXCEPT !.at = "songs", !.cmd = d]
<1>1. /\ r.at = "resolve" /\ r \in Editings /\ InStage(r) /\ UNCHANGED edits
      /\ c \in LoadCommands
  <2>1. r.at = "resolve" /\ UNCHANGED edits
    BY DEF Resolve
  <2>2. r \in Editings /\ InStage(r)
    BY <2>1, NotWaiting DEF Stages
  <2> QED  BY <2>1, <2>2 DEF InStage
<1>2. CASE Refuse(e)
  BY <1>1, <1>2, RefuseSteps
<1>3. CASE /\ ~(c.relative /\ current = NoPosition)
           /\ Go(e, n) /\ UNCHANGED <<file, queue, current, loaded>>
  <2>1. c \in [op : {"load"}, name : Lists, pos : Positions, relative : BOOLEAN, range : Nat \X Nat]
        /\ (c.relative => c.pos \in Nat)
    BY <1>1 DEF LoadCommands
  <2>2. current \in Positions
    BY DEF StoredInv, StoredData
  <2>3. pos \in Positions /\ (c.relative => pos \in Nat)
    BY <1>3, <2>1, <2>2 DEF Positions
  <2> HIDE DEF pos
  <2>4. d \in [op : {"load"}, name : Lists, pos : Positions, relative : BOOLEAN, range : Nat \X Nat]
        /\ d.relative = c.relative /\ d.pos = pos
    BY <2>1, <2>3
  <2> HIDE DEF c
  <2>5. d \in LoadCommands /\ d.op = "load"
    BY <2>3, <2>4 DEF LoadCommands
  <2> HIDE DEF d
  <2>6. n \in Editings /\ n.at = "songs" /\ n.cmd = d
    BY <1>1, <2>5 DEF Editings, Stages
  <2> HIDE DEF n
  <2>7. n # Waiting /\ InStage(n) /\ Undisturbed(n, file)
    BY <2>5, <2>6 DEF InStage, Undisturbed, Waiting
  <2>8. SoundEdit(n, file') /\ Proceeds(e, n)
    BY <1>3, <2>6, <2>7 DEF SoundEdit, Proceeds, Go
  <2> QED  BY <1>1, <1>3, <2>7, <2>8 DEF Steps, StoredInv, StoredData
<1> HIDE DEF n, d, pos
<1>4. Refuse(e) \/ (/\ ~(c.relative /\ current = NoPosition)
                    /\ Go(e, n) /\ UNCHANGED <<file, queue, current, loaded>>)
  BY DEF Resolve, n, d, pos
<1> QED  BY <1>2, <1>3, <1>4

\* What can be loaded are songs.
LEMMA ListedTyped ==
  ASSUME StoredInv, NEW n \in Lists, Exists(n)
  PROVE  Listed(n) \in Seq(Songs)
<1>1. CASE file[n].there
  <2>1. file[n] \in StoredLists
    BY DEF StoredInv, StoredData
  <2> QED  BY <1>1, <2>1, OrEmptyTyped DEF Listed
<1>2. CASE ~file[n].there
  <2> DEFINE I == {i \in 1 .. Len(Precedence) : Precedence[i] \in DOMAIN Foreign[n]}
  <2>1. First(n) = IF I # {} THEN Min(I) ELSE 0
    BY DEF First, SelectInSeq
  <2>2. First(n) # 0
    BY <1>2 DEF Exists
  <2>3. I # {} /\ I \subseteq Nat
    BY <2>1, <2>2
  <2>4. PICK x \in I : \A y \in I : x <= y
    BY <2>3, LeastNat
  <2>5. Min(I) \in I
    <3> HIDE DEF I
    <3> QED  BY <2>3, <2>4 DEF Min
  <2>6. Precedence[First(n)] \in DOMAIN Foreign[n]
    BY <2>1, <2>3, <2>5
  <2> QED  BY <1>2, <2>6, StoredConstants DEF Listed
<1> QED  BY <1>1, <1>2

LEMMA SongsSteps ==
  ASSUME StoredInv, NEW e \in Editors, ReadSongs(e)
  PROVE  StoredData' /\ Steps(e)
<1> DEFINE r == edit[e]
           c == r.cmd
           l == Ranged(Listed(c.name), c.range)
           list == IF CueOnly(c.name) THEN l ELSE Selected(l, Known)
           n == [r EXCEPT !.at = "insert", !.list = list]
<1>1. /\ r.at = "songs" /\ r \in Editings /\ InStage(r) /\ Undisturbed(r, file) /\ UNCHANGED edits
      /\ c \in LoadCommands /\ c.name \in Lists
  <2>1. r.at = "songs" /\ UNCHANGED edits
    BY DEF ReadSongs
  <2>2. r \in Editings /\ InStage(r) /\ Undisturbed(r, file)
    BY <2>1, NotWaiting DEF Stages
  <2>3. c \in LoadCommands
    BY <2>1, <2>2 DEF InStage
  <2> QED  BY <2>1, <2>2, <2>3, CommandsTyped
<1>2. CASE Refuse(e)
  BY <1>1, <1>2, RefuseSteps
<1>3. CASE Exists(c.name) /\ Go(e, n) /\ UNCHANGED <<file, queue, current, loaded>>
  <2>1. Listed(c.name) \in Seq(Songs) /\ c.range[1] \in Nat /\ c.range[2] \in Nat
    BY <1>1, <1>3, ListedTyped DEF LoadCommands
  <2>2. l \in Seq(Songs)
    <3> DEFINE m == Listed(c.name)
    <3>1. m \in Seq(Songs) /\ Len(m) \in Nat
      BY <2>1
    <3> HIDE DEF m
    <3>2. Clipped(c.range[1], m) \in 0 .. Len(m) /\ Clipped(c.range[2], m) \in 0 .. Len(m)
      BY <2>1, <3>1 DEF Clipped
    <3>3. \A a, b \in 0 .. Len(m) : SubSeq(m, a + 1, b) \in Seq(Songs)
      BY <3>1
    <3> QED  BY <3>2, <3>3 DEF Ranged, m
  <2>3. list \in Seq(Songs)
    BY <2>2, SelectedTyped
  <2> HIDE DEF list
  <2>4. edits' \in 0 .. MaxEdits /\ "insert" \in Stages
    BY <1>1 DEF StoredInv, StoredData, Stages
  <2>5. Later(n, r, "insert", list)
    BY <1>1, <2>3, <2>4, AtStep
  <2>6. Go(e, n) /\ UNCHANGED <<file, queue, current, loaded>>
    BY <1>3
  <2> HIDE DEF n
  <2>7. InStage(n) /\ Undisturbed(n, file)
    BY <1>1, <2>5, CommandsTyped DEF InStage, Undisturbed, Later
  <2> QED  BY <1>1, <2>3, <2>4, <2>5, <2>6, <2>7, GoSteps DEF Stages
<1> HIDE DEF n
<1>4. Refuse(e) \/ (Exists(c.name) /\ Go(e, n) /\ UNCHANGED <<file, queue, current, loaded>>)
  BY DEF ReadSongs, n
<1> QED  BY <1>2, <1>3, <1>4

\* What a load has found goes into the queue as a block.
LEMMA InsertSteps ==
  ASSUME StoredInv, NEW e \in Editors, Insert(e)
  PROVE  /\ StoredData' /\ Steps(e)
         /\ LET c == edit[e].cmd
                k == IF c.pos = NoPosition THEN Len(queue) ELSE Clipped(c.pos, queue)
            IN  queue' = InsertedAt(queue, k, edit[e].list)
<1> DEFINE r == edit[e]
           c == r.cmd
           l == r.list
           k == IF c.pos = NoPosition THEN Len(queue) ELSE Clipped(c.pos, queue)
<1>1. /\ r.at = "insert" /\ l \in Seq(Songs) /\ c.name \in Lists /\ c.pos \in Positions
      /\ UNCHANGED <<file, current, edits>> /\ loaded' = c.name /\ Go(e, Waiting)
  <2>1. r.at = "insert" /\ UNCHANGED <<file, current, edits>> /\ loaded' = c.name /\ Go(e, Waiting)
    BY DEF Insert
  <2>2. r \in Editings /\ InStage(r)
    BY <2>1, NotWaiting DEF Stages
  <2> QED  BY <2>1, <2>2 DEF InStage, Editings, LoadCommands
<1>2. queue \in Seq(Songs) /\ Len(queue) \in Nat
  BY DEF StoredInv, StoredData
<1>3. k \in 0 .. Len(queue)
  BY <1>1, <1>2 DEF Positions, Clipped
<1>4. queue' = InsertedAt(queue, k, l)
  <2>1. CASE c.pos = NoPosition
    <3>1. SubSeq(queue, 1, Len(queue)) = queue /\ SubSeq(queue, Len(queue) + 1, Len(queue)) = <<>>
      BY <1>2, SubSeqFull, SubSeqEmpty
    <3>2. queue \o l \in Seq(Songs)
      BY <1>1, <1>2
    <3>3. (queue \o l) \o <<>> = queue \o l
      BY <3>2, ConcatEmptySeq
    <3> QED  BY <2>1, <3>1, <3>3 DEF Insert, InsertedAt
  <2>2. CASE c.pos # NoPosition
    <3>1. c.pos \in Nat
      BY <1>1, <2>2 DEF Positions
    <3>2. InsertEach(queue, c.pos, l) = InsertedAt(queue, Clipped(c.pos, queue), l)
      BY <1>1, <1>2, <3>1, InsertedTogether
    <3> QED  BY <2>2, <3>2 DEF Insert
  <2> QED  BY <2>1, <2>2
<1>5. queue' \in Seq(Songs)
  <2> HIDE DEF k
  <2> QED  BY <1>1, <1>2, <1>3, <1>4, InsertedAtProps
<1>6. StoredData'
  BY <1>1, <1>5 DEF StoredInv, StoredData
<1>7. Steps(e)
  BY <1>1 DEF Steps, Proceeds, Go, SoundEdit
<1> QED  BY <1>4, <1>6, <1>7

LEMMA ShortenSteps ==
  ASSUME StoredInv, ShortenQueue
  PROVE  StoredInv' /\ UNCHANGED edit
<1>1. queue \in Seq(Songs) /\ queue # <<>> /\ queue' = SubSeq(queue, 1, Len(queue) - 1)
  BY DEF StoredInv, StoredData, ShortenQueue, Front
<1>2. queue' \in Seq(Songs)
  BY <1>1
<1>3. current' \in Positions
  BY DEF StoredInv, StoredData, ShortenQueue, Positions
<1> QED  BY <1>2, <1>3 DEF StoredInv, StoredData, ShortenQueue

\* Every step of a connection.
LEMMA EachSteps ==
  ASSUME StoredInv, NEW e \in Editors,
         \/ \E c \in Edits \union Loads : AskEdit(e, c)
         \/ Look(e) \/ TakeQueue(e) \/ Read(e) \/ Truncate(e) \/ Fill(e) \/ FillFails(e)
         \/ RemoveList(e) \/ Rename(e) \/ Resolve(e) \/ ReadSongs(e) \/ Insert(e)
  PROVE  StoredData' /\ Steps(e)
BY AskSteps, LookSteps, QueueSteps, ReadSteps, TruncateSteps, WriteSteps, ResolveSteps, SongsSteps, InsertSteps

LEMMA StoredKeeps == StoredInv /\ [StoredNext]_storedvars => StoredInv'
<1> SUFFICES ASSUME StoredInv, [StoredNext]_storedvars  PROVE StoredInv'
  OBVIOUS
<1>1. CASE UNCHANGED storedvars
  BY <1>1 DEF storedvars, StoredInv, StoredData
<1>2. CASE ShortenQueue
  BY <1>2, ShortenSteps
<1>3. ASSUME NEW e \in Editors, StoredData', Steps(e)  PROVE StoredInv'
  <2>1. PICK r : Proceeds(e, r) /\ SoundEdit(r, file')
    BY <1>3 DEF Steps
  <2>2. edit' = [x \in Editors |-> edit'[x]] /\ \A x \in Editors : SoundEdit(edit'[x], file')
    BY <2>1, OthersStay
  <2> QED  BY <1>3, <2>2 DEF StoredInv
<1> QED  BY <1>1, <1>2, <1>3, EachSteps DEF StoredNext

\* What the list to write is, when nobody else touched the directory.
LEMMA AskedFits ==
  ASSUME StoredInv, NEW e \in Editors, edit[e].at = "fill", edit[e].alone
  PROVE  Fits(edit[e].cmd, OrEmpty(edit[e].found), edit[e].list)
<1> DEFINE r == edit[e]
           c == r.cmd
           old == OrEmpty(r.found)
           l == r.list
<1>1. r \in Editings /\ InStage(r) /\ Undisturbed(r, file)
  BY NotWaiting DEF Stages
<1>2. /\ c \in EditCommands /\ old \in Seq(Songs) /\ Results(c, r.found, l)
      /\ c.op = "move" => c.from < c.to
  BY <1>1, OrEmptyTyped DEF InStage, Editings, Undisturbed
<1> HIDE DEF c, l
<1>3. CASE c.op \in {"add", "delete", "move"}
  <2>1. Accepts(c, old) /\ l = Edited(c, old)
    BY <1>2, <1>3 DEF Results
  <2> HIDE DEF old
  <2> QED  BY <1>2, <1>3, <2>1, EditedFits DEF c, l, old
<1>4. CASE c.op = "append"
  <2>1. PICK q \in Seq(Songs) : l = old \o q
    BY <1>2, <1>4 DEF Results
  <2> HIDE DEF old
  <2>2. Len(old) <= Len(l) /\ SubSeq(old, 1, Len(old)) = SubSeq(l, 1, Len(old))
    BY <1>2, <2>1
  <2>3. IsPrefix(old, l)
    BY <2>2 DEF IsPrefix
  <2> QED  BY <1>4, <2>3 DEF Fits, c, l, old
<1>5. CASE c.op \notin {"add", "delete", "move", "append"}
  BY <1>5 DEF Fits, c
<1> QED  BY <1>3, <1>4, <1>5

\* A command that inserts ends with what it inserted.
LEMMA InsertEnds ==
  ASSUME StoredInv, [StoredNext]_storedvars, NEW e \in Editors, edit[e].at = "insert", edit'[e] = Waiting
  PROVE  Insert(e)
<1>1. edit[e] # Waiting
  BY DEF Waiting
<1>2. ~(UNCHANGED storedvars) /\ ~ShortenQueue
  BY <1>1, ShortenSteps DEF storedvars
<1>3. PICK x \in Editors : Steps(x)
  BY <1>2, EachSteps DEF StoredNext
<1>4. PICK r : Proceeds(x, r) /\ SoundEdit(r, file') /\ (edit[x].at = "insert" /\ r = Waiting => Insert(x))
  BY <1>3 DEF Steps
<1>5. edit'[x] = r /\ \A y \in Editors : y # x => (edit'[y] = Waiting <=> edit[y] = Waiting)
  BY <1>4, OthersStay
<1>6. x = e
  BY <1>1, <1>5
<1> QED  BY <1>4, <1>5, <1>6

-----------------------------------------------------------------------------
\* Playlists are lists of songs and comments, whatever edits, failed writes and loads do (playlists.rs).
THEOREM StoredAlways == StoredSpec => []StoredTypeOK
<1>1. StoredInv => StoredTypeOK
  BY DEF StoredInv, StoredData, StoredLists, StoredTypeOK, Positions
<1> QED  BY <1>1, StoredInvInit, StoredKeeps, PTL DEF StoredSpec

\* A connection that edits a playlist while no other edits the directory gets what it asked for: what
\* playlistadd put in, playlistdelete took out or playlistmove moved, and the rest as it was, for lists
\* of any length, any positions and any number of connections (playlists.rs, commands/playlists.rs).
THEOREM EditAsAskedAlways == StoredSpec => EditAsAsked
<1>1. StoredInv /\ [StoredNext]_storedvars =>
        [\A e \in Editors :
           (edit[e].at = "fill" /\ edit'[e] = Waiting /\ edit[e].alone) =>
             LET c == edit[e].cmd  f == edit[e].found
             IN  file'[c.name].lines = edit[e].list /\ (Readable(f) \/ c.op = "add")
                   => Fits(c, OrEmpty(f), file'[c.name].lines)]_storedvars
  BY AskedFits
<1> QED  BY <1>1, StoredInvInit, StoredKeeps, PTL DEF StoredSpec, EditAsAsked

\* A playlist loaded song by song stands together in the queue, in order, at the position that was
\* resolved before or at the end, whatever became of the queue since (handle_load_command).
THEOREM LoadStandsTogetherAlways == StoredSpec => LoadStandsTogether
<1>1. StoredInv /\ [StoredNext]_storedvars =>
        [\A e \in Editors :
           (edit[e].at = "insert" /\ edit'[e] = Waiting) =>
             LET c == edit[e].cmd
                 k == IF c.pos = NoPosition THEN Len(queue) ELSE Clipped(c.pos, queue)
             IN  queue' = InsertedAt(queue, k, edit[e].list)]_storedvars
  BY InsertEnds, InsertSteps
<1> QED  BY <1>1, StoredInvInit, StoredKeeps, PTL DEF StoredSpec, LoadStandsTogether

-----------------------------------------------------------------------------
\* The variables of all the components keep their types, for any values of their
\* constants: maps and sequences hold what the code's types say, counters stay within
\* their bounds, a closed connection holds no batch, a file that is not there has no text.
THEOREM ServerTypeOKAlways == Components => []ServerTypeOK
<1>1. PartitionsSpec => []PartitionsTypeOK
  BY OutputsFollowAlways, PTL
<1>2. LibrarySpec => []LibraryTypeOK
  BY RemoteKeptAlways
<1>3. StoredSpec => []StoredTypeOK
  BY StoredAlways
<1>4. StateFileSpec => []StateFileTypeOK
  BY RestoredAlikeAlways
<1>5. ConnectionSpec => []ConnectionTypeOK
  BY AnswersInStepAlways, PTL
<1>6. StickersSpec => []StickersTypeOK
  BY StickersToldAlways, PTL
<1>7. ArtSpec => []ArtTypeOK
  BY PictureWholeAlways, PTL
<1>8. MountsSpec => []MountsTypeOK
  BY MountsListedAlways, PTL
<1> QED  BY <1>1, <1>2, <1>3, <1>4, <1>5, <1>6, <1>7, <1>8, PTL DEF Components, ServerTypeOK
=============================================================================
