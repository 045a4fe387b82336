-------------------------- MODULE UserAccessProofs --------------------------
(***************************************************************************)
(* Who is served is in the user file, who is in the file is known, and     *)
(* nobody who was added is lost: for any file, commands, editors, requests *)
(* and clock, with the exceptions the properties name.                     *)
(***************************************************************************)
EXTENDS UserAccess, SequenceTheorems, TLAPS

Second == {NoFile} \cup 0..clock

TimesOK ==
  /\ clock \in Nat
  /\ mtime \in Second /\ userFileMTime \in Second /\ statMTime \in Second
  /\ lastUpdate \in Int /\ lastUpdate <= clock
  /\ began \in 0..clock
  /\ pc \in {"idle", "stat", "open", "lookup"}
  /\ changedAt \in [Entry -> Int]
  /\ hasty \in BOOLEAN /\ missing \in BOOLEAN

Step == {"read", "write", "written", "done"}

LinesOK == lines \in Seq(Line) /\ Len(lines) > 0

CommandsOK ==
  adder \in [Adder -> [step : Step, text : Seq(Line)]]

UsersOK ==
  /\ users \subseteq Entry
  /\ \A e, f \in users : e.user = f.user => e = f

\* An mtime the server knows stands for the content it has read, or for nothing.
SameOK ==
  ~hasty /\ mtime # NoFile /\ mtime = userFileMTime
    => /\ users \subseteq Parse(lines)
       /\ unopened = Never => Parse(lines) \subseteq users

\* Between two readings the server and the file differ in recent changes only.
Fresh(e) == changedAt[e] >= lastUpdate

RecentOK ==
  pc \in {"idle", "lookup"} /\ ~hasty
    => /\ ~missing => \A e \in users : e \in Listed \/ Fresh(e)
       /\ unopened = Never => \A e \in Listed : e \in users \/ Fresh(e)

\* A look-up trusts a reading that is younger than the interval.
LookedOK ==
  /\ pc = "lookup" => lastUpdate > began - UpdateInterval
  /\ pc \in {"stat", "open"} => lastUpdate = began

\* A file that could not be opened is looked at again when it has changed.
OpenOK ==
  /\ unopened \in Int
  /\ unopened # Never => userFileMTime <= unopened
  /\ pc \in {"idle", "lookup"} /\ unopened # Never /\ mtime # NoFile
       => mtime <= unopened \/ mtime >= lastUpdate

Writing == \E a \in Adder : adder[a].step = "written"

\* Without a mishap only one command is at work, and it has everybody's line
\* when the file has not.
AddedOK ==
  /\ mtime = NoFile => due = {}
  /\ mishap = {} =>
       /\ \A a, b \in Adder : Active(a) /\ Active(b) => a = b
       /\ \A a \in Adder : Active(a) => due \subseteq ToSet(adder[a].text)
       /\ ~Writing /\ mtime # NoFile => due \subseteq ToSet(lines)

IInv == TimesOK /\ LinesOK /\ CommandsOK /\ UsersOK /\ SameOK /\ RecentOK
          /\ LookedOK /\ OpenOK /\ AddedOK

-----------------------------------------------------------------------------
\* userUpdate makes entries of the lines, one for each user.
LEMMA ParseOK ==
  ASSUME NEW text \in Seq(Line)
  PROVE  /\ Parse(text) \subseteq Entry
         /\ \A e, f \in Parse(text) : e.user = f.user => e = f
<1> DEFINE n == IF Len(text) < MaxLines THEN Len(text) ELSE MaxLines
           Counts(i) == /\ text[i] # Blank
                        /\ \A j \in (i + 1)..n :
                             text[j] # Blank => text[j].user # text[i].user
<1>1. n \in Nat /\ 1..n \subseteq 1..Len(text)
  <2>1. MaxLines \in Nat /\ Len(text) \in Nat
    BY Zenon, AccessAssumption, LenProperties
  <2>2. n \in Nat /\ n <= Len(text)
    BY SMT, <2>1
  <2> HIDE DEF n
  <2> QED
    BY SMT, <2>1, <2>2
<1>2. \A e : e \in Parse(text) <=> \E i \in 1..n : Counts(i) /\ e = text[i]
  BY Zenon DEF Parse
<1> HIDE DEF n
<1>3. \A i \in 1..n : text[i] # Blank => text[i] \in Entry
  BY SMT, <1>1 DEF Line
<1>4. Parse(text) \subseteq Entry
  <2>1. \A e \in Parse(text) : \E i \in 1..n : text[i] # Blank /\ e = text[i]
    BY Zenon, <1>2
  <2> QED
    BY Zenon, <1>3, <2>1
<1>5. ASSUME NEW i \in 1..n, NEW j \in 1..n, Counts(i), Counts(j),
             text[i].user = text[j].user
      PROVE  i = j
  BY SMT, <1>1, <1>5
<1> HIDE DEF Counts
<1>6. ASSUME NEW e \in Parse(text), NEW f \in Parse(text), e.user = f.user PROVE e = f
  <2>1. PICK i \in 1..n : Counts(i) /\ e = text[i]
    BY Zenon, <1>2
  <2>2. PICK j \in 1..n : Counts(j) /\ f = text[j]
    BY Zenon, <1>2
  <2>3. i = j
    BY Zenon, <1>5, <1>6, <2>1, <2>2
  <2> QED
    BY Zenon, <2>1, <2>2, <2>3
<1> QED
  BY Zenon, <1>4, <1>6

LEMMA ListedOK == ASSUME LinesOK PROVE Listed \subseteq Entry
  BY Zenon, ParseOK DEF LinesOK, Listed

LEMMA InitIInv == Init => IInv
<1> SUFFICES ASSUME Init PROVE IInv
  OBVIOUS
<1>1. TimesOK
  <2>1. UpdateInterval \in Nat \ {0}
    BY Zenon, AccessAssumption
  <2>2. /\ clock = 1 /\ mtime = 0 /\ userFileMTime = NoFile /\ statMTime = NoFile
        /\ lastUpdate = Never /\ began = 0 /\ pc = "idle"
        /\ changedAt = [e \in Entry |-> Never]
        /\ hasty = FALSE /\ missing = FALSE
    BY Zenon DEF Init
  <2>3. Never \in Int /\ Never <= 1
    BY SMT, <2>1 DEF Never
  <2>4. changedAt \in [Entry -> Int]
    BY Zenon, <2>2, <2>3
  <2>5. clock \in Nat /\ 0 \in 0..clock /\ lastUpdate <= clock /\ lastUpdate \in Int
    BY SMT, <2>2, <2>3
  <2> QED
    BY Zenon, <2>2, <2>4, <2>5 DEF TimesOK, Second
<1>2. LinesOK
  BY SMT, AccessAssumption DEF Init, LinesOK
<1>3. CommandsOK
  BY SMT DEF Init, CommandsOK, Step
<1>4. UsersOK
  BY Zenon DEF Init, UsersOK
<1>5. SameOK
  BY SMT DEF Init, SameOK, NoFile
<1>6. RecentOK
  <2>1. users = {} /\ changedAt = [e \in Entry |-> Never] /\ lastUpdate = Never
    BY Zenon DEF Init
  <2>2. Never \in Int /\ Listed \subseteq Entry
    BY SMT, <1>2, ListedOK, AccessAssumption DEF Never
  <2> QED
    BY SMT, <2>1, <2>2 DEF RecentOK, Fresh
<1>7. LookedOK
  BY SMT DEF Init, LookedOK
<1>9. OpenOK
  <2>1. unopened = Never /\ Never \in Int
    BY SMT, AccessAssumption DEF Init, Never
  <2> QED
    BY Zenon, <2>1 DEF OpenOK
<1>8. AddedOK
  <2>1. \A a \in Adder : ~Active(a) /\ adder[a].step # "written"
    BY SMT DEF Init, Active
  <2>2. mtime # NoFile /\ due \subseteq ToSet(lines)
    BY SMT DEF Init, NoFile
  <2> QED
    BY Zenon, <2>1, <2>2 DEF AddedOK
<1> QED
  BY Zenon, <1>1, <1>2, <1>3, <1>4, <1>5, <1>6, <1>7, <1>8, <1>9 DEF IInv

-----------------------------------------------------------------------------
\* What the server knows while the file changes: the part of the invariant that
\* is about both of them.
View == TimesOK /\ LinesOK /\ UsersOK /\ SameOK /\ RecentOK /\ LookedOK /\ OpenOK

LEMMA SetFileKeeps ==
  ASSUME View, NEW text \in Seq(Line), Len(text) > 0, SetFile(text),
         UNCHANGED <<clock, table, get, seen>>
  PROVE  View'
<1>1. /\ clock' = clock /\ users' = users /\ userFileMTime' = userFileMTime
      /\ lastUpdate' = lastUpdate /\ pc' = pc /\ began' = began
      /\ statMTime' = statMTime /\ missing' = missing /\ unopened' = unopened
  BY Zenon DEF table, get, seen
<1>2. /\ lines' = text /\ mtime' = clock
      /\ hasty' = (hasty \/ clock \in {statMTime, userFileMTime})
      /\ changedAt' = [e \in Entry |->
           IF e \in Listed <=> e \in Parse(text) THEN changedAt[e] ELSE clock]
  BY Zenon DEF SetFile
<1>3. clock \in Nat /\ mtime' # NoFile
  BY SMT, <1>2 DEF View, TimesOK, NoFile
<1>4. Listed' = Parse(text)
  BY Zenon, <1>2, <1>3 DEF Listed
<1>5. TimesOK'
  <2>1. changedAt' \in [Entry -> Int]
    <3>1. clock \in Int /\ \A e \in Entry : changedAt[e] \in Int
      BY SMT, <1>3 DEF View, TimesOK
    <3> QED
      BY Zenon, <1>2, <3>1
  <2>2. hasty' \in BOOLEAN
    BY SMT, <1>2 DEF View, TimesOK
  <2>3. clock \in 0..clock
    BY SMT, <1>3
  <2> QED
    BY Zenon, <1>1, <1>2, <2>1, <2>2, <2>3 DEF View, TimesOK, Second
<1>6. LinesOK' /\ UsersOK' /\ LookedOK'
  BY Zenon, <1>1, <1>2 DEF View, LinesOK, UsersOK, LookedOK
<1>7. SameOK'
  BY Zenon, <1>1, <1>2 DEF SameOK
<1>8. RecentOK'
  <2>1. ~hasty' => ~hasty
    BY Zenon, <1>2
  <2>2. /\ clock >= lastUpdate /\ Parse(text) \subseteq Entry /\ Listed \subseteq Entry
        /\ users \subseteq Entry
    BY SMT, ListedOK, ParseOK DEF View, TimesOK, UsersOK
  <2>3. ASSUME NEW e \in Entry, Fresh(e) \/ ~(e \in Listed <=> e \in Parse(text))
        PROVE  Fresh(e)'
    BY SMT, <1>1, <1>2, <2>2, <2>3 DEF Fresh
  <2>4. ASSUME pc \in {"idle", "lookup"}, ~hasty, ~missing, NEW e \in users
        PROVE  e \in Parse(text) \/ Fresh(e)'
    <3>1. e \in Entry /\ (e \in Listed \/ Fresh(e))
      BY Zenon, <2>2, <2>4 DEF View, RecentOK
    <3> QED
      BY Zenon, <2>3, <3>1
  <2>5. ASSUME pc \in {"idle", "lookup"}, ~hasty, unopened = Never, NEW e \in Parse(text)
        PROVE  e \in users \/ Fresh(e)'
    <3>1. e \in Entry /\ (e \in Listed => e \in users \/ Fresh(e))
      BY Zenon, <2>2, <2>5 DEF View, RecentOK
    <3> QED
      BY Zenon, <2>3, <2>5, <3>1
  <2> QED
    BY Zenon, <1>1, <1>4, <2>1, <2>4, <2>5 DEF RecentOK
<1>9. OpenOK'
  <2>1. clock >= lastUpdate
    BY SMT DEF View, TimesOK
  <2> QED
    BY Zenon, <1>1, <1>2, <2>1 DEF View, OpenOK
<1> QED
  BY Zenon, <1>5, <1>6, <1>7, <1>8, <1>9 DEF View

\* The file is removed.
LEMMA RemovalKeeps ==
  ASSUME View, mtime' = NoFile,
         changedAt' = [e \in Entry |-> IF e \in Listed THEN clock ELSE changedAt[e]],
         UNCHANGED <<clock, lines, hasty, table, get, seen>>
  PROVE  View'
<1>1. /\ clock' = clock /\ users' = users /\ userFileMTime' = userFileMTime
      /\ lastUpdate' = lastUpdate /\ pc' = pc /\ began' = began
      /\ statMTime' = statMTime /\ missing' = missing /\ unopened' = unopened
      /\ lines' = lines /\ hasty' = hasty
  BY Zenon DEF table, get, seen
<1>2. Listed' = {}
  BY Zenon DEF Listed
<1>3. TimesOK'
  <2>1. changedAt' \in [Entry -> Int]
    BY SMT DEF View, TimesOK
  <2> QED
    BY Zenon, <1>1, <2>1 DEF View, TimesOK, Second
<1>4. LinesOK' /\ UsersOK' /\ LookedOK' /\ SameOK'
  BY Zenon, <1>1 DEF View, LinesOK, UsersOK, LookedOK, SameOK
<1>5. RecentOK'
  <2>1. clock >= lastUpdate /\ users \subseteq Entry
    BY SMT DEF View, TimesOK, UsersOK
  <2>2. ASSUME pc \in {"idle", "lookup"}, ~hasty, ~missing, NEW e \in users
        PROVE  Fresh(e)'
    <3>1. e \in Entry /\ (e \in Listed \/ Fresh(e))
      BY Zenon, <2>1, <2>2 DEF View, RecentOK
    <3> QED
      BY SMT, <1>1, <2>1, <3>1 DEF Fresh
  <2> QED
    BY SMT, <1>1, <1>2, <2>2 DEF RecentOK
<1>6. OpenOK'
  BY Zenon, <1>1 DEF View, OpenOK
<1> QED
  BY Zenon, <1>3, <1>4, <1>5, <1>6 DEF View

\* Nothing of it changes but the clock, which goes on.
LEMMA TimePasses ==
  ASSUME View, clock' \in Nat, clock <= clock',
         UNCHANGED <<fileVars, table, get, changedAt, hasty, seen>>
  PROVE  View'
<1>1. /\ users' = users /\ userFileMTime' = userFileMTime
      /\ lastUpdate' = lastUpdate /\ pc' = pc /\ began' = began
      /\ statMTime' = statMTime /\ missing' = missing /\ unopened' = unopened
      /\ lines' = lines /\ hasty' = hasty /\ mtime' = mtime /\ changedAt' = changedAt
  BY Zenon DEF table, get, seen, fileVars
<1>2. TimesOK'
  BY SMT, <1>1 DEF View, TimesOK, Second
<1>3. LinesOK' /\ UsersOK' /\ LookedOK' /\ SameOK' /\ RecentOK'
  <2>1. Listed' = Listed
    BY Zenon, <1>1 DEF Listed
  <2>2. LinesOK' /\ UsersOK' /\ LookedOK'
    BY Zenon, <1>1 DEF View, LinesOK, UsersOK, LookedOK
  <2>3. SameOK'
    BY SMT, <1>1 DEF View, SameOK
  <2>4. RecentOK'
    BY SMT, <1>1, <2>1 DEF View, RecentOK, Fresh
  <2> QED
    BY Zenon, <2>2, <2>3, <2>4
<1>4. OpenOK'
  BY Zenon, <1>1 DEF View, OpenOK
<1> QED
  BY Zenon, <1>2, <1>3, <1>4 DEF View

\* What commands and editors leave alone while the server works.
LEMMA CommandsStay ==
  ASSUME CommandsOK, AddedOK, UNCHANGED <<fileVars, adder, due, mishap>>
  PROVE  CommandsOK' /\ AddedOK'
<1>1. lines' = lines /\ mtime' = mtime /\ adder' = adder /\ due' = due /\ mishap' = mishap
  BY Zenon DEF fileVars
<1>2. CommandsOK'
  BY Zenon, <1>1 DEF CommandsOK
<1>3. AddedOK'
  <2>1. (\A a : Active(a)' <=> Active(a)) /\ (Writing' <=> Writing)
    BY Zenon, <1>1 DEF Active, Writing
  <2> QED
    BY SMT, <1>1, <2>1 DEF AddedOK
<1> QED
  BY Zenon, <1>2, <1>3

-----------------------------------------------------------------------------
\* An editor writes or removes the file.
LEMMA EditKeeps == ASSUME IInv, Edit PROVE IInv'
<1>1. /\ clock' = clock /\ adder' = adder /\ UNCHANGED seen
      /\ mishap' = IF SomeoneActive THEN {"overlap"} ELSE {}
      /\ UNCHANGED table /\ UNCHANGED get
  BY Zenon DEF Edit
<1>2. View /\ CommandsOK /\ CommandsOK'
  BY Zenon, <1>1 DEF IInv, View, CommandsOK
<1>3. mishap' = {} => \A a \in Adder : ~Active(a)'
  <2>1. mishap' = {} => ~SomeoneActive
    BY SMT, <1>1
  <2> QED
    BY Zenon, <1>1, <2>1 DEF SomeoneActive, Active
<1>4. ASSUME NEW text \in ByHand \ {lines}, SetFile(text), due' = ToSet(text) \ {Blank}
      PROVE  IInv'
  <2>1. text \in Seq(Line) /\ Len(text) > 0
    <3>1. text \in Seq(Line) /\ text # << >>
      BY Zenon, AccessAssumption
    <3> QED
      BY SMT, <3>1
  <2>2. View'
    BY Zenon, <1>1, <1>2, <1>4, <2>1, SetFileKeeps
  <2>3. lines' = text /\ mtime' # NoFile
    BY SMT, <1>4 DEF SetFile, IInv, TimesOK, NoFile
  <2>4. AddedOK'
    BY Zenon, <1>3, <1>4, <2>3 DEF AddedOK
  <2> QED
    BY Zenon, <1>2, <2>2, <2>4 DEF IInv, View
<1>5. ASSUME mtime' = NoFile, due' = {}, UNCHANGED <<lines, hasty>>,
             changedAt' = [e \in Entry |-> IF e \in Listed THEN clock ELSE changedAt[e]]
      PROVE  IInv'
  <2>1. View'
    BY Zenon, <1>1, <1>2, <1>5, RemovalKeeps
  <2>2. AddedOK'
    BY Zenon, <1>3, <1>5 DEF AddedOK
  <2> QED
    BY Zenon, <1>2, <2>1, <2>2 DEF IInv, View
<1> QED
  BY Zenon, <1>4, <1>5 DEF Edit

\* A command reads the file, or goes on with an empty text.
LEMMA AddReadKeeps ==
  ASSUME IInv, NEW a \in Adder, NEW ok \in BOOLEAN, AddRead(a, ok) PROVE IInv'
<1> DEFINE text == IF ok /\ mtime # NoFile THEN lines ELSE <<Blank>>
<1>1. /\ clock' = clock /\ UNCHANGED seen /\ hasty' = hasty /\ changedAt' = changedAt
      /\ UNCHANGED fileVars /\ UNCHANGED table /\ UNCHANGED get /\ due' = due
      /\ mishap' = mishap \cup (IF ~ok /\ mtime # NoFile THEN {"unread"} ELSE {})
                          \cup (IF SomeoneActive THEN {"overlap"} ELSE {})
      /\ adder' = [adder EXCEPT ![a] = [step |-> "write", text |-> text]]
  BY Zenon DEF AddRead
<1>2. View /\ CommandsOK /\ AddedOK
  BY Zenon, <1>1 DEF IInv, View
<1>3. View'
  <2>1. clock' \in Nat /\ clock <= clock'
    BY SMT, <1>1, <1>2 DEF View, TimesOK
  <2> QED
    BY Zenon, <1>1, <1>2, <2>1, TimePasses
<1>4. text \in Seq(Line)
  <2>1. <<Blank>> \in Seq(Line)
    BY SMT DEF Line
  <2> QED
    BY Zenon, <1>2, <2>1 DEF View, LinesOK
<1>5. text = (IF ok /\ mtime # NoFile THEN lines ELSE <<Blank>>)
  OBVIOUS
<1> HIDE DEF text
<1>6. /\ CommandsOK'
      /\ adder'[a].step = "write" /\ adder'[a].text = text
      /\ \A b \in Adder \ {a} : adder'[b] = adder[b]
  BY SMT, <1>1, <1>2, <1>4 DEF CommandsOK, Step
<1>7. AddedOK'
  <2>1. lines' = lines /\ mtime' = mtime
    BY Zenon, <1>1 DEF fileVars
  <2>2. (mtime = NoFile => due = {})
    BY Zenon, <1>2 DEF AddedOK
  <2>3. ASSUME mishap' = {}
        PROVE  /\ \A b, c \in Adder : Active(b)' /\ Active(c)' => b = c
               /\ \A b \in Adder : Active(b)' => due' \subseteq ToSet(adder'[b].text)
               /\ ~Writing' /\ mtime' # NoFile => due' \subseteq ToSet(lines')
    <3>1. /\ mishap = {} /\ (ok \/ mtime = NoFile)
          /\ \A b \in Adder : ~Active(b) /\ adder[b].step # "written"
      <4>1. mishap = {} /\ (ok \/ mtime = NoFile) /\ ~SomeoneActive
        BY SMT, <1>1, <2>3
      <4> QED
        BY Zenon, <4>1 DEF SomeoneActive, Active
    <3>2. \A b \in Adder : Active(b)' => b = a
      BY Zenon, <1>6, <3>1 DEF Active
    <3>3. mtime # NoFile => due \subseteq ToSet(lines)
      BY Zenon, <1>2, <3>1 DEF AddedOK, Writing
    <3>4. due' \subseteq ToSet(adder'[a].text)
      BY Zenon, <1>1, <1>5, <1>6, <2>2, <3>1, <3>3
    <3> QED
      BY Zenon, <1>1, <2>1, <3>2, <3>3, <3>4
  <2> QED
    BY Zenon, <1>1, <2>1, <2>2, <2>3 DEF AddedOK
<1> QED
  BY Zenon, <1>3, <1>6, <1>7 DEF IInv, View

\* WriteFile empties the file.
LEMMA AddTruncateKeeps ==
  ASSUME IInv, NEW a \in Adder, AddTruncate(a) PROVE IInv'
<1>1. /\ clock' = clock /\ UNCHANGED seen /\ UNCHANGED table /\ UNCHANGED get
      /\ due' = due /\ mishap' = mishap /\ SetFile(<<Blank>>)
      /\ adder[a].step = "write" /\ adder' = [adder EXCEPT ![a].step = "written"]
  BY Zenon DEF AddTruncate
<1>2. View /\ CommandsOK /\ AddedOK
  BY Zenon, <1>1 DEF IInv, View, TimesOK
<1>3. View'
  <2>1. <<Blank>> \in Seq(Line) /\ Len(<<Blank>>) > 0
    BY SMT DEF Line
  <2> QED
    BY Zenon, <1>1, <1>2, <2>1, SetFileKeeps
<1>4. /\ CommandsOK'
      /\ adder'[a].step = "written" /\ adder'[a].text = adder[a].text
      /\ \A b \in Adder \ {a} : adder'[b] = adder[b]
  BY SMT, <1>1, <1>2 DEF CommandsOK, Step
<1>5. AddedOK'
  <2>1. mtime' # NoFile
    BY SMT, <1>1, <1>2 DEF SetFile, View, TimesOK, NoFile
  <2>2. Writing'
    BY Zenon, <1>4 DEF Writing
  <2>3. \A b \in Adder : Active(b)' => Active(b) /\ adder'[b].text = adder[b].text
    BY Zenon, <1>1, <1>4 DEF Active
  <2> QED
    BY SMT, <1>1, <1>2, <2>1, <2>2, <2>3 DEF AddedOK
<1> QED
  BY Zenon, <1>3, <1>4, <1>5 DEF IInv, View

\* WriteFile writes the lines it knows and the new one.
LEMMA AddWriteKeeps == ASSUME IInv, NEW a \in Adder, AddWrite(a) PROVE IInv'
<1> DEFINE text == Append(adder[a].text, NewEntry[a])
<1>1. /\ clock' = clock /\ UNCHANGED seen /\ UNCHANGED table /\ UNCHANGED get
      /\ due' = due \cup {NewEntry[a]} /\ mishap' = mishap /\ SetFile(text)
      /\ adder[a].step = "written"
      /\ adder' = [adder EXCEPT ![a] = [step |-> "done", text |-> << >>]]
  BY Zenon DEF AddWrite, NewText
<1>2. View /\ CommandsOK /\ AddedOK
  BY Zenon, <1>1 DEF IInv, View, TimesOK
<1>3. /\ text \in Seq(Line) /\ Len(text) > 0
      /\ ToSet(text) = ToSet(adder[a].text) \cup {NewEntry[a]}
  <2>1. NewEntry[a] \in Line
    BY Zenon, AccessAssumption DEF Line
  <2>2. adder[a].text \in Seq(Line)
    BY SMT, <1>2 DEF CommandsOK
  <2> DEFINE old == adder[a].text
  <2>3. old \in Seq(Line)
    BY Zenon, <2>2
  <2> HIDE DEF old
  <2>4. /\ Len(old) \in Nat /\ DOMAIN old = 1..Len(old)
        /\ Append(old, NewEntry[a]) \in Seq(Line)
        /\ Len(Append(old, NewEntry[a])) = Len(old) + 1
        /\ \A i \in 1..Len(old) : Append(old, NewEntry[a])[i] = old[i]
        /\ Append(old, NewEntry[a])[Len(old) + 1] = NewEntry[a]
        /\ DOMAIN Append(old, NewEntry[a]) = 1..(Len(old) + 1)
    BY SMT, <2>1, <2>3
  <2>5. ToSet(Append(old, NewEntry[a])) = ToSet(old) \cup {NewEntry[a]}
    <3> DEFINE new == Append(old, NewEntry[a])
               n == Len(old)
    <3>1. /\ n \in Nat /\ DOMAIN old = 1..n /\ DOMAIN new = 1..(n + 1)
          /\ \A i \in 1..n : new[i] = old[i]
          /\ new[n + 1] = NewEntry[a]
      BY Zenon, <2>4
    <3> HIDE DEF new, n
    <3>2. \A i \in 1..(n + 1) : i \in 1..n \/ i = n + 1
      BY SMT, <3>1
    <3>3. n + 1 \in 1..(n + 1) /\ \A i \in 1..n : i \in 1..(n + 1)
      BY SMT, <3>1
    <3>4. ToSet(new) = ToSet(old) \cup {NewEntry[a]}
      BY SMT, <3>1, <3>2, <3>3 DEF ToSet
    <3> QED
      BY Zenon, <3>4 DEF new
  <2> QED
    BY SMT, <2>4, <2>5 DEF old
<1>4. lines' = text /\ mtime' # NoFile
  BY SMT, <1>1, <1>2 DEF SetFile, View, TimesOK, NoFile
<1> HIDE DEF text
<1>5. View'
  BY Zenon, <1>1, <1>2, <1>3, SetFileKeeps
<1>6. /\ CommandsOK'
      /\ adder'[a].step = "done" /\ \A b \in Adder \ {a} : adder'[b] = adder[b]
  BY SMT, <1>1, <1>2 DEF CommandsOK, Step
<1>7. AddedOK'
  <2>1. ASSUME mishap = {}
        PROVE  due' \subseteq ToSet(lines') /\ \A b \in Adder : ~Active(b)'
    <3>1. Active(a)
      BY Zenon, <1>1 DEF Active
    <3>2. due \subseteq ToSet(adder[a].text) /\ \A b \in Adder : Active(b) => b = a
      BY Zenon, <1>2, <2>1, <3>1 DEF AddedOK
    <3>3. \A b \in Adder : ~Active(b)'
      BY SMT, <1>6, <3>2 DEF Active
    <3> QED
      BY Zenon, <1>1, <1>3, <1>4, <3>2, <3>3
  <2> QED
    BY Zenon, <1>1, <1>4, <2>1 DEF AddedOK
<1> QED
  BY Zenon, <1>5, <1>6, <1>7 DEF IInv, View

\* The command ends without having written.
LEMMA AddFailsKeeps == ASSUME IInv, NEW a \in Adder, AddFails(a) PROVE IInv'
<1>1. /\ clock' = clock /\ UNCHANGED seen /\ hasty' = hasty /\ changedAt' = changedAt
      /\ UNCHANGED fileVars /\ UNCHANGED table /\ UNCHANGED get /\ due' = due
      /\ mishap' = mishap \cup (IF adder[a].step = "written" THEN {"died"} ELSE {})
      /\ Active(a)
      /\ adder' = [adder EXCEPT ![a] = [step |-> "done", text |-> << >>]]
  BY Zenon DEF AddFails
<1>2. View /\ CommandsOK /\ AddedOK
  BY Zenon, <1>1 DEF IInv, View
<1>3. View'
  <2>1. clock' \in Nat /\ clock <= clock'
    BY SMT, <1>1, <1>2 DEF View, TimesOK
  <2> QED
    BY Zenon, <1>1, <1>2, <2>1, TimePasses
<1>4. /\ CommandsOK'
      /\ adder'[a].step = "done" /\ \A b \in Adder \ {a} : adder'[b] = adder[b]
  BY SMT, <1>1, <1>2 DEF CommandsOK, Step
<1>5. AddedOK'
  <2>1. lines' = lines /\ mtime' = mtime
    BY Zenon, <1>1 DEF fileVars
  <2>2. ASSUME mishap' = {}
        PROVE  mishap = {} /\ ~Writing /\ \A b \in Adder : ~Active(b)'
    <3>1. mishap = {} /\ adder[a].step # "written"
      BY SMT, <1>1, <2>2
    <3>2. \A b \in Adder : Active(b) => b = a
      BY Zenon, <1>1, <1>2, <3>1 DEF AddedOK
    <3>3. ~Writing
      BY Zenon, <3>1, <3>2 DEF Writing, Active
    <3>4. \A b \in Adder : ~Active(b)'
      BY SMT, <1>4, <3>2 DEF Active
    <3> QED
      BY Zenon, <3>1, <3>3, <3>4
  <2> QED
    BY Zenon, <1>1, <1>2, <2>1, <2>2 DEF AddedOK
<1> QED
  BY Zenon, <1>3, <1>4, <1>5 DEF IInv, View

-----------------------------------------------------------------------------
\* Get trusts the last reading, or goes to look at the file.
LEMMA BeginGetKeeps == ASSUME IInv, BeginGet PROVE IInv'
<1>1. /\ clock' = clock /\ lines' = lines /\ mtime' = mtime /\ users' = users
      /\ userFileMTime' = userFileMTime /\ statMTime' = statMTime
      /\ changedAt' = changedAt /\ hasty' = hasty /\ missing' = missing
      /\ unopened' = unopened /\ began' = clock /\ pc = "idle"
  BY Zenon DEF BeginGet, fileVars, seen
<1>2. \/ pc' = "lookup" /\ lastUpdate' = lastUpdate /\ lastUpdate + UpdateInterval > clock
      \/ pc' = "stat" /\ lastUpdate' = clock
  BY Zenon DEF BeginGet, TooEarly, LastUpdate
<1>3. CommandsOK' /\ AddedOK'
  BY Zenon, CommandsStay DEF IInv, BeginGet
<1>4. UpdateInterval \in Int
  BY SMT, AccessAssumption
<1>5. TimesOK'
  <2>1. /\ lastUpdate' \in Int /\ lastUpdate' <= clock /\ began' \in 0..clock
        /\ pc' \in {"idle", "stat", "open", "lookup"}
    BY SMT, <1>1, <1>2 DEF IInv, TimesOK
  <2> QED
    BY Zenon, <1>1, <2>1 DEF IInv, TimesOK, Second
<1>6. LinesOK' /\ UsersOK'
  BY Zenon, <1>1 DEF IInv, LinesOK, UsersOK
<1>7. SameOK'
  BY Zenon, <1>1 DEF IInv, SameOK
<1>8. RecentOK'
  <2>1. Listed' = Listed
    BY Zenon, <1>1 DEF Listed
  <2>2. pc' \in {"idle", "lookup"} => lastUpdate' = lastUpdate
    BY SMT, <1>2
  <2> QED
    BY Zenon, <1>1, <2>1, <2>2 DEF IInv, RecentOK, Fresh
<1>9. LookedOK'
  <2>1. clock \in Int /\ lastUpdate \in Int
    BY SMT DEF IInv, TimesOK
  <2> QED
    BY SMT, <1>1, <1>2, <1>4, <2>1 DEF LookedOK
<1>10. OpenOK'
  <2>1. pc' \in {"idle", "lookup"} => lastUpdate' = lastUpdate
    BY SMT, <1>2
  <2> QED
    BY Zenon, <1>1, <2>1 DEF IInv, OpenOK
<1> QED
  BY Zenon, <1>3, <1>5, <1>6, <1>7, <1>8, <1>9, <1>10 DEF IInv

\* The server compares the mtime: an old one means that nothing has changed.
LEMMA StatUsersKeeps == ASSUME IInv, StatUsers PROVE IInv'
<1>1. /\ clock' = clock /\ lines' = lines /\ mtime' = mtime /\ users' = users
      /\ userFileMTime' = userFileMTime /\ lastUpdate' = lastUpdate
      /\ began' = began /\ changedAt' = changedAt /\ hasty' = hasty
      /\ unopened' = unopened /\ missing' = (mtime = NoFile) /\ pc = "stat"
  BY Zenon DEF StatUsers, fileVars, table
<1>2. \/ mtime \in {NoFile, userFileMTime} /\ pc' = "lookup" /\ statMTime' = statMTime
      \/ mtime \notin {NoFile, userFileMTime} /\ pc' = "open" /\ statMTime' = mtime
  BY Zenon DEF StatUsers
<1>4. CommandsOK' /\ AddedOK'
  BY Zenon, CommandsStay DEF IInv, StatUsers
<1>6. TimesOK'
  <2>1. pc' \in {"idle", "stat", "open", "lookup"} /\ statMTime' \in Second
    BY Zenon, <1>2 DEF IInv, TimesOK
  <2> QED
    BY Zenon, <1>1, <2>1 DEF IInv, TimesOK, Second
<1>7. LinesOK' /\ UsersOK'
  BY Zenon, <1>1 DEF IInv, LinesOK, UsersOK
<1>8. SameOK'
  BY Zenon, <1>1 DEF IInv, SameOK
<1>9. RecentOK'
  <2>1. Listed' = Listed
    BY Zenon, <1>1 DEF Listed
  <2>2. pc' \in {"idle", "lookup"} => mtime \in {NoFile, userFileMTime}
    BY SMT, <1>2
  <2>3. mtime = NoFile => Listed = {} /\ missing'
    BY Zenon, <1>1 DEF Listed
  <2>4. mtime # NoFile => Listed = Parse(lines)
    BY Zenon DEF Listed
  <2>5. ~hasty /\ mtime # NoFile /\ mtime = userFileMTime
          => users \subseteq Listed /\ (unopened = Never => Listed \subseteq users)
    BY Zenon, <2>4 DEF IInv, SameOK
  <2> QED
    BY Zenon, <1>1, <2>1, <2>2, <2>3, <2>5 DEF RecentOK
<1>10. LookedOK'
  <2>1. began \in Int /\ lastUpdate = began /\ UpdateInterval \in Nat \ {0}
    BY SMT, <1>1, AccessAssumption DEF IInv, TimesOK, LookedOK
  <2> QED
    BY SMT, <1>1, <1>2, <2>1 DEF LookedOK
<1>11. OpenOK'
  <2>1. pc' \in {"idle", "lookup"} => mtime \in {NoFile, userFileMTime}
    BY SMT, <1>2
  <2> QED
    BY Zenon, <1>1, <2>1 DEF IInv, OpenOK
<1> QED
  BY Zenon, <1>4, <1>6, <1>7, <1>8, <1>9, <1>10, <1>11 DEF IInv

\* It reads the file as it is by now, or drops all users.
LEMMA ReadUsersKeeps ==
  ASSUME IInv, NEW ok \in BOOLEAN, ReadUsers(ok) PROVE IInv'
<1>1. /\ clock' = clock /\ lines' = lines /\ mtime' = mtime
      /\ lastUpdate' = lastUpdate /\ began' = began /\ changedAt' = changedAt
      /\ missing' = missing /\ pc = "open" /\ pc' = "lookup"
      /\ userFileMTime' = statMTime /\ statMTime' = NoFile
      /\ hasty' = FALSE
      /\ ok => mtime # NoFile /\ users' = Parse(lines)
      /\ ~ok => users' = {} /\ unopened' = clock
      /\ ok => unopened' = Never
  BY Zenon DEF ReadUsers, fileVars
<1>2. CommandsOK' /\ AddedOK'
  BY Zenon, CommandsStay DEF IInv, ReadUsers
<1>3. TimesOK'
  <2>1. NoFile \in Second /\ hasty' \in BOOLEAN
    BY Zenon, <1>1 DEF Second
  <2> QED
    BY Zenon, <1>1, <2>1 DEF IInv, TimesOK, Second
<1>4. LinesOK'
  BY Zenon, <1>1 DEF IInv, LinesOK
<1>5. UsersOK'
  <2>1. lines \in Seq(Line)
    BY Zenon DEF IInv, LinesOK
  <2> QED
    BY Zenon, <1>1, <2>1, ParseOK DEF UsersOK
<1>6. ~ok => unopened' # Never
  BY SMT, <1>1, AccessAssumption DEF IInv, TimesOK, Never
<1>7. SameOK'
  BY Zenon, <1>1, <1>6 DEF SameOK
<1>8. RecentOK'
  <2>1. ok => users' = Listed'
    BY Zenon, <1>1 DEF Listed
  <2> QED
    BY Zenon, <1>1, <1>6, <2>1 DEF RecentOK
<1>9. LookedOK'
  <2>1. began \in Int /\ lastUpdate = began /\ UpdateInterval \in Nat \ {0}
    BY SMT, <1>1, AccessAssumption DEF IInv, TimesOK, LookedOK
  <2> QED
    BY SMT, <1>1, <2>1 DEF LookedOK
<1>10. OpenOK'
  <2>1. /\ Never \in Int /\ clock \in Int
        /\ statMTime <= clock /\ (mtime # NoFile => mtime <= clock)
    BY SMT, AccessAssumption DEF IInv, TimesOK, Second, NoFile, Never
  <2> QED
    BY Zenon, <1>1, <2>1 DEF OpenOK
<1> QED
  BY Zenon, <1>2, <1>3, <1>4, <1>5, <1>7, <1>8, <1>9, <1>10 DEF IInv

LEMMA AnswerKeeps == ASSUME IInv, Answer PROVE IInv'
<1>1. /\ clock' = clock /\ lines' = lines /\ mtime' = mtime /\ users' = users
      /\ userFileMTime' = userFileMTime /\ lastUpdate' = lastUpdate
      /\ statMTime' = statMTime /\ changedAt' = changedAt /\ hasty' = hasty
      /\ missing' = missing /\ unopened' = unopened /\ pc = "lookup" /\ pc' = "idle"
      /\ began' = 0
  BY Zenon DEF Answer, fileVars, table, seen
<1>2. CommandsOK' /\ AddedOK'
  BY Zenon, CommandsStay DEF IInv, Answer
<1>3. TimesOK'
  <2>1. 0 \in 0..clock
    BY SMT DEF IInv, TimesOK
  <2> QED
    BY Zenon, <1>1, <2>1 DEF IInv, TimesOK, Second
<1>4. LinesOK' /\ UsersOK' /\ LookedOK'
  BY Zenon, <1>1 DEF IInv, LinesOK, UsersOK, LookedOK
<1>5. SameOK'
  BY Zenon, <1>1 DEF IInv, SameOK
<1>6. RecentOK'
  <2>1. Listed' = Listed
    BY Zenon, <1>1 DEF Listed
  <2> QED
    BY SMT, <1>1, <2>1 DEF IInv, RecentOK, Fresh
<1>7. OpenOK'
  <2>1. pc \in {"idle", "lookup"}
    BY Zenon, <1>1
  <2> QED
    BY Zenon, <1>1, <2>1 DEF IInv, OpenOK
<1> QED
  BY Zenon, <1>2, <1>3, <1>4, <1>5, <1>6, <1>7 DEF IInv

LEMMA NextKeeps == ASSUME IInv, [Next]_vars PROVE IInv'
<1>1. ASSUME Tick \/ UNCHANGED vars PROVE IInv'
  <2>1. /\ UNCHANGED fileVars /\ UNCHANGED table /\ UNCHANGED get
        /\ UNCHANGED <<changedAt, hasty, seen, adder, due, mishap>>
        /\ clock' \in {clock, clock + 1}
    BY Zenon, <1>1 DEF Tick, vars
  <2>2. clock' \in Nat /\ clock <= clock'
    BY SMT, <2>1 DEF IInv, TimesOK
  <2>3. View'
    BY Zenon, <2>1, <2>2, TimePasses DEF IInv, View
  <2>4. CommandsOK' /\ AddedOK'
    BY Zenon, <2>1, CommandsStay DEF IInv
  <2> QED
    BY Zenon, <2>3, <2>4 DEF IInv, View
<1> QED
  BY Zenon, <1>1, EditKeeps, AddReadKeeps, AddTruncateKeeps, AddWriteKeeps,
     AddFailsKeeps, BeginGetKeeps, StatUsersKeeps, ReadUsersKeeps, AnswerKeeps
     DEF Next

-----------------------------------------------------------------------------
\* The inductive invariant holds in every state.
THEOREM Invariant == Spec => []IInv
<1> QED
  BY InitIInv, NextKeeps, PTL DEF Spec

\* The variables keep their types; of a user with several lines one is known.
THEOREM TypeCorrect == Spec => []TypeOK
<1>1. IInv => TypeOK
  <2>1. ASSUME CommandsOK, NEW a \in Adder PROVE adder[a].step \in Step
    BY SMT, <2>1 DEF CommandsOK
  <2> QED
    BY Zenon, <2>1 DEF IInv, TimesOK, Second, LinesOK, UsersOK, Step, TypeOK
<1> QED
  BY <1>1, Invariant, PTL

\* What is fresh has changed in the last interval.
LEMMA FreshIsRecent ==
  ASSUME IInv, pc = "lookup", NEW e \in Entry, Fresh(e)
  PROVE  changedAt[e] > began - UpdateInterval
<1>1. changedAt[e] >= lastUpdate /\ lastUpdate > began - UpdateInterval
  BY Zenon DEF IInv, Fresh, LookedOK
<1>2. /\ changedAt[e] \in Int /\ lastUpdate \in Int /\ began \in Int
      /\ UpdateInterval \in Int
  BY SMT, AccessAssumption DEF IInv, TimesOK
<1> QED
  BY SMT, <1>1, <1>2

\* Who is served had this password and this prefix in the file not longer than
\* the interval ago, and only read: a removed user stops getting in.
THEOREM RemovedIsShutOut == Spec => []ServedIsListed
<1>1. IInv => ServedIsListed
  <2>1. SUFFICES ASSUME IInv, pc = "lookup", ~hasty, ~missing, NEW r \in Request,
                        Status(r) = "served"
                 PROVE  /\ r.method \notin Writes \cup OtherMethods
                        /\ \E e \in Entry : /\ Recent(e) /\ Allowed(e, r.url)
                                            /\ e.user = r.user /\ e.pass = r.pass
    BY Zenon DEF ServedIsListed
  <2> DEFINE e == CHOOSE e \in users : e.user = r.user
  <2>2. PICK f \in users : f.user = r.user /\ f.pass = r.pass
    BY SMT, <2>1 DEF Status
  <2>3. e \in users /\ e.user = r.user
    BY Zenon, <2>2
  <2>4. e = f /\ e \in Entry
    BY Zenon, <2>1, <2>2, <2>3 DEF IInv, UsersOK
  <2>5. Allowed(e, r.url) /\ r.method \in Reads
    BY SMT, <2>1, <2>2 DEF Status
  <2> HIDE DEF e
  <2>6. Recent(e)
    <3>1. e \in Listed \/ Fresh(e)
      BY Zenon, <2>1, <2>3 DEF IInv, RecentOK
    <3> QED
      BY Zenon, <2>1, <2>4, <3>1, FreshIsRecent DEF Recent
  <2>7. r.method \notin Writes \cup OtherMethods
    BY Zenon, <2>5, AccessAssumption
  <2> QED
    BY Zenon, <2>2, <2>4, <2>5, <2>6, <2>7
<1> QED
  BY <1>1, Invariant, PTL

\* A file that has changed for longer than the interval has been opened.
LEMMA OpenedAgain == ASSUME IInv, pc = "lookup", Openable PROVE unopened = Never
<1> SUFFICES ASSUME unopened # Never, unopened < mtime, mtime <= began - UpdateInterval
             PROVE  FALSE
  BY Zenon DEF Openable
<1>1. /\ mtime \in Int /\ began \in Int /\ lastUpdate \in Int /\ unopened \in Int
      /\ UpdateInterval \in Int /\ mtime >= NoFile
  BY SMT, AccessAssumption DEF IInv, TimesOK, Second, NoFile, OpenOK
<1>2. lastUpdate > began - UpdateInterval
  BY Zenon DEF IInv, LookedOK
<1>3. userFileMTime <= unopened /\ userFileMTime \in Int /\ userFileMTime >= NoFile
  BY SMT DEF IInv, OpenOK, TimesOK, Second, NoFile
<1>4. mtime # NoFile
  BY SMT, <1>1, <1>3 DEF NoFile
<1>5. mtime <= unopened \/ mtime >= lastUpdate
  BY Zenon, <1>4 DEF IInv, OpenOK
<1> QED
  BY SMT, <1>1, <1>2, <1>5

\* Who has been in the file for the interval gets in.
THEOREM AddedGetsIn == Spec => []ListedIsKnown
<1>1. IInv => ListedIsKnown
  <2>1. SUFFICES ASSUME IInv, pc = "lookup", ~hasty, unopened = Never, NEW r \in Request,
                        Status(r) = "not authorized", NEW e \in Listed,
                        changedAt[e] <= began - UpdateInterval,
                        e.user = r.user, e.pass = r.pass
                 PROVE  FALSE
    BY Zenon, OpenedAgain DEF ListedIsKnown, ListedGetIn
  <2>2. e \in Entry
    BY Zenon, <2>1, ListedOK DEF IInv
  <2>3. e \in users
    <3>1. /\ changedAt[e] \in Int /\ began \in Int /\ UpdateInterval \in Int
      <4>1. /\ changedAt \in [Entry -> Int] /\ began \in 0..clock
            /\ UpdateInterval \in Nat \ {0}
        BY Zenon, <2>1, AccessAssumption DEF IInv, TimesOK
      <4> QED
        BY SMT, <2>2, <4>1
    <3>2. ~(changedAt[e] > began - UpdateInterval)
      <4>1. changedAt[e] <= began - UpdateInterval
        BY Zenon, <2>1
      <4> QED
        BY SMT, <3>1, <4>1
    <3>3. e \in users \/ Fresh(e)
      BY Zenon, <2>1 DEF IInv, RecentOK
    <3> QED
      BY Zenon, <2>1, <2>2, <3>2, <3>3, FreshIsRecent
  <2> QED
    BY SMT, <2>1, <2>3 DEF Status
<1> QED
  BY <1>1, Invariant, PTL

\* Commands that follow each other lose nobody's line.
THEOREM NobodyIsLost == Spec => []NobodyLost
<1>1. IInv => NobodyLost
  BY Zenon DEF IInv, AddedOK, Writing, NobodyLost, EverybodyIsIn
<1> QED
  BY <1>1, Invariant, PTL

=============================================================================
