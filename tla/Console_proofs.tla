--------------------------- MODULE Console_proofs ---------------------------
(***************************************************************************)
(* Proofs about Console, for any number of peers and connections, and any  *)
(* number of sources ready in a turn: the exit status tells how the        *)
(* transfer ended, one download is accepted, one connection is made; and   *)
(* about Indicator: the progress line fits the terminal, for any widths,   *)
(* sizes and texts.                                                        *)
(***************************************************************************)
EXTENDS Console, FiniteSetTheorems, SequenceTheorems, TLAPS

OurDone == Ours # Null /\ status[Ours] = "Completed"

\* Sources are ready only while their handlers are to be called, and still
\* have what made them ready.
ReadyInv ==
  /\ pc \notin {"Dispatch", "Crashed"} => ready = {}
  /\ "Lookup" \in ready => lookups > 0
  /\ "Start" \in ready => ~started
  /\ "Server" \in ready => "Server" \in alive
  /\ \A p \in Peers : p \in ready => "Browser" \in alive
  /\ \A t \in Transfers : t \in ready => status[t] \notin {"None", "Init", "Gone"}

\* What each mode leaves alone.
ModeInv ==
  /\ ~Mode("Upload") => status[Up] = "Init" /\ lookups = 0
  /\ ~Mode("Download") => /\ chosen = Null /\ alive \subseteq {"Browser"}
                          /\ posted \subseteq Services
                          /\ \A c \in Conns : status[c] = "None"

\* The search for the peer comes before the connection.
SearchInv ==
  /\ lookups \in Nat
  /\ lookups > 0 => lookups = 1 /\ status[Up] = "Init" /\ found
  /\ ~started => status[Up] = "Init" /\ lookups = 0
  /\ ~started /\ ~Mode("List") => alive = {}
  /\ "Browser" \in alive /\ ~found => status[Up] = "Init"

\* The last exit () was about our transfer if it is complete, and nothing comes
\* after it in the turn.
EndInv ==
  /\ code = 0 /\ ~Mode("List") => OurDone
  /\ OurDone => pc \in {"Dispatch", "Left"} /\ code = 0 /\ Ours \notin ready

Types ==
  /\ alive \subseteq Services /\ chosen \in Conns \cup {Null} /\ posted \subseteq Services \cup Conns
  /\ DOMAIN status = Transfers
  /\ code \in {Null, 0, 1}
  /\ pc = "Left" => code # Null

IInv == Types /\ ReadyInv /\ ModeInv /\ SearchInv /\ EndInv /\ OneDownload

LEMMA ModesDiffer ==
  /\ Mode("Upload") => ~Mode("Download") /\ ~Mode("List")
  /\ Mode("Download") => ~Mode("Upload") /\ ~Mode("List")
  /\ Mode("List") => ~Mode("Upload") /\ ~Mode("Download")
BY DEF Mode

LEMMA SourcesDiffer ==
  /\ \A x \in Peers \cup Transfers :
       x \notin {"Browser", "Record", "Server", "Start", "Timeout", "Lookup"}
  /\ \A p \in Peers : p \notin Conns /\ p # Up
  /\ \A c \in Conns : c # Up /\ c # Null
  /\ Up # Null /\ Null # 0 /\ Null # 1
BY ConsoleAssumption DEF Transfers, Services

LEMMA InitIInv == Init => IInv
<1> SUFFICES ASSUME Init PROVE IInv
  OBVIOUS
<1>1. Types
  BY ConsoleAssumption DEF Init, Types
<1>2. ReadyInv
  BY DEF Init, ReadyInv
<1>3. ModeInv /\ SearchInv
  BY ConsoleAssumption DEF Init, ModeInv, SearchInv, Transfers
<1>4. EndInv /\ OneDownload
  BY ConsoleAssumption DEF Init, EndInv, OneDownload, OurDone, Ours, Transfers
<1> QED
  BY <1>1, <1>2, <1>3, <1>4 DEF IInv

LEMMA NextIInv == IInv /\ [Next]_vars => IInv'
<1> SUFFICES ASSUME IInv, [Next]_vars PROVE IInv'
  OBVIOUS
<1> USE SourcesDiffer, ModesDiffer
<1> USE DEF IInv, Types, ReadyInv, ModeInv, SearchInv, EndInv, OneDownload, OurDone, Ours, Mode,
        Transfers, Services, discovery, display
<1>1. CASE CommandLine
  <2>1. /\ pc = "Start" /\ ready' = ready
        /\ UNCHANGED <<options, started, posted, found, lookups, status, chosen>>
        /\ \/ pc' = "Left" /\ code' = 1 /\ alive' = alive
           \/ /\ pc' = "Posted" /\ code' = code
              /\ alive' = IF Mode("List") THEN {"Browser"} ELSE {}
    BY <1>1 DEF CommandLine
  <2>2. (Types /\ ReadyInv /\ ModeInv)'
    BY <2>1
  <2>3. SearchInv'
    <3>1. CASE alive' = alive
      BY <2>1, <3>1
    <3>2. CASE Mode("List") /\ alive' = {"Browser"}
      BY <2>1, <3>2
    <3>3. CASE ~Mode("List") /\ alive' = {}
      BY <2>1, <3>3
    <3> QED
      BY <2>1, <3>1, <3>2, <3>3
  <2>4. EndInv' /\ OneDownload'
    BY <2>1
  <2> QED
    BY <2>2, <2>3, <2>4
<1>2. CASE DeletePosted
  <2>1. Types'
    BY <1>2 DEF DeletePosted, ExitsWith, Prints
  <2>2. ReadyInv'
    BY <1>2 DEF DeletePosted, ExitsWith, Prints
  <2>3. ModeInv'
    BY <1>2 DEF DeletePosted, ExitsWith, Prints
  <2>4. SearchInv'
    BY <1>2 DEF DeletePosted, ExitsWith, Prints
  <2>5. EndInv'
    BY <1>2 DEF DeletePosted, ExitsWith, Prints
  <2>6. OneDownload'
    BY <1>2 DEF DeletePosted, ExitsWith, Prints
  <2> QED
    BY <2>1, <2>2, <2>3, <2>4, <2>5, <2>6
<1>3. CASE Select \/ SelectNothing
  <2>1. /\ pc = "Select" /\ pc' = "Dispatch" /\ ready' \in SUBSET Sources
        /\ UNCHANGED <<options, code, started, discovery, status, chosen>>
    BY <1>3 DEF Select, SelectWith, SelectNothing, Selects
  <2>2. /\ "Lookup" \in Sources => lookups > 0
        /\ "Start" \in Sources => ~started
        /\ "Server" \in Sources => "Server" \in alive
    BY DEF Sources
  <2>3. \A p \in Peers : p \in Sources => "Browser" \in alive
    BY DEF Sources
  <2>4. \A t \in Transfers : t \in Sources => status[t] \notin {"None", "Init", "Gone"}
    BY DEF Sources
  <2>5. ReadyInv'
    BY <2>1, <2>2, <2>3, <2>4
  <2>6. (Types /\ ModeInv /\ SearchInv /\ EndInv /\ OneDownload)'
    BY <2>1
  <2> QED
    BY <2>5, <2>6
<1>4. CASE EndTurn
  BY <1>4 DEF EndTurn
<1>5. CASE EndBrowsing("Timeout") \/ EndBrowsing("Browser")
  <2>1. Types'
    BY <1>5 DEF EndBrowsing, Handles, NoTransfer
  <2>2. ReadyInv'
    BY <1>5 DEF EndBrowsing, Handles, NoTransfer
  <2>3. ModeInv'
    BY <1>5 DEF EndBrowsing, Handles, NoTransfer
  <2>4. SearchInv'
    BY <1>5 DEF EndBrowsing, Handles, NoTransfer
  <2>5. EndInv'
    BY <1>5 DEF EndBrowsing, Handles, NoTransfer
  <2>6. OneDownload'
    BY <1>5 DEF EndBrowsing, Handles, NoTransfer
  <2> QED
    BY <2>1, <2>2, <2>3, <2>4, <2>5, <2>6
<1>6. CASE StartUpload
  <2>1. Types'
    BY <1>6 DEF StartUpload, Handles, ExitsWith, Prints
  <2>2. ReadyInv'
    BY <1>6 DEF StartUpload, Handles, ExitsWith, Prints
  <2>3. ModeInv'
    BY <1>6 DEF StartUpload, Handles, ExitsWith, Prints
  <2>4. SearchInv'
    BY <1>6 DEF StartUpload, Handles, ExitsWith, Prints
  <2>5. EndInv'
    BY <1>6 DEF StartUpload, Handles, ExitsWith, Prints
  <2>6. OneDownload'
    BY <1>6 DEF StartUpload, Handles, ExitsWith, Prints
  <2> QED
    BY <2>1, <2>2, <2>3, <2>4, <2>5, <2>6
<1>7. CASE StartDownload
  <2>1. Types'
    BY <1>7 DEF StartDownload, Handles
  <2>2. ReadyInv'
    BY <1>7 DEF StartDownload, Handles
  <2>3. ModeInv'
    BY <1>7 DEF StartDownload, Handles
  <2>4. SearchInv'
    BY <1>7 DEF StartDownload, Handles
  <2>5. EndInv'
    BY <1>7 DEF StartDownload, Handles
  <2>6. OneDownload'
    BY <1>7 DEF StartDownload, Handles
  <2> QED
    BY <2>1, <2>2, <2>3, <2>4, <2>5, <2>6
<1>8. ASSUME NEW p \in Peers, PeerDiscovered(p) PROVE IInv'
  <2>1. Types'
    BY <1>8 DEF PeerDiscovered, Handles, NoTransfer, Prints
  <2>2. ReadyInv'
    BY <1>8 DEF PeerDiscovered, Handles, NoTransfer, Prints
  <2>3. ModeInv'
    BY <1>8 DEF PeerDiscovered, Handles, NoTransfer, Prints
  <2>4. SearchInv'
    BY <1>8 DEF PeerDiscovered, Handles, NoTransfer, Prints
  <2>5. EndInv'
    BY <1>8 DEF PeerDiscovered, Handles, NoTransfer, Prints
  <2>6. OneDownload'
    BY <1>8 DEF PeerDiscovered, Handles, NoTransfer, Prints
  <2> QED
    BY <2>1, <2>2, <2>3, <2>4, <2>5, <2>6
<1>9. ASSUME NEW s \in Services, ServiceFails(s) PROVE IInv'
  BY <1>9 DEF ServiceFails, Handles, NoTransfer
<1>10. CASE LookupAnswered
  <2>1. Types'
    BY <1>10 DEF LookupAnswered, Handles, ExitsWith, Prints
  <2>2. ReadyInv'
    BY <1>10 DEF LookupAnswered, Handles, ExitsWith, Prints
  <2>3. ModeInv'
    BY <1>10 DEF LookupAnswered, Handles, ExitsWith, Prints
  <2>4. SearchInv'
    BY <1>10 DEF LookupAnswered, Handles, ExitsWith, Prints
  <2>5. EndInv'
    BY <1>10 DEF LookupAnswered, Handles, ExitsWith, Prints
  <2>6. OneDownload'
    BY <1>10 DEF LookupAnswered, Handles, ExitsWith, Prints
  <2> QED
    BY <2>1, <2>2, <2>3, <2>4, <2>5, <2>6
<1>11. CASE Registered
  BY <1>11 DEF Registered, Handles, NoTransfer, Prints
<1>12. CASE NewConnection
  BY <1>12 DEF NewConnection, Handles, NoDiscovery
<1>13. CASE UploadAnswered
  BY <1>13 DEF UploadAnswered, Handles, NoDiscovery, ExitsWith, Prints
<1>14. ASSUME NEW c \in Conns, NewDownload(c) PROVE IInv'
  <2>1. Types'
    BY <1>14 DEF NewDownload, Answers, Handles, ExitsWith, Prints
  <2>2. ReadyInv'
    BY <1>14 DEF NewDownload, Answers, Handles, ExitsWith, Prints
  <2>3. ModeInv'
    BY <1>14 DEF NewDownload, Answers, Handles, ExitsWith, Prints
  <2>4. SearchInv'
    BY <1>14 DEF NewDownload, Answers, Handles, ExitsWith, Prints
  <2>5. EndInv'
    BY <1>14 DEF NewDownload, Answers, Handles, ExitsWith, Prints
  <2>6. OneDownload'
    BY <1>14 DEF NewDownload, Answers, Handles, ExitsWith, Prints
  <2> QED
    BY <2>1, <2>2, <2>3, <2>4, <2>5, <2>6
<1>15. ASSUME NEW c \in Conns, OtherDownload(c) PROVE IInv'
  BY <1>15 DEF OtherDownload, Handles
<1>16. ASSUME NEW c \in Conns, OtherFails(c) PROVE IInv'
  BY <1>16 DEF OtherFails, Handles
<1>17. ASSUME NEW t \in Transfers, Progresses(t) PROVE IInv'
  BY <1>17 DEF Progresses, Handles, NoDiscovery
<1>18. ASSUME NEW t \in Transfers, Completes(t) PROVE IInv'
  BY <1>18 DEF Completes, Handles, NoDiscovery, ExitsWith, Prints
<1>19. ASSUME NEW t \in Transfers, Fails(t) PROVE IInv'
  BY <1>19 DEF Fails, Handles, NoDiscovery, ExitsWith, Prints
<1>20. CASE UNCHANGED vars
  BY <1>20 DEF vars
<1> QED
  BY <1>1, <1>2, <1>3, <1>4, <1>5, <1>6, <1>7, <1>8, <1>9, <1>10, <1>11, <1>12, <1>13, <1>14,
     <1>15, <1>16, <1>17, <1>18, <1>19, <1>20 DEF Next, Handler

\* The value of the last exit () is the end of the program's own transfer,
\* whatever else happened in that turn: status_changed, download_failed,
\* upload_failed, browser_end and service_record_end all call exit ().
THEOREM ExitStatus == Spec => []ExitCodeIsRight
<1>1. IInv => ExitCodeIsRight
  BY SourcesDiffer DEF IInv, EndInv, Types, OurDone, ExitCodeIsRight
<1> QED
  BY <1>1, InitIInv, NextIInv, PTL DEF Spec

\* Only the download that Download::new_download has chosen is ever accepted.
THEOREM OneShot == Spec => []OneDownload
<1>1. IInv => OneDownload
  BY DEF IInv
<1> QED
  BY <1>1, InitIInv, NextIInv, PTL DEF Spec

\* One lookup, answered before the upload is connected: the assertion of
\* Upload::connect.
THEOREM OneConnection == Spec => []ConnectsOnce
<1>1. IInv => ConnectsOnce
  BY DEF IInv, SearchInv, ConnectsOnce
<1> QED
  BY <1>1, InitIInv, NextIInv, PTL DEF Spec

\* After the end of our transfer nothing draws; a chosen download is past its
\* offer.
LineInv ==
  /\ OurEnd => line = "Clean"
  /\ chosen # Null => status[chosen] \notin {"None", "WaitingForOffer"}

LEMMA InitLine == Init => LineInv
BY ConsoleAssumption DEF Init, LineInv, OurEnd, Ours, Final, Transfers, Mode

LEMMA NextLine == IInv /\ LineInv /\ [Next]_vars => LineInv'
<1> SUFFICES ASSUME IInv, LineInv, [Next]_vars PROVE LineInv'
  OBVIOUS
<1> USE SourcesDiffer, ModesDiffer
<1> USE DEF IInv, Types, ModeInv, LineInv, OurEnd, Ours, Mode, Final, Transfers, Services,
        discovery, display
<1>1. CASE CommandLine
  BY <1>1 DEF CommandLine
<1>2. CASE DeletePosted
  BY <1>2 DEF DeletePosted, ExitsWith, Prints
<1>3. CASE Select \/ SelectNothing
  BY <1>3 DEF Select, SelectWith, SelectNothing, Selects
<1>4. CASE EndTurn
  BY <1>4 DEF EndTurn
<1>5. CASE EndBrowsing("Timeout") \/ EndBrowsing("Browser")
  BY <1>5 DEF EndBrowsing, Handles, NoTransfer
<1>6. CASE StartUpload
  BY <1>6 DEF StartUpload, Handles, ExitsWith, Prints
<1>7. CASE StartDownload
  BY <1>7 DEF StartDownload, Handles
<1>8. ASSUME NEW p \in Peers, PeerDiscovered(p) PROVE LineInv'
  BY <1>8 DEF PeerDiscovered, Handles, NoTransfer, Prints
<1>9. ASSUME NEW s \in Services, ServiceFails(s) PROVE LineInv'
  BY <1>9 DEF ServiceFails, Handles, NoTransfer
<1>10. CASE LookupAnswered
  BY <1>10 DEF LookupAnswered, Handles, ExitsWith, Prints
<1>11. CASE Registered
  BY <1>11 DEF Registered, Handles, NoTransfer, Prints
<1>12. CASE NewConnection
  BY <1>12 DEF NewConnection, Handles, NoDiscovery
<1>13. CASE UploadAnswered
  BY <1>13 DEF UploadAnswered, Handles, NoDiscovery, ExitsWith, Prints
<1>14. ASSUME NEW c \in Conns, NewDownload(c) PROVE LineInv'
  BY <1>14 DEF NewDownload, Answers, Handles, ExitsWith, Prints
<1>15. ASSUME NEW c \in Conns, OtherDownload(c) PROVE LineInv'
  BY <1>15 DEF OtherDownload, Handles
<1>16. ASSUME NEW c \in Conns, OtherFails(c) PROVE LineInv'
  BY <1>16 DEF OtherFails, Handles
<1>17. ASSUME NEW t \in Transfers, Progresses(t) PROVE LineInv'
  BY <1>17 DEF Progresses, Handles, NoDiscovery
<1>18. ASSUME NEW t \in Transfers, Completes(t) PROVE LineInv'
  BY <1>18 DEF Completes, Handles, NoDiscovery, ExitsWith, Prints
<1>19. ASSUME NEW t \in Transfers, Fails(t) PROVE LineInv'
  BY <1>19 DEF Fails, Handles, NoDiscovery, ExitsWith, Prints
<1>20. CASE UNCHANGED vars
  BY <1>20 DEF vars
<1> QED
  BY <1>1, <1>2, <1>3, <1>4, <1>5, <1>6, <1>7, <1>8, <1>9, <1>10, <1>11, <1>12, <1>13, <1>14,
     <1>15, <1>16, <1>17, <1>18, <1>19, <1>20 DEF Next, Handler

\* The program never leaves after its transfer with a progress line that no
\* newline has ended: every end of it prints (last_output_was_progress).
THEOREM NoProgressLeft == Spec => []LineIsEnded
<1>1. LineInv => LineIsEnded
  BY DEF LineInv, LineIsEnded
<1> QED
  BY <1>1, InitIInv, NextIInv, InitLine, NextLine, PTL DEF Spec

\* The record is alive until a download is chosen, or it has failed; no
\* connection comes before the services.
RecordInv ==
  /\ "Record" \in posted => "Record" \in failed \/ chosen # Null
  /\ Mode("Download") /\ started /\ chosen = Null => "Record" \in alive \cup failed
  /\ ~started => posted \subseteq {"Browser"} /\ \A c \in Conns : status[c] = "None"
  /\ pc = "Start" => ~started
  /\ "Record" \in ready => "Record" \in alive
  /\ pc = "Crashed" => "Record" \in failed

LEMMA InitRecord == Init => RecordInv
BY ConsoleAssumption DEF Init, RecordInv, Transfers

LEMMA NextRecord == IInv /\ RecordInv /\ [Next]_vars => RecordInv'
<1> SUFFICES ASSUME IInv, RecordInv, [Next]_vars PROVE RecordInv'
  OBVIOUS
<1> USE SourcesDiffer, ModesDiffer
<1> USE DEF IInv, Types, ReadyInv, ModeInv, SearchInv, RecordInv, Ours, Mode, Final, Transfers,
        Services, discovery, display
<1>1. CASE CommandLine
  BY <1>1 DEF CommandLine
<1>2. CASE DeletePosted
  BY <1>2 DEF DeletePosted, ExitsWith, Prints
<1>3. CASE Select \/ SelectNothing
  <2>1. /\ pc' = "Dispatch" /\ ready' \in SUBSET Sources
        /\ UNCHANGED <<options, started, discovery, status, chosen>>
    BY <1>3 DEF Select, SelectWith, SelectNothing, Selects
  <2>2. "Record" \in Sources => "Record" \in alive
    BY DEF Sources
  <2> QED
    BY <2>1, <2>2
<1>4. CASE EndTurn
  BY <1>4 DEF EndTurn
<1>5. CASE EndBrowsing("Timeout") \/ EndBrowsing("Browser")
  BY <1>5 DEF EndBrowsing, Handles, NoTransfer
<1>6. CASE StartUpload
  BY <1>6 DEF StartUpload, Handles, ExitsWith, Prints
<1>7. CASE StartDownload
  BY <1>7 DEF StartDownload, Handles
<1>8. ASSUME NEW p \in Peers, PeerDiscovered(p) PROVE RecordInv'
  BY <1>8 DEF PeerDiscovered, Handles, NoTransfer, Prints
<1>9. ASSUME NEW s \in Services, ServiceFails(s) PROVE RecordInv'
  BY <1>9 DEF ServiceFails, Handles, NoTransfer
<1>10. CASE LookupAnswered
  BY <1>10 DEF LookupAnswered, Handles, ExitsWith, Prints
<1>11. CASE Registered
  BY <1>11 DEF Registered, Handles, NoTransfer, Prints
<1>12. CASE NewConnection
  BY <1>12 DEF NewConnection, Handles, NoDiscovery
<1>13. CASE UploadAnswered
  BY <1>13 DEF UploadAnswered, Handles, NoDiscovery, ExitsWith, Prints
<1>14. ASSUME NEW c \in Conns, NewDownload(c) PROVE RecordInv'
  BY <1>14 DEF NewDownload, Answers, Handles, ExitsWith, Prints
<1>15. ASSUME NEW c \in Conns, OtherDownload(c) PROVE RecordInv'
  BY <1>15 DEF OtherDownload, Handles
<1>16. ASSUME NEW c \in Conns, OtherFails(c) PROVE RecordInv'
  BY <1>16 DEF OtherFails, Handles
<1>17. ASSUME NEW t \in Transfers, Progresses(t) PROVE RecordInv'
  BY <1>17 DEF Progresses, Handles, NoDiscovery
<1>18. ASSUME NEW t \in Transfers, Completes(t) PROVE RecordInv'
  BY <1>18 DEF Completes, Handles, NoDiscovery, ExitsWith, Prints
<1>19. ASSUME NEW t \in Transfers, Fails(t) PROVE RecordInv'
  BY <1>19 DEF Fails, Handles, NoDiscovery, ExitsWith, Prints
<1>20. CASE UNCHANGED vars
  BY <1>20 DEF vars
<1> QED
  BY <1>1, <1>2, <1>3, <1>4, <1>5, <1>6, <1>7, <1>8, <1>9, <1>10, <1>11, <1>12, <1>13, <1>14,
     <1>15, <1>16, <1>17, <1>18, <1>19, <1>20 DEF Next, Handler

\* The pointers to the services are not used after their deletion, unless the
\* record had failed before the offer came (service_record_end, new_download).
THEOREM ServicesAreUsedOnce == Spec => []ServicesEndOnce
<1>1. RecordInv => ServicesEndOnce
  BY DEF RecordInv, ServicesEndOnce
<1> QED
  BY <1>1, InitIInv, NextIInv, InitRecord, NextRecord, PTL DEF Spec

----------------------------------------------------------------------------
(* Induction, for sets. *)

Smaller == {p \in Nat \X Nat : p[1] < p[2]}

LEMMA SmallerWF == IsWellFoundedOn(Smaller, Nat)
<1>1. Smaller = OpToRel(<, Nat)
  BY DEF OpToRel, Smaller
<1> QED
  BY <1>1, NatLessThanWellFounded

\* Induction over the natural numbers, for a set.
LEMMA Induction ==
  ASSUME NEW S, 0 \in S, \A n \in Nat : n \in S => n + 1 \in S
  PROVE  Nat \subseteq S
<1> SUFFICES ASSUME NEW U, U = Nat \ S, U # {}
             PROVE  FALSE
  OBVIOUS
<1>1. PICK x \in U : \A y \in U : ~ (<< y, x >> \in Smaller)
  <2>1. U \subseteq Nat
    OBVIOUS
  <2> QED
    BY <2>1, SmallerWF, WFMin
<1>2. x \in Nat /\ x # 0
  OBVIOUS
<1>3. x - 1 \in Nat /\ x = (x - 1) + 1
  BY <1>2
<1>4. x - 1 \in U
  BY <1>3
<1>5. << x - 1, x >> \in Smaller
  BY <1>2, <1>3 DEF Smaller
<1> QED
  BY <1>1, <1>4, <1>5

----------------------------------------------------------------------------
(* The sums of Functions. *)

\* The element that the sum takes first.
First(T) == CHOOSE x \in T : TRUE

\* The equation of a sum over the subsets of S.
Adds(g, f, S) == g = [T \in SUBSET S |-> IF T = {} THEN 0 ELSE f[First(T)] + g[T \ {First(T)}]]

LEMMA SumIs ==
  ASSUME NEW f, NEW S
  PROVE  SumFunctionOnSet(f, S) = (CHOOSE g : Adds(g, f, S))[S]
BY DEF SumFunctionOnSet, FoldFunctionOnSet, MapThenFoldSet, Adds, First

LEMMA FirstIn ==
  ASSUME NEW T, T # {}
  PROVE  First(T) \in T
BY DEF First

LEMMA Rest ==
  ASSUME NEW T, T # {}, IsFiniteSet(T)
  PROVE  /\ First(T) \in T /\ T \ {First(T)} \subseteq T /\ IsFiniteSet(T \ {First(T)})
         /\ Cardinality(T) \in Nat \ {0}
         /\ Cardinality(T \ {First(T)}) = Cardinality(T) - 1
BY FirstIn, FS_RemoveElement, FS_EmptySet, FS_CardinalityType

Upto(S, n) == {T \in SUBSET S : Cardinality(T) <= n}

SumsUpto(g, f, S, n) ==
  g = [T \in Upto(S, n) |-> IF T = {} THEN 0 ELSE f[First(T)] + g[T \ {First(T)}]]

\* The sums of the subsets with one element more are defined by those of the
\* others.
LEMMA SumsExtend ==
  ASSUME NEW f, NEW S, IsFiniteSet(S), NEW n \in Nat, NEW g, SumsUpto(g, f, S, n)
  PROVE  \E h : SumsUpto(h, f, S, n + 1)
<1> DEFINE h == [T \in Upto(S, n + 1) |-> IF T = {} THEN 0 ELSE f[First(T)] + g[T \ {First(T)}]]
<1>1. ASSUME NEW T \in Upto(S, n + 1), T # {}
      PROVE  h[T \ {First(T)}] = g[T \ {First(T)}]
  <2>1. IsFiniteSet(T) /\ T \in SUBSET S
    BY FS_Subset DEF Upto
  <2>2. PICK R : R = T \ {First(T)}
    OBVIOUS
  <2>3. R \in SUBSET S /\ Cardinality(R) = Cardinality(T) - 1 /\ Cardinality(T) \in Nat
    BY <1>1, <2>1, <2>2, Rest
  <2>4. R \in Upto(S, n) /\ R \in Upto(S, n + 1)
    BY <2>3 DEF Upto
  <2>5. h[R] = IF R = {} THEN 0 ELSE f[First(R)] + g[R \ {First(R)}]
    BY <2>4
  <2>6. g[R] = IF R = {} THEN 0 ELSE f[First(R)] + g[R \ {First(R)}]
    BY <2>4 DEF SumsUpto
  <2> QED
    BY <2>2, <2>5, <2>6
<1>2. h = [T \in Upto(S, n + 1) |-> IF T = {} THEN 0 ELSE f[First(T)] + h[T \ {First(T)}]]
  BY <1>1
<1> QED
  BY <1>2 DEF SumsUpto

LEMMA SumsExist ==
  ASSUME NEW f, NEW S, IsFiniteSet(S)
  PROVE  \E g : Adds(g, f, S)
<1> DEFINE D == {n \in Nat : \E g : SumsUpto(g, f, S, n)}
<1>1. 0 \in D
  <2> DEFINE g == [T \in Upto(S, 0) |-> 0]
  <2>1. ASSUME NEW T \in Upto(S, 0)
        PROVE  T = {}
    <3>1. IsFiniteSet(T)
      BY FS_Subset DEF Upto
    <3> QED
      BY <3>1, FS_EmptySet, FS_CardinalityType DEF Upto
  <2>2. SumsUpto(g, f, S, 0)
    BY <2>1 DEF SumsUpto
  <2> QED
    BY <2>2
<1>2. ASSUME NEW n \in Nat, n \in D
      PROVE  n + 1 \in D
  BY <1>2, SumsExtend
<1>3. Nat \subseteq D
  <2> HIDE DEF D
  <2> QED
    BY <1>1, <1>2, Induction
<1>4. Cardinality(S) \in Nat
  BY FS_CardinalityType
<1>5. PICK g : SumsUpto(g, f, S, Cardinality(S))
  BY <1>3, <1>4
<1>6. Upto(S, Cardinality(S)) = SUBSET S
  BY FS_Subset DEF Upto
<1> QED
  BY <1>5, <1>6 DEF SumsUpto, Adds

LEMMA SumsAgree ==
  ASSUME NEW f, NEW S, NEW T, IsFiniteSet(S), NEW g, NEW h, Adds(g, f, S), Adds(h, f, T),
         NEW V \in SUBSET S, V \in SUBSET T
  PROVE  g[V] = h[V]
<1> DEFINE D == {n \in Nat : \A U \in SUBSET (S \cap T) : Cardinality(U) = n => g[U] = h[U]}
<1>0. ASSUME NEW U \in SUBSET (S \cap T)
      PROVE  /\ g[U] = IF U = {} THEN 0 ELSE f[First(U)] + g[U \ {First(U)}]
             /\ h[U] = IF U = {} THEN 0 ELSE f[First(U)] + h[U \ {First(U)}]
             /\ IsFiniteSet(U) /\ Cardinality(U) \in Nat
  BY FS_Subset, FS_CardinalityType DEF Adds
<1>1. 0 \in D
  <2> SUFFICES ASSUME NEW U \in SUBSET (S \cap T), Cardinality(U) = 0
               PROVE  g[U] = h[U]
    OBVIOUS
  <2>1. U = {}
    BY <1>0, FS_EmptySet
  <2> QED
    BY <1>0, <2>1
<1>2. ASSUME NEW n \in Nat, n \in D
      PROVE  n + 1 \in D
  <2> SUFFICES ASSUME NEW U \in SUBSET (S \cap T), Cardinality(U) = n + 1
               PROVE  g[U] = h[U]
    OBVIOUS
  <2>1. U # {}
    BY FS_EmptySet
  <2>2. PICK R : R = U \ {First(U)}
    OBVIOUS
  <2>3. Cardinality(R) = n /\ R \in SUBSET (S \cap T)
    <3>1. R \subseteq U /\ Cardinality(R) = Cardinality(U) - 1
      BY <1>0, <2>1, <2>2, Rest
    <3> QED
      BY <3>1
  <2>4. g[R] = h[R]
    BY <1>2, <2>3
  <2> QED
    BY <1>0, <2>1, <2>2, <2>4
<1>3. Nat \subseteq D
  <2> HIDE DEF D
  <2> QED
    BY <1>1, <1>2, Induction
<1>4. Cardinality(V) \in Nat /\ V \in SUBSET (S \cap T)
  BY <1>0
<1> QED
  BY <1>3, <1>4

\* The sum over a set, one element at a time.
LEMMA SumEmpty ==
  ASSUME NEW f
  PROVE  SumFunctionOnSet(f, {}) = 0
<1>1. PICK g : Adds(g, f, {}) /\ g = CHOOSE x : Adds(x, f, {})
  BY SumsExist, FS_EmptySet
<1> QED
  BY <1>1, SumIs DEF Adds

LEMMA SumFirst ==
  ASSUME NEW f, NEW S, IsFiniteSet(S), S # {}
  PROVE  SumFunctionOnSet(f, S) = f[First(S)] + SumFunctionOnSet(f, S \ {First(S)})
<1>1. PICK R : R = S \ {First(S)}
  OBVIOUS
<1>2. IsFiniteSet(R) /\ R \in SUBSET S
  BY <1>1, Rest
<1>3. PICK g : Adds(g, f, S) /\ g = CHOOSE x : Adds(x, f, S)
  BY SumsExist
<1>4. PICK h : Adds(h, f, R) /\ h = CHOOSE x : Adds(x, f, R)
  BY <1>2, SumsExist
<1>5. g[R] = h[R]
  BY <1>2, <1>3, <1>4, SumsAgree
<1>6. SumFunctionOnSet(f, S) = g[S] /\ SumFunctionOnSet(f, R) = h[R]
  BY <1>3, <1>4, SumIs
<1>7. g[S] = f[First(S)] + g[R]
  BY <1>1, <1>3 DEF Adds
<1> QED
  BY <1>1, <1>5, <1>6, <1>7

\* ... in any order.
LEMMA SumOne ==
  ASSUME NEW f, NEW S, IsFiniteSet(S), \A x \in S : f[x] \in Int, NEW x \in S
  PROVE  /\ SumFunctionOnSet(f, S) = f[x] + SumFunctionOnSet(f, S \ {x})
         /\ SumFunctionOnSet(f, S) \in Int
<1> DEFINE P(U) == /\ SumFunctionOnSet(f, U) \in Int
                   /\ \A y \in U : SumFunctionOnSet(f, U) = f[y] + SumFunctionOnSet(f, U \ {y})
           D == {n \in Nat : \A U \in SUBSET S : Cardinality(U) <= n => P(U)}
<1>0. ASSUME NEW U \in SUBSET S
      PROVE  /\ IsFiniteSet(U) /\ Cardinality(U) \in Nat
             /\ \A y \in U : Cardinality(U \ {y}) = Cardinality(U) - 1
  BY FS_Subset, FS_CardinalityType, FS_RemoveElement
<1>1. 0 \in D
  <2> SUFFICES ASSUME NEW U \in SUBSET S, Cardinality(U) <= 0
               PROVE  P(U)
    OBVIOUS
  <2>1. U = {}
    BY <1>0, FS_EmptySet
  <2> QED
    BY <2>1, SumEmpty
<1>2. ASSUME NEW n \in Nat, n \in D
      PROVE  n + 1 \in D
  <2> SUFFICES ASSUME NEW U \in SUBSET S, Cardinality(U) <= n + 1
               PROVE  P(U)
    OBVIOUS
  <2>00. CASE U = {}
    BY <2>00, SumEmpty
  <2> SUFFICES ASSUME U # {}
               PROVE  P(U)
    BY <2>00
  <2>0. \A V \in SUBSET S : Cardinality(V) <= n => P(V)
    BY <1>2
  <2> HIDE DEF D
  <2>2. PICK c \in U : c = First(U)
    BY FirstIn
  <2>3. SumFunctionOnSet(f, U) = f[c] + SumFunctionOnSet(f, U \ {c})
    BY <1>0, <2>2, SumFirst
  <2>4. \A y \in U : U \ {y} \in SUBSET S /\ Cardinality(U \ {y}) <= n
    BY <1>0
  <2>5. \A y \in U : P(U \ {y})
    BY <2>0, <2>4
  <2>6. SumFunctionOnSet(f, U) \in Int
    BY <2>2, <2>3, <2>5
  <2>7. ASSUME NEW y \in U, y # c
        PROVE  SumFunctionOnSet(f, U) = f[y] + SumFunctionOnSet(f, U \ {y})
    <3>1. PICK a, b, d, r : /\ a = SumFunctionOnSet(f, U) /\ b = SumFunctionOnSet(f, U \ {c})
                            /\ d = SumFunctionOnSet(f, U \ {y})
                            /\ r = SumFunctionOnSet(f, (U \ {c}) \ {y})
      OBVIOUS
    <3>2. b = f[y] + r
      BY <2>5, <2>7, <3>1
    <3>3. (U \ {y}) \ {c} = (U \ {c}) \ {y}
      OBVIOUS
    <3>4. d = f[c] + r
      BY <2>5, <2>7, <3>1, <3>3
    <3>5. y \notin {c} /\ r \in Int
      <4>1. PICK V : V = U \ {c}
        OBVIOUS
      <4>2. V \in SUBSET S /\ Cardinality(V) <= n /\ y \in V
        BY <2>4, <2>7, <4>1
      <4>3. V \ {y} \in SUBSET S /\ Cardinality(V \ {y}) <= n
        BY <1>0, <4>2
      <4> QED
        BY <2>0, <2>7, <3>1, <4>1, <4>3
    <3> QED
      BY <2>3, <3>1, <3>2, <3>4, <3>5
  <2> QED
    BY <2>2, <2>3, <2>6, <2>7
<1>3. Nat \subseteq D
  <2> HIDE DEF D
  <2> QED
    BY <1>1, <1>2, Induction
<1> QED
  BY <1>0, <1>3

\* Induction over the subsets of a finite set.
LEMMA SetInduction ==
  ASSUME NEW S, IsFiniteSet(S), NEW D, {} \in D,
         \A T \in SUBSET S : \A x \in S \ T : T \in D => T \cup {x} \in D
  PROVE  S \in D
<1> DEFINE N == {n \in Nat : \A T \in SUBSET S : Cardinality(T) = n => T \in D}
<1>0. ASSUME NEW T \in SUBSET S
      PROVE  IsFiniteSet(T) /\ Cardinality(T) \in Nat
  BY FS_Subset, FS_CardinalityType
<1>1. 0 \in N
  <2> SUFFICES ASSUME NEW T \in SUBSET S, Cardinality(T) = 0
               PROVE  T \in D
    OBVIOUS
  <2>1. T = {}
    BY <1>0, FS_EmptySet
  <2> QED
    BY <2>1
<1>2. ASSUME NEW n \in Nat, n \in N
      PROVE  n + 1 \in N
  <2> SUFFICES ASSUME NEW T \in SUBSET S, Cardinality(T) = n + 1
               PROVE  T \in D
    OBVIOUS
  <2>1. T # {}
    <3>1. Cardinality({}) = 0
      BY FS_EmptySet
    <3>2. n + 1 # 0
      OBVIOUS
    <3> QED
      BY <3>1, <3>2, Zenon
  <2>2. PICK x, R : x = First(T) /\ R = T \ {x}
    OBVIOUS
  <2>3. x \in T /\ R \in SUBSET S /\ Cardinality(R) = n /\ x \in S \ R
    <3>1. First(T) \in T /\ Cardinality(T \ {First(T)}) = Cardinality(T) - 1
      BY <1>0, <2>1, Rest
    <3> QED
      BY <2>2, <3>1
  <2>4. R \in D
    BY <1>2, <2>3
  <2>5. T = R \cup {x}
    BY <2>2, <2>3
  <2> QED
    BY <2>3, <2>4, <2>5
<1>3. Nat \subseteq N
  <2> HIDE DEF N
  <2> QED
    BY <1>1, <1>2, Induction
<1> QED
  BY <1>0, <1>3

LEMMA SumAdd ==
  ASSUME NEW f, NEW S, IsFiniteSet(S), NEW T \in SUBSET S, NEW x \in S \ T,
         \A y \in S : f[y] \in Int
  PROVE  /\ SumFunctionOnSet(f, T \cup {x}) = f[x] + SumFunctionOnSet(f, T)
         /\ SumFunctionOnSet(f, T) \in Int
<1>1. PICK R : R = T \cup {x}
  OBVIOUS
<1>2. IsFiniteSet(R) /\ x \in R /\ R \ {x} = T /\ \A y \in R : f[y] \in Int
  BY <1>1, FS_Subset
<1>3. /\ SumFunctionOnSet(f, R) = f[x] + SumFunctionOnSet(f, R \ {x})
      /\ SumFunctionOnSet(f, R) \in Int
  BY <1>2, SumOne
<1>4. SumFunctionOnSet(f, T) \in Int
  <2>1. CASE T = {}
    BY <2>1, SumEmpty
  <2>2. CASE T # {}
    <3>1. PICK y \in T : TRUE
      BY <2>2
    <3>2. IsFiniteSet(T) /\ \A z \in T : f[z] \in Int
      BY FS_Subset
    <3> QED
      BY <3>1, <3>2, SumOne
  <2> QED
    BY <2>1, <2>2
<1> QED
  BY <1>1, <1>2, <1>3, <1>4

LEMMA SumInt ==
  ASSUME NEW f, NEW S, IsFiniteSet(S), \A y \in S : f[y] \in Int
  PROVE  SumFunctionOnSet(f, S) \in Int
<1>1. CASE S = {}
  BY <1>1, SumEmpty
<1>2. CASE S # {}
  <2>1. PICK y \in S : TRUE
    BY <1>2
  <2> QED
    BY <2>1, SumOne
<1> QED
  BY <1>1, <1>2

LEMMA SumNat ==
  ASSUME NEW f, NEW S, IsFiniteSet(S), \A y \in S : f[y] \in Nat
  PROVE  SumFunctionOnSet(f, S) \in Nat
<1> DEFINE D == {T \in SUBSET S : SumFunctionOnSet(f, T) \in Nat}
<1>1. {} \in D
  BY SumEmpty
<1>2. ASSUME NEW T \in SUBSET S, NEW x \in S \ T, T \in D
      PROVE  T \cup {x} \in D
  BY <1>2, SumAdd
<1>3. S \in D
  <2> HIDE DEF D
  <2> QED
    BY <1>1, <1>2, SetInduction
<1> QED
  BY <1>3

\* A sum of sums, and the sum of what differs from 0.
LEMMA SumPlus ==
  ASSUME NEW f, NEW g, NEW h, NEW S, IsFiniteSet(S),
         \A y \in S : f[y] \in Int /\ g[y] \in Int /\ h[y] = f[y] + g[y]
  PROVE  SumFunctionOnSet(h, S) = SumFunctionOnSet(f, S) + SumFunctionOnSet(g, S)
<1> DEFINE P(T) == SumFunctionOnSet(h, T) = SumFunctionOnSet(f, T) + SumFunctionOnSet(g, T)
           D == {T \in SUBSET S : P(T)}
<1>0. \A y \in S : f[y] \in Int /\ g[y] \in Int /\ h[y] \in Int
  OBVIOUS
<1>1. {} \in D
  BY SumEmpty
<1>2. ASSUME NEW T \in SUBSET S, NEW x \in S \ T, T \in D
      PROVE  T \cup {x} \in D
  <2>1. /\ SumFunctionOnSet(f, T \cup {x}) = f[x] + SumFunctionOnSet(f, T)
        /\ SumFunctionOnSet(f, T) \in Int
    BY <1>0, SumAdd
  <2>2. /\ SumFunctionOnSet(g, T \cup {x}) = g[x] + SumFunctionOnSet(g, T)
        /\ SumFunctionOnSet(g, T) \in Int
    BY <1>0, SumAdd
  <2>3. SumFunctionOnSet(h, T \cup {x}) = h[x] + SumFunctionOnSet(h, T)
    BY <1>0, SumAdd
  <2> QED
    BY <1>0, <1>2, <2>1, <2>2, <2>3
<1>3. S \in D
  <2> HIDE DEF D
  <2> QED
    BY <1>1, <1>2, SetInduction
<1> QED
  BY <1>3

LEMMA SumSupport ==
  ASSUME NEW f, NEW g, NEW S, IsFiniteSet(S), NEW U \in SUBSET S,
         \A y \in S : f[y] \in Int, \A y \in U : f[y] = g[y], \A y \in S \ U : f[y] = 0
  PROVE  SumFunctionOnSet(f, S) = SumFunctionOnSet(g, U)
<1> DEFINE P(T) == SumFunctionOnSet(f, T) = SumFunctionOnSet(g, U \cap T)
           D == {T \in SUBSET S : P(T)}
<1>1. {} \in D
  <2>1. U \cap {} = {}
    OBVIOUS
  <2> QED
    BY <2>1, SumEmpty
<1>2. ASSUME NEW T \in SUBSET S, NEW x \in S \ T, T \in D
      PROVE  T \cup {x} \in D
  <2>1. /\ SumFunctionOnSet(f, T \cup {x}) = f[x] + SumFunctionOnSet(f, T)
        /\ SumFunctionOnSet(f, T) \in Int
    BY SumAdd
  <2>2. CASE x \in U
    <3>1. PICK V : V = U \cap T
      OBVIOUS
    <3>2. /\ IsFiniteSet(U) /\ V \in SUBSET U /\ x \in U \ V /\ \A y \in U : g[y] \in Int
          /\ U \cap (T \cup {x}) = V \cup {x}
      BY <2>2, <3>1, FS_Subset
    <3>3. SumFunctionOnSet(g, V \cup {x}) = g[x] + SumFunctionOnSet(g, V)
      BY <3>2, SumAdd
    <3> QED
      BY <1>2, <2>1, <2>2, <3>1, <3>2, <3>3
  <2>3. CASE x \notin U
    <3>1. U \cap (T \cup {x}) = U \cap T
      BY <2>3
    <3>2. f[x] = 0
      BY <2>3
    <3>3. SumFunctionOnSet(f, T) = SumFunctionOnSet(g, U \cap T)
      BY <1>2
    <3>4. PICK V, W : V = U \cap T /\ W = U \cap (T \cup {x})
      OBVIOUS
    <3>5. SumFunctionOnSet(g, W) = SumFunctionOnSet(g, V)
      BY <3>1, <3>4
    <3>6. SumFunctionOnSet(f, T \cup {x}) = SumFunctionOnSet(g, W)
      BY <2>1, <3>2, <3>3, <3>4, <3>5
    <3> QED
      BY <3>4, <3>6
  <2> QED
    BY <2>2, <2>3
<1>3. S \in D
  <2> HIDE DEF D
  <2> QED
    BY <1>1, <1>2, SetInduction
<1>4. U \cap S = U
  OBVIOUS
<1> QED
  BY <1>3, <1>4

LEMMA SumConstant ==
  ASSUME NEW f, NEW S, IsFiniteSet(S), NEW c \in Int, \A y \in S : f[y] = c
  PROVE  SumFunctionOnSet(f, S) = Cardinality(S) * c
<1> DEFINE D == {T \in SUBSET S : SumFunctionOnSet(f, T) = Cardinality(T) * c}
<1>1. {} \in D
  BY SumEmpty, FS_EmptySet
<1>2. ASSUME NEW T \in SUBSET S, NEW x \in S \ T, T \in D
      PROVE  T \cup {x} \in D
  <2>1. SumFunctionOnSet(f, T \cup {x}) = f[x] + SumFunctionOnSet(f, T)
    BY SumAdd
  <2>2. PICK n \in Nat : n = Cardinality(T) /\ Cardinality(T \cup {x}) = n + 1
    BY FS_Subset, FS_CardinalityType, FS_AddElement
  <2>3. c + n * c = (n + 1) * c
    BY <2>2
  <2> QED
    BY <1>2, <2>1, <2>2, <2>3
<1>3. S \in D
  <2> HIDE DEF D
  <2> QED
    BY <1>1, <1>2, SetInduction
<1> QED
  BY <1>3

----------------------------------------------------------------------------
(* The items of a container. *)

ItemSet == [min : Nat, priority : Int, expandable : BOOLEAN, weight : Nat]
IsItems(items) == items \in Seq(ItemSet)

\* A function defined by what each step makes of the one before.
Iterates(g, n, T, a, step) ==
  g \in [0 .. n -> T] /\ g[0] = a /\ \A k \in 1 .. n : g[k] = step[k][g[k - 1]]

LEMMA StepsExist ==
  ASSUME NEW n \in Nat, NEW T, NEW a \in T, NEW step \in [1 .. n -> [T -> T]]
  PROVE  \E g : Iterates(g, n, T, a, step)
<1> DEFINE P(g, m) == g[0] = a /\ \A k \in 1 .. m : g[k] = step[k][g[k - 1]]
           D == {m \in Nat : m <= n => \E g \in [0 .. m -> T] : P(g, m)}
<1>1. 0 \in D
  <2>1. PICK g : g = [k \in 0 .. 0 |-> a]
    OBVIOUS
  <2>2. g \in [0 .. 0 -> T] /\ P(g, 0)
    BY <2>1
  <2> QED
    BY <2>2
<1>2. ASSUME NEW m \in Nat, m \in D
      PROVE  m + 1 \in D
  <2> SUFFICES ASSUME m + 1 <= n
               PROVE  \E g \in [0 .. m + 1 -> T] : P(g, m + 1)
    OBVIOUS
  <2>1. PICK g \in [0 .. m -> T] : P(g, m)
    BY <1>2
  <2>2. PICK h : h = [k \in 0 .. m + 1 |-> IF k = m + 1 THEN step[m + 1][g[m]] ELSE g[k]]
    OBVIOUS
  <2>3. g[m] \in T /\ step[m + 1] \in [T -> T]
    BY <2>1
  <2>4. h \in [0 .. m + 1 -> T]
    BY <2>1, <2>2, <2>3
  <2>5. h[0] = a
    BY <2>1, <2>2
  <2>6. ASSUME NEW k \in 1 .. m + 1
        PROVE  h[k] = step[k][h[k - 1]]
    <3>1. k - 1 \in 0 .. m /\ h[k - 1] = g[k - 1]
      BY <2>2
    <3>2. CASE k = m + 1
      BY <2>2, <3>1, <3>2
    <3>3. CASE k # m + 1
      <4>1. k \in 1 .. m
        BY <3>3
      <4> QED
        BY <2>1, <2>2, <3>1, <4>1
    <3> QED
      BY <3>2, <3>3
  <2> QED
    BY <2>4, <2>5, <2>6
<1>3. Nat \subseteq D
  <2> HIDE DEF D
  <2> QED
    BY <1>1, <1>2, Induction
<1> QED
  BY <1>3 DEF Iterates

----------------------------------------------------------------------------
(* The space that is left, item after item. *)

Grower(items, shown, k) == k \in shown /\ items[k].expandable
TotalWeight(items, shown) ==
  SumFunction([k \in DOMAIN items |-> IF Grower(items, shown, k) THEN items[k].weight ELSE 0])
Growers(items, shown) ==
  SumFunction([k \in DOMAIN items |-> IF Grower(items, shown, k) THEN 1 ELSE 0])
ShareOf(items, shown, unused, k) ==
  IF TotalWeight(items, shown) > 0
  THEN Round(unused * items[k].weight, TotalWeight(items, shown))
  ELSE Round(unused, Growers(items, shown))

LeftIs(left, items, shown, unused) ==
  left = [k \in 0 .. Len(items) |->
            IF k = 0 THEN unused
            ELSE LET before == left[k - 1]
                 IN  before - (IF Grower(items, shown, k)
                               THEN Lesser(before, ShareOf(items, shown, unused, k)) ELSE 0)]

LEMMA AddedIs ==
  ASSUME NEW items, NEW shown, NEW unused
  PROVE  Added(items, shown, unused) =
           LET left == CHOOSE left : LeftIs(left, items, shown, unused)
           IN  [k \in DOMAIN items |-> left[k - 1] - left[k]]
BY DEF Added, LeftIs, ShareOf, TotalWeight, Growers, Grower

\* qRound goes to the nearest integer.
LEMMA RoundIs ==
  ASSUME NEW a \in Nat, NEW b \in Nat \ {0}
  PROVE  /\ Round(a, b) \in Nat
         /\ 2 * (b * Round(a, b)) <= 2 * a + b
         /\ 2 * a < 2 * (b * Round(a, b)) + b
<1>1. PICK x, y : x = 2 * a + b /\ y = 2 * b
  OBVIOUS
<1>2. x \in Nat /\ y \in Nat \ {0}
  BY <1>1
<1>3. x \div y \in Nat /\ y * (x \div y) <= x /\ x < y * (x \div y) + y
  BY <1>2
<1>4. PICK r \in Nat : r = Round(a, b) /\ r = x \div y
  BY <1>1, <1>3 DEF Round
<1>5. y * r = 2 * (b * r)
  BY <1>1, <1>4
<1>6. b * r \in Nat
  BY <1>4
<1> QED
  BY <1>1, <1>3, <1>4, <1>5, <1>6

LEMMA ItemsAre ==
  ASSUME NEW items, IsItems(items)
  PROVE  /\ Len(items) \in Nat /\ DOMAIN items = 1 .. Len(items)
         /\ IsFiniteSet(DOMAIN items)
         /\ \A k \in DOMAIN items : /\ items[k].min \in Nat /\ items[k].priority \in Int
                                    /\ items[k].expandable \in BOOLEAN /\ items[k].weight \in Nat
<1>1. Len(items) \in Nat /\ DOMAIN items = 1 .. Len(items)
  BY DEF IsItems
<1>2. \A k \in DOMAIN items : items[k] \in ItemSet
  BY <1>1 DEF IsItems
<1>3. IsFiniteSet(1 .. Len(items))
  BY <1>1, FS_Interval
<1> QED
  BY <1>1, <1>2, <1>3 DEF ItemSet

\* The share of an item that grows.
LEMMA ShareIsNat ==
  ASSUME NEW items, IsItems(items), NEW shown, NEW unused \in Nat, NEW k \in DOMAIN items,
         Grower(items, shown, k)
  PROVE  ShareOf(items, shown, unused, k) \in Nat
<1>1. TotalWeight(items, shown) \in Nat
  <2>1. PICK f : f = [j \in DOMAIN items |-> IF Grower(items, shown, j) THEN items[j].weight ELSE 0]
    OBVIOUS
  <2>2. DOMAIN f = DOMAIN items /\ \A j \in DOMAIN items : f[j] \in Nat
    BY <2>1, ItemsAre
  <2>3. SumFunctionOnSet(f, DOMAIN items) \in Nat
    BY <2>2, ItemsAre, SumNat
  <2> QED
    BY <2>1, <2>2, <2>3 DEF TotalWeight, SumFunction
<1>2. Growers(items, shown) \in Nat \ {0}
  <2>1. PICK f : f = [j \in DOMAIN items |-> IF Grower(items, shown, j) THEN 1 ELSE 0]
    OBVIOUS
  <2>2. DOMAIN f = DOMAIN items /\ \A j \in DOMAIN items : f[j] \in Nat
    BY <2>1
  <2>3. PICK R : R = DOMAIN items \ {k}
    OBVIOUS
  <2>4. SumFunctionOnSet(f, DOMAIN items) = f[k] + SumFunctionOnSet(f, R)
    BY <2>2, <2>3, ItemsAre, SumOne
  <2>5. SumFunctionOnSet(f, R) \in Nat
    <3>1. IsFiniteSet(R) /\ \A j \in R : f[j] \in Nat
      BY <2>2, <2>3, ItemsAre, FS_Subset
    <3> QED
      BY <3>1, SumNat
  <2>6. f[k] = 1
    BY <2>1
  <2> QED
    BY <2>1, <2>2, <2>4, <2>5, <2>6 DEF Growers, SumFunction
<1>3. CASE TotalWeight(items, shown) > 0
  <2>1. PICK a : a = unused * items[k].weight
    OBVIOUS
  <2>2. a \in Nat /\ TotalWeight(items, shown) \in Nat \ {0}
    BY <1>1, <1>3, <2>1, ItemsAre
  <2>3. Round(a, TotalWeight(items, shown)) \in Nat
    BY <2>2, RoundIs
  <2> QED
    BY <1>3, <2>1, <2>3 DEF ShareOf
<1>4. CASE ~(TotalWeight(items, shown) > 0)
  BY <1>2, <1>4, RoundIs DEF ShareOf
<1> QED
  BY <1>3, <1>4

\* What each item takes of the space that is left.
Takes(items, shown, unused, left) ==
  /\ left \in [0 .. Len(items) -> Nat] /\ left[0] = unused
  /\ \A k \in 1 .. Len(items) :
       left[k] = left[k - 1] - (IF Grower(items, shown, k)
                                THEN Lesser(left[k - 1], ShareOf(items, shown, unused, k)) ELSE 0)

LEMMA LeftExists ==
  ASSUME NEW items, IsItems(items), NEW shown, NEW unused \in Nat
  PROVE  \E left : LeftIs(left, items, shown, unused) /\ Takes(items, shown, unused, left)
<1>1. PICK n \in Nat : n = Len(items) /\ DOMAIN items = 1 .. n
  BY ItemsAre
<1>2. PICK share : share = [k \in 1 .. n |-> IF Grower(items, shown, k)
                                             THEN ShareOf(items, shown, unused, k) ELSE 0]
  OBVIOUS
<1>3. share \in [1 .. n -> Nat]
  BY <1>1, <1>2, ShareIsNat
<1>4. PICK step : step = [k \in 1 .. n |-> [x \in Nat |-> x - Lesser(x, share[k])]]
  OBVIOUS
<1>5. step \in [1 .. n -> [Nat -> Nat]]
  BY <1>3, <1>4 DEF Lesser
<1>6. PICK left \in [0 .. n -> Nat] :
        left[0] = unused /\ \A k \in 1 .. n : left[k] = step[k][left[k - 1]]
  <2>1. \E g : Iterates(g, n, Nat, unused, step)
    BY <1>5, StepsExist
  <2> QED
    BY <2>1 DEF Iterates
<1>7. ASSUME NEW k \in 1 .. n
      PROVE  left[k] = left[k - 1] - (IF Grower(items, shown, k)
                         THEN Lesser(left[k - 1], ShareOf(items, shown, unused, k)) ELSE 0)
  <2>1. k - 1 \in 0 .. n /\ left[k - 1] \in Nat
    BY <1>6
  <2>2. left[k] = left[k - 1] - Lesser(left[k - 1], share[k])
    BY <1>4, <1>6, <2>1
  <2>3. CASE Grower(items, shown, k)
    BY <1>2, <2>2, <2>3
  <2>4. CASE ~Grower(items, shown, k)
    <3>1. share[k] = 0
      BY <1>2, <2>4
    <3> QED
      BY <2>1, <2>2, <2>4, <3>1 DEF Lesser
  <2> QED
    BY <2>3, <2>4
<1>8. Takes(items, shown, unused, left)
  BY <1>1, <1>6, <1>7 DEF Takes
<1>9. left = [k \in 0 .. n |->
            IF k = 0 THEN unused
            ELSE left[k - 1] - (IF Grower(items, shown, k)
                         THEN Lesser(left[k - 1], ShareOf(items, shown, unused, k)) ELSE 0)]
  <2>1. \A k \in 0 .. n : left[k] = IF k = 0 THEN unused
            ELSE left[k - 1] - (IF Grower(items, shown, k)
                         THEN Lesser(left[k - 1], ShareOf(items, shown, unused, k)) ELSE 0)
    BY <1>6, <1>7
  <2> QED
    BY <1>6, <2>1
<1>10. LeftIs(left, items, shown, unused)
  BY <1>1, <1>9 DEF LeftIs
<1> QED
  BY <1>8, <1>10

LEMMA LeftFalls ==
  ASSUME NEW items, IsItems(items), NEW shown, NEW unused \in Nat, NEW left,
         Takes(items, shown, unused, left), NEW k \in DOMAIN items
  PROVE  /\ left[k] <= left[k - 1] /\ left[Len(items)] <= left[k]
         /\ left[k - 1] \in Nat /\ left[k] \in Nat
<1>1. PICK n \in Nat : n = Len(items) /\ DOMAIN items = 1 .. n
  BY ItemsAre
<1>2. /\ left \in [0 .. n -> Nat]
      /\ \A j \in 1 .. n : left[j] = left[j - 1] - (IF Grower(items, shown, j)
                             THEN Lesser(left[j - 1], ShareOf(items, shown, unused, j)) ELSE 0)
  BY <1>1 DEF Takes
<1>3. ASSUME NEW j \in 1 .. n
      PROVE  left[j] <= left[j - 1] /\ left[j] \in Nat /\ left[j - 1] \in Nat
  <2>1. left[j] \in Nat /\ left[j - 1] \in Nat
    BY <1>2
  <2>2. CASE Grower(items, shown, j)
    <3>1. ShareOf(items, shown, unused, j) \in Nat
      BY <1>1, <2>2, ShareIsNat
    <3>2. left[j] = left[j - 1] - Lesser(left[j - 1], ShareOf(items, shown, unused, j))
      BY <1>2, <2>2
    <3> QED
      BY <2>1, <3>1, <3>2 DEF Lesser
  <2>3. CASE ~Grower(items, shown, j)
    BY <1>2, <2>1, <2>3
  <2> QED
    BY <2>1, <2>2, <2>3
<1> DEFINE D == {m \in Nat : k + m <= n => left[k + m] <= left[k]}
<1>4. 0 \in D
  BY <1>1, <1>2
<1>5. ASSUME NEW m \in Nat, m \in D
      PROVE  m + 1 \in D
  <2> SUFFICES ASSUME k + m + 1 <= n
               PROVE  left[k + (m + 1)] <= left[k]
    BY <1>1
  <2>1. PICK j \in 1 .. n : j = k + (m + 1) /\ j - 1 = k + m
    BY <1>1
  <2>2. left[k + m] <= left[k]
    BY <1>1, <1>5
  <2>3. left[k] \in Nat
    BY <1>1, <1>2
  <2> QED
    BY <1>3, <2>1, <2>2, <2>3
<1>6. Nat \subseteq D
  <2> HIDE DEF D
  <2> QED
    BY <1>4, <1>5, Induction
<1>7. PICK m \in Nat : n = k + m
  <2>1. n - k \in Nat /\ n = k + (n - k)
    BY <1>1
  <2> QED
    BY <2>1
<1> QED
  BY <1>1, <1>3, <1>6, <1>7

\* All that is added is what is not left.
LEMMA AddedSum ==
  ASSUME NEW items, IsItems(items), NEW shown, NEW unused \in Nat, NEW left,
         Takes(items, shown, unused, left),
         NEW added, added = [k \in DOMAIN items |-> left[k - 1] - left[k]]
  PROVE  SumFunctionOnSet(added, DOMAIN items) = unused - left[Len(items)]
<1>1. PICK n \in Nat : n = Len(items) /\ DOMAIN items = 1 .. n
  BY ItemsAre
<1>2. left \in [0 .. n -> Nat] /\ left[0] = unused
  BY <1>1 DEF Takes
<1>3. \A k \in 1 .. n : added[k] = left[k - 1] - left[k] /\ added[k] \in Int
  BY <1>1, <1>2
<1> DEFINE D == {m \in Nat : m <= n => SumFunctionOnSet(added, 1 .. m) = unused - left[m]}
<1>4. 0 \in D
  <2>1. 1 .. 0 = {}
    OBVIOUS
  <2> QED
    BY <1>2, <2>1, SumEmpty
<1>5. ASSUME NEW m \in Nat, m \in D
      PROVE  m + 1 \in D
  <2> SUFFICES ASSUME m + 1 <= n
               PROVE  SumFunctionOnSet(added, 1 .. m + 1) = unused - left[m + 1]
    OBVIOUS
  <2>1. PICK T, x, R : T = 1 .. m /\ x = m + 1 /\ R = 1 .. m + 1
    OBVIOUS
  <2>2. R = T \cup {x} /\ T \in SUBSET (1 .. n) /\ x \in (1 .. n) \ T
    BY <2>1
  <2>3. SumFunctionOnSet(added, R) = added[x] + SumFunctionOnSet(added, T)
    <3>1. PICK U : U = 1 .. n
      OBVIOUS
    <3>2. IsFiniteSet(U) /\ \A y \in U : added[y] \in Int
      BY <1>1, <1>3, <3>1, ItemsAre
    <3>3. R = T \cup {x} /\ T \in SUBSET U /\ x \in U \ T
      BY <2>2, <3>1
    <3> QED
      BY <3>2, <3>3, SumAdd
  <2>4. SumFunctionOnSet(added, T) = unused - left[m]
    BY <1>5, <2>1
  <2>5. added[x] = left[m] - left[m + 1] /\ left[m] \in Nat /\ left[m + 1] \in Nat
    BY <1>2, <1>3, <2>1
  <2> QED
    BY <2>1, <2>3, <2>4, <2>5
<1>6. Nat \subseteq D
  <2> HIDE DEF D
  <2> QED
    BY <1>4, <1>5, Induction
<1> QED
  BY <1>1, <1>6

\* When the shares are at least what is unused, nothing is left.
LEMMA NothingLeft ==
  ASSUME NEW items, IsItems(items), NEW shown, NEW unused \in Nat, NEW left,
         Takes(items, shown, unused, left), NEW shares,
         \A k \in DOMAIN items :
           shares[k] = IF Grower(items, shown, k) THEN ShareOf(items, shown, unused, k) ELSE 0,
         SumFunctionOnSet(shares, DOMAIN items) >= unused
  PROVE  left[Len(items)] = 0
<1>1. PICK n \in Nat : n = Len(items) /\ DOMAIN items = 1 .. n
  BY ItemsAre
<1>2. left \in [0 .. n -> Nat] /\ left[n] \in Nat
  BY <1>1 DEF Takes
<1> SUFFICES ASSUME left[n] > 0
             PROVE  FALSE
  BY <1>1, <1>2
<1>3. PICK added : added = [k \in DOMAIN items |-> left[k - 1] - left[k]]
  OBVIOUS
<1>4. ASSUME NEW k \in DOMAIN items
      PROVE  shares[k] = added[k] /\ shares[k] \in Int
  <2>1. left[k] > 0 /\ left[k - 1] \in Nat /\ left[k] \in Nat /\ added[k] = left[k - 1] - left[k]
    BY <1>1, <1>2, <1>3, LeftFalls
  <2>2. CASE Grower(items, shown, k)
    <3>1. ShareOf(items, shown, unused, k) \in Nat
      BY <2>2, ShareIsNat
    <3>2. left[k] = left[k - 1] - Lesser(left[k - 1], ShareOf(items, shown, unused, k))
      BY <1>1, <2>2 DEF Takes
    <3>3. shares[k] = ShareOf(items, shown, unused, k)
      BY <2>2
    <3> QED
      BY <2>1, <3>1, <3>2, <3>3 DEF Lesser
  <2>3. CASE ~Grower(items, shown, k)
    BY <1>1, <2>1, <2>3 DEF Takes
  <2> QED
    BY <2>2, <2>3
<1>5. SumFunctionOnSet(shares, DOMAIN items) = SumFunctionOnSet(added, DOMAIN items)
  <2>1. IsFiniteSet(DOMAIN items) /\ DOMAIN items \in SUBSET (DOMAIN items)
    BY ItemsAre
  <2> QED
    BY <1>4, <2>1, SumSupport
<1>6. SumFunctionOnSet(added, DOMAIN items) = unused - left[n]
  BY <1>1, <1>3, AddedSum
<1> QED
  BY <1>2, <1>5, <1>6

LEMMA Cancels ==
  ASSUME NEW t \in Nat \ {0}, NEW x \in Int, NEW y \in Int, t * x < t * y
  PROVE  x < y
<1> SUFFICES ASSUME y <= x
             PROVE  FALSE
  OBVIOUS
<1>1. PICK d \in Nat : x = y + d
  <2>1. x - y \in Nat /\ x = y + (x - y)
    OBVIOUS
  <2> QED
    BY <2>1
<1>2. t * x = t * y + t * d /\ t * d \in Nat /\ t * y \in Int
  BY <1>1
<1> QED
  BY <1>2

LEMMA RoundExact ==
  ASSUME NEW u \in Nat, NEW w \in Nat \ {0}
  PROVE  Round(u * w, w) = u
<1>1. PICK a, r : a = u * w /\ r = Round(a, w)
  OBVIOUS
<1>2. a \in Nat
  BY <1>1
<1>3. r \in Nat /\ 2 * (w * r) <= 2 * a + w /\ 2 * a < 2 * (w * r) + w
  BY <1>1, <1>2, RoundIs
<1>4. w * (u + 1) = a + w /\ w * (r + 1) = w * r + w /\ w * r \in Nat /\ w * u = a
  BY <1>1, <1>3
<1>5. w * r < w * (u + 1) /\ w * u < w * (r + 1)
  BY <1>2, <1>3, <1>4
<1>6. r < u + 1 /\ u < r + 1
  <2>1. r \in Int /\ u \in Int /\ u + 1 \in Int /\ r + 1 \in Int
    BY <1>3
  <2> QED
    BY <1>5, <2>1, Cancels
<1> QED
  BY <1>1, <1>3, <1>6

LEMMA RoundTwo ==
  ASSUME NEW u \in Nat, NEW x \in Nat, NEW y \in Nat, x + y > 0
  PROVE  Round(u * x, x + y) + Round(u * y, x + y) >= u
<1>1. PICK a, b, t, q, r : /\ a = u * x /\ b = u * y /\ t = x + y
                           /\ q = Round(a, t) /\ r = Round(b, t)
  OBVIOUS
<1>2. a \in Nat /\ b \in Nat /\ t \in Nat \ {0}
  BY <1>1
<1>3. q \in Nat /\ 2 * a < 2 * (t * q) + t
  BY <1>1, <1>2, RoundIs
<1>4. r \in Nat /\ 2 * b < 2 * (t * r) + t
  BY <1>1, <1>2, RoundIs
<1>5. a + b = t * u
  BY <1>1
<1>6. t * q \in Nat /\ t * r \in Nat /\ t * (q + r + 1) = t * q + t * r + t
  BY <1>2, <1>3, <1>4
<1>7. t * u < t * (q + r + 1)
  BY <1>2, <1>3, <1>4, <1>5, <1>6
<1>8. u < q + r + 1
  <2>1. u \in Int /\ q + r + 1 \in Int
    BY <1>3, <1>4
  <2> QED
    BY <1>2, <1>7, <2>1, Cancels
<1> QED
  BY <1>1, <1>3, <1>4, <1>8

LEMMA SumSingle ==
  ASSUME NEW f, NEW i, f[i] \in Int
  PROVE  SumFunctionOnSet(f, {i}) = f[i]
<1>1. IsFiniteSet({i}) /\ {i} \ {i} = {} /\ \A x \in {i} : f[x] \in Int
  BY FS_Singleton
<1>2. SumFunctionOnSet(f, {i}) = f[i] + SumFunctionOnSet(f, {i} \ {i})
  BY <1>1, SumOne
<1> QED
  BY <1>1, <1>2, SumEmpty

LEMMA SumPair ==
  ASSUME NEW f, NEW i, NEW j, i # j, f[i] \in Int, f[j] \in Int
  PROVE  SumFunctionOnSet(f, {i, j}) = f[i] + f[j]
<1>1. PICK S : S = {i, j}
  OBVIOUS
<1>2. IsFiniteSet({j}) /\ S = {j} \cup {i}
  BY <1>1, FS_Singleton
<1>3. IsFiniteSet(S) /\ {j} \in SUBSET S /\ i \in S \ {j} /\ \A x \in S : f[x] \in Int
  BY <1>1, <1>2, FS_AddElement
<1>4. SumFunctionOnSet(f, {j} \cup {i}) = f[i] + SumFunctionOnSet(f, {j})
  BY <1>3, SumAdd
<1> QED
  BY <1>1, <1>2, <1>4, SumSingle

\* The shares of one item, or of two, are all that is unused: what is rounded
\* down of one is rounded up of the other.
LEMMA SharesOfOne ==
  ASSUME NEW items, IsItems(items), NEW shown, NEW unused \in Nat, NEW i \in DOMAIN items,
         \A k \in DOMAIN items : Grower(items, shown, k) <=> k = i
  PROVE  ShareOf(items, shown, unused, i) = unused
<1>1. IsFiniteSet(DOMAIN items) /\ {i} \in SUBSET (DOMAIN items) /\ items[i].weight \in Nat
  BY ItemsAre
<1>2. TotalWeight(items, shown) = items[i].weight
  <2>1. PICK f : f = [k \in DOMAIN items |-> IF Grower(items, shown, k) THEN items[k].weight ELSE 0]
    OBVIOUS
  <2>2. /\ DOMAIN f = DOMAIN items /\ \A k \in DOMAIN items : f[k] \in Int
        /\ f[i] = items[i].weight /\ \A k \in DOMAIN items \ {i} : f[k] = 0
    BY <2>1, ItemsAre
  <2>3. SumFunctionOnSet(f, DOMAIN items) = SumFunctionOnSet(f, {i})
    BY <1>1, <2>2, SumSupport
  <2> QED
    BY <2>1, <2>2, <2>3, SumSingle DEF TotalWeight, SumFunction
<1>3. Growers(items, shown) = 1
  <2>1. PICK f : f = [k \in DOMAIN items |-> IF Grower(items, shown, k) THEN 1 ELSE 0]
    OBVIOUS
  <2>2. /\ DOMAIN f = DOMAIN items /\ \A k \in DOMAIN items : f[k] \in Int
        /\ f[i] = 1 /\ \A k \in DOMAIN items \ {i} : f[k] = 0
    BY <2>1
  <2>3. SumFunctionOnSet(f, DOMAIN items) = SumFunctionOnSet(f, {i})
    BY <1>1, <2>2, SumSupport
  <2> QED
    BY <2>1, <2>2, <2>3, SumSingle DEF Growers, SumFunction
<1>4. Round(unused, 1) = unused
  <2>1. unused * 1 = unused
    OBVIOUS
  <2> QED
    BY <2>1, RoundExact
<1>5. CASE items[i].weight = 0
  BY <1>2, <1>3, <1>4, <1>5 DEF ShareOf
<1>6. CASE items[i].weight # 0
  <2>1. items[i].weight \in Nat \ {0} /\ items[i].weight > 0
    BY <1>1, <1>6
  <2>2. Round(unused * items[i].weight, items[i].weight) = unused
    BY <2>1, RoundExact
  <2> QED
    BY <1>2, <2>1, <2>2 DEF ShareOf
<1> QED
  BY <1>5, <1>6

LEMMA SharesOfTwo ==
  ASSUME NEW items, IsItems(items), NEW shown, NEW unused \in Nat,
         NEW i \in DOMAIN items, NEW j \in DOMAIN items, i # j,
         \A k \in DOMAIN items : Grower(items, shown, k) <=> k \in {i, j}
  PROVE  ShareOf(items, shown, unused, i) + ShareOf(items, shown, unused, j) >= unused
<1>1. /\ IsFiniteSet(DOMAIN items) /\ {i, j} \in SUBSET (DOMAIN items)
      /\ items[i].weight \in Nat /\ items[j].weight \in Nat
  BY ItemsAre
<1>2. TotalWeight(items, shown) = items[i].weight + items[j].weight
  <2>1. PICK f : f = [k \in DOMAIN items |-> IF Grower(items, shown, k) THEN items[k].weight ELSE 0]
    OBVIOUS
  <2>2. /\ DOMAIN f = DOMAIN items /\ \A k \in DOMAIN items : f[k] \in Int
        /\ f[i] = items[i].weight /\ f[j] = items[j].weight
        /\ \A k \in DOMAIN items \ {i, j} : f[k] = 0
    BY <2>1, ItemsAre
  <2>3. SumFunctionOnSet(f, DOMAIN items) = SumFunctionOnSet(f, {i, j})
    BY <1>1, <2>2, SumSupport
  <2>4. SumFunctionOnSet(f, {i, j}) = f[i] + f[j]
    BY <2>2, SumPair
  <2> QED
    BY <2>1, <2>2, <2>3, <2>4 DEF TotalWeight, SumFunction
<1>3. Growers(items, shown) = 2
  <2>1. PICK f : f = [k \in DOMAIN items |-> IF Grower(items, shown, k) THEN 1 ELSE 0]
    OBVIOUS
  <2>2. /\ DOMAIN f = DOMAIN items /\ \A k \in DOMAIN items : f[k] \in Int
        /\ f[i] = 1 /\ f[j] = 1 /\ \A k \in DOMAIN items \ {i, j} : f[k] = 0
    BY <2>1
  <2>3. SumFunctionOnSet(f, DOMAIN items) = SumFunctionOnSet(f, {i, j})
    BY <1>1, <2>2, SumSupport
  <2>4. SumFunctionOnSet(f, {i, j}) = f[i] + f[j]
    BY <2>2, SumPair
  <2> QED
    BY <2>1, <2>2, <2>3, <2>4 DEF Growers, SumFunction
<1>4. PICK x, y : x = items[i].weight /\ y = items[j].weight
  OBVIOUS
<1>5. CASE x + y > 0
  <2>1. Round(unused * x, x + y) + Round(unused * y, x + y) >= unused
    BY <1>1, <1>4, <1>5, RoundTwo
  <2>2. /\ ShareOf(items, shown, unused, i) = Round(unused * x, x + y)
        /\ ShareOf(items, shown, unused, j) = Round(unused * y, x + y)
    BY <1>2, <1>4, <1>5 DEF ShareOf
  <2> QED
    BY <2>1, <2>2
<1>6. CASE ~(x + y > 0)
  <2>1. Round(unused, 2) \in Nat /\ 2 * unused < 2 * (2 * Round(unused, 2)) + 2
    BY RoundIs
  <2>2. /\ ShareOf(items, shown, unused, i) = Round(unused, 2)
        /\ ShareOf(items, shown, unused, j) = Round(unused, 2)
    BY <1>2, <1>3, <1>4, <1>6 DEF ShareOf
  <2> QED
    BY <2>1, <2>2
<1> QED
  BY <1>5, <1>6

\* So one or two items that grow leave nothing.
LEMMA OneOrTwoFill ==
  ASSUME NEW items, IsItems(items), NEW shown, NEW unused \in Nat, NEW left,
         Takes(items, shown, unused, left), NEW i \in DOMAIN items, NEW j \in DOMAIN items,
         \A k \in DOMAIN items : Grower(items, shown, k) <=> k \in {i, j}
  PROVE  left[Len(items)] = 0
<1>1. PICK s : s = [k \in DOMAIN items |->
                      IF Grower(items, shown, k) THEN ShareOf(items, shown, unused, k) ELSE 0]
  OBVIOUS
<1>2. /\ IsFiniteSet(DOMAIN items) /\ \A k \in DOMAIN items : s[k] \in Int
      /\ \A k \in DOMAIN items \ {i, j} : s[k] = 0
      /\ s[i] = ShareOf(items, shown, unused, i) /\ s[j] = ShareOf(items, shown, unused, j)
      /\ {i, j} \in SUBSET (DOMAIN items)
  BY <1>1, ItemsAre, ShareIsNat
<1>3. SumFunctionOnSet(s, DOMAIN items) = SumFunctionOnSet(s, {i, j})
  BY <1>2, SumSupport
<1>4. SumFunctionOnSet(s, {i, j}) >= unused
  <2>1. CASE i = j
    <3>1. ShareOf(items, shown, unused, i) = unused
      BY <2>1, SharesOfOne
    <3>2. {i, j} = {i}
      BY <2>1
    <3> QED
      BY <1>2, <3>1, <3>2, SumSingle
  <2>2. CASE i # j
    <3>1. ShareOf(items, shown, unused, i) + ShareOf(items, shown, unused, j) >= unused
      BY <2>2, SharesOfTwo
    <3>2. SumFunctionOnSet(s, {i, j}) = s[i] + s[j]
      BY <1>2, <2>2, SumPair
    <3> QED
      BY <1>2, <3>1, <3>2
  <2> QED
    BY <2>1, <2>2
<1>5. \A k \in DOMAIN items :
        s[k] = IF Grower(items, shown, k) THEN ShareOf(items, shown, unused, k) ELSE 0
  BY <1>1
<1> QED
  BY <1>3, <1>4, <1>5, NothingLeft

----------------------------------------------------------------------------
(* Which items are hidden. *)

States(items) == [shown : SUBSET (DOMAIN items), required : Int, nb : Int]
AllShown(items, sep) ==
  [shown |-> DOMAIN items, required |-> MinSize(items, sep), nb |-> Len(items)]
Turn(items, sep, len, st) == IF st.required > len THEN HideOne(items, sep, st) ELSE st

\* The states the loop goes through.
Hides(items, sep, len, after) ==
  /\ after \in [0 .. Len(items) -> States(items)] /\ after[0] = AllShown(items, sep)
  /\ \A n \in 1 .. Len(items) : after[n] = Turn(items, sep, len, after[n - 1])

GoesFirst(items, k, j) ==
  \/ items[k].priority < items[j].priority
  \/ items[k].priority = items[j].priority /\ k <= j

\* Among several items one goes first.
LEMMA OneGoesFirst ==
  ASSUME NEW items, IsItems(items), NEW C \in SUBSET (DOMAIN items), C # {}
  PROVE  \E k \in C : \A j \in C : GoesFirst(items, k, j)
<1> DEFINE D == {T \in SUBSET C : T # {} => \E k \in T : \A j \in T : GoesFirst(items, k, j)}
<1>1. IsFiniteSet(C) /\ \A k \in C : items[k].priority \in Int /\ k \in Int
  BY ItemsAre, FS_Subset
<1>2. {} \in D
  OBVIOUS
<1>3. ASSUME NEW T \in SUBSET C, NEW x \in C \ T, T \in D
      PROVE  T \cup {x} \in D
  <2>1. CASE T = {}
    <3>1. \A j \in T \cup {x} : GoesFirst(items, x, j)
      BY <1>1, <2>1 DEF GoesFirst
    <3> QED
      BY <3>1
  <2>2. CASE T # {}
    <3>1. PICK k \in T : \A j \in T : GoesFirst(items, k, j)
      BY <1>3, <2>2
    <3>2. CASE GoesFirst(items, k, x)
      BY <3>1, <3>2
    <3>3. CASE ~GoesFirst(items, k, x)
      <4>1. \A j \in T \cup {x} : GoesFirst(items, x, j)
        BY <1>1, <3>1, <3>3 DEF GoesFirst
      <4> QED
        BY <4>1
    <3> QED
      BY <3>2, <3>3
  <2> QED
    BY <2>1, <2>2
<1>4. C \in D
  <2> HIDE DEF D
  <2> QED
    BY <1>1, <1>2, <1>3, SetInduction
<1> QED
  BY <1>4

LEMMA HideOneIs ==
  ASSUME NEW items, IsItems(items), Len(items) > 0, NEW sep \in Nat, NEW st \in States(items)
  PROVE  \E k \in {1} \cup st.shown :
           /\ \A j \in {1} \cup st.shown : GoesFirst(items, k, j)
           /\ HideOne(items, sep, st) =
                [shown |-> st.shown \ {k},
                 required |-> st.required - items[k].min - (IF st.nb > 1 THEN sep ELSE 0),
                 nb |-> st.nb - 1]
           /\ HideOne(items, sep, st) \in States(items)
<1>1. PICK C : C = {1} \cup st.shown
  OBVIOUS
<1>2. C \in SUBSET (DOMAIN items) /\ C # {}
  BY <1>1, ItemsAre DEF States
<1>3. PICK k : k = CHOOSE i \in C : \A j \in C : GoesFirst(items, i, j)
  OBVIOUS
<1>4. k \in C /\ \A j \in C : GoesFirst(items, k, j)
  BY <1>2, <1>3, OneGoesFirst
<1>5. HideOne(items, sep, st) =
        [shown |-> st.shown \ {k},
         required |-> st.required - items[k].min - (IF st.nb > 1 THEN sep ELSE 0),
         nb |-> st.nb - 1]
  BY <1>1, <1>3 DEF HideOne, GoesFirst
<1>6. HideOne(items, sep, st) \in States(items)
  <2>1. k \in DOMAIN items /\ items[k].min \in Int
    BY <1>2, <1>4, ItemsAre
  <2> QED
    BY <1>5, <2>1 DEF States
<1> QED
  BY <1>1, <1>4, <1>5, <1>6

LEMMA MinSizeIs ==
  ASSUME NEW items, IsItems(items), NEW sep \in Nat, NEW mins,
         mins = [k \in DOMAIN items |-> items[k].min]
  PROVE  /\ MinSize(items, sep) = SumFunctionOnSet(mins, DOMAIN items)
                                   + (IF items = << >> THEN 0 ELSE (Len(items) - 1) * sep)
         /\ MinSize(items, sep) \in Int
<1>1. DOMAIN mins = DOMAIN items /\ \A k \in DOMAIN items : mins[k] \in Int
  BY ItemsAre
<1>2. SumFunctionOnSet(mins, DOMAIN items) \in Int
  BY <1>1, ItemsAre, SumInt
<1>3. MinSize(items, sep) = SumFunctionOnSet(mins, DOMAIN items)
                             + (IF items = << >> THEN 0 ELSE (Len(items) - 1) * sep)
  BY <1>1 DEF MinSize, SumFunction
<1>4. (Len(items) - 1) * sep \in Int
  BY ItemsAre
<1> QED
  BY <1>2, <1>3, <1>4

LEMMA HiddenIs ==
  ASSUME NEW items, IsItems(items), NEW sep \in Nat, NEW len \in Int
  PROVE  \E after : Hides(items, sep, len, after) /\ Hidden(items, sep, len) = after[Len(items)]
<1>1. PICK n \in Nat : n = Len(items) /\ DOMAIN items = 1 .. n
  BY ItemsAre
<1>2. PICK T : T = States(items)
  OBVIOUS
<1>3. PICK all \in T : all = AllShown(items, sep)
  <2>1. AllShown(items, sep) \in States(items)
    <3>1. PICK mins : mins = [k \in DOMAIN items |-> items[k].min]
      OBVIOUS
    <3>2. MinSize(items, sep) \in Int
      BY <3>1, MinSizeIs
    <3> QED
      BY <1>1, <3>2 DEF AllShown, States
  <2> QED
    BY <1>2, <2>1
<1>4. PICK step : step = [k \in 1 .. n |-> [st \in T |-> Turn(items, sep, len, st)]]
  OBVIOUS
<1>5. step \in [1 .. n -> [T -> T]]
  <2>1. ASSUME NEW k \in 1 .. n, NEW st \in T
        PROVE  Turn(items, sep, len, st) \in T
    BY <1>1, <1>2, HideOneIs DEF Turn
  <2> QED
    BY <1>4, <2>1
<1>6. PICK after : Iterates(after, n, T, all, step)
  BY <1>5, StepsExist
<1>7. ASSUME NEW k \in 1 .. n
      PROVE  after[k] = Turn(items, sep, len, after[k - 1])
  <2>1. k - 1 \in 0 .. n /\ after[k - 1] \in T
    BY <1>6 DEF Iterates
  <2>2. after[k] = step[k][after[k - 1]]
    BY <1>6 DEF Iterates
  <2> QED
    BY <1>4, <2>1, <2>2
<1>8. Hides(items, sep, len, after)
  BY <1>1, <1>2, <1>3, <1>6, <1>7 DEF Hides, Iterates
<1> DEFINE Is(f) == f = [k \in 0 .. Len(items) |->
                          IF k = 0 THEN AllShown(items, sep)
                          ELSE LET st == f[k - 1]
                               IN  IF st.required > len THEN HideOne(items, sep, st) ELSE st]
<1>9. Is(after)
  <2>1. after = [k \in 0 .. n |-> after[k]]
    BY <1>6 DEF Iterates
  <2>2. \A k \in 0 .. n : after[k] = IF k = 0 THEN AllShown(items, sep)
                                     ELSE Turn(items, sep, len, after[k - 1])
    BY <1>3, <1>6, <1>7 DEF Iterates
  <2>3. after = [k \in 0 .. n |-> IF k = 0 THEN AllShown(items, sep)
                                  ELSE Turn(items, sep, len, after[k - 1])]
    BY <2>1, <2>2
  <2> QED
    BY <1>1, <2>3 DEF Turn
<1>10. Hidden(items, sep, len) = (CHOOSE f : Is(f))[Len(items)]
  BY DEF Hidden, AllShown
<1>11. ASSUME NEW f, Is(f)
       PROVE  f[n] = after[n]
  <2> DEFINE D == {k \in Nat : k <= n => f[k] = after[k]}
  <2>1. 0 \in D
    BY <1>1, <1>9, <1>11
  <2>2. ASSUME NEW k \in Nat, k \in D
        PROVE  k + 1 \in D
    <3> SUFFICES ASSUME k + 1 <= n
                 PROVE  f[k + 1] = after[k + 1]
      OBVIOUS
    <3>1. f[k] = after[k]
      BY <2>2
    <3>2. k + 1 \in 0 .. Len(items) /\ k + 1 # 0 /\ (k + 1) - 1 = k
      BY <1>1
    <3>3. f[k + 1] = IF f[k].required > len THEN HideOne(items, sep, f[k]) ELSE f[k]
      BY <1>11, <3>2
    <3>4. after[k + 1] = IF after[k].required > len THEN HideOne(items, sep, after[k]) ELSE after[k]
      BY <1>9, <3>2
    <3> QED
      BY <3>1, <3>3, <3>4
  <2>3. Nat \subseteq D
    <3> HIDE DEF D
    <3> QED
      BY <2>1, <2>2, Induction
  <2> QED
    BY <2>3
<1>12. Is(CHOOSE f : Is(f))
  BY <1>9
<1>13. (CHOOSE f : Is(f))[n] = after[n]
  <2> HIDE DEF Is
  <2> QED
    BY <1>11, <1>12
<1> QED
  BY <1>1, <1>8, <1>10, <1>13

LEMMA AddedFrom ==
  ASSUME NEW items, IsItems(items), NEW shown, NEW unused \in Nat
  PROVE  \E left : /\ Takes(items, shown, unused, left)
                   /\ Added(items, shown, unused) = [k \in DOMAIN items |-> left[k - 1] - left[k]]
<1>1. PICK left : LeftIs(left, items, shown, unused) /\ Takes(items, shown, unused, left)
  BY LeftExists
<1>2. PICK other : /\ other = CHOOSE x : LeftIs(x, items, shown, unused)
                   /\ LeftIs(other, items, shown, unused)
  BY <1>1
<1>3. PICK n \in Nat : n = Len(items) /\ DOMAIN items = 1 .. n
  BY ItemsAre
<1> DEFINE D == {k \in Nat : k <= n => other[k] = left[k]}
<1>4. 0 \in D
  <2>1. 0 \in 0 .. Len(items)
    BY <1>3
  <2>2. left[0] = unused
    BY <1>1, <2>1 DEF LeftIs
  <2>3. other[0] = unused
    <3>1. LeftIs(other, items, shown, unused)
      BY <1>2
    <3> QED
      BY <2>1, <3>1 DEF LeftIs
  <2> QED
    BY <2>2, <2>3
<1>5. ASSUME NEW k \in Nat, k \in D
      PROVE  k + 1 \in D
  <2> SUFFICES ASSUME k + 1 <= n
               PROVE  other[k + 1] = left[k + 1]
    OBVIOUS
  <2>1. k + 1 \in 0 .. Len(items) /\ k + 1 # 0 /\ (k + 1) - 1 = k /\ other[k] = left[k]
    BY <1>3, <1>5
  <2>2. PICK j : j = k + 1
    OBVIOUS
  <2>3. left[j] = left[j - 1] - (IF Grower(items, shown, j)
                     THEN Lesser(left[j - 1], ShareOf(items, shown, unused, j)) ELSE 0)
    BY <1>1, <2>1, <2>2 DEF LeftIs
  <2>4. other[j] = other[j - 1] - (IF Grower(items, shown, j)
                     THEN Lesser(other[j - 1], ShareOf(items, shown, unused, j)) ELSE 0)
    <3>1. LeftIs(other, items, shown, unused)
      BY <1>2
    <3> QED
      BY <3>1, <2>1, <2>2 DEF LeftIs
  <2> QED
    BY <2>1, <2>2, <2>3, <2>4
<1>6. Nat \subseteq D
  <2> HIDE DEF D
  <2> QED
    BY <1>4, <1>5, Induction
<1>7. \A k \in 0 .. n : other[k] = left[k]
  BY <1>6
<1>8. Added(items, shown, unused) = [k \in DOMAIN items |-> other[k - 1] - other[k]]
  BY <1>2, AddedIs
<1>9. [k \in DOMAIN items |-> other[k - 1] - other[k]]
        = [k \in DOMAIN items |-> left[k - 1] - left[k]]
  <2>1. \A k \in DOMAIN items : other[k - 1] = left[k - 1] /\ other[k] = left[k]
    BY <1>3, <1>7
  <2> QED
    BY <2>1
<1> QED
  BY <1>1, <1>8, <1>9

\* What is required is the size of what is shown, while nothing is hidden twice;
\* only the first item may be.
Counts(items, sep, st) ==
  /\ st.nb <= Cardinality(st.shown) /\ (1 \in st.shown => st.nb = Cardinality(st.shown))
  /\ st.nb = Cardinality(st.shown) /\ st.nb > 0 =>
       st.required = SumFunctionOnSet([k \in DOMAIN items |-> items[k].min], st.shown)
                       + (st.nb - 1) * sep

LEMMA StatesAre ==
  ASSUME NEW items, IsItems(items), NEW st \in States(items)
  PROVE  /\ st.shown \in SUBSET (DOMAIN items) /\ IsFiniteSet(st.shown)
         /\ Cardinality(st.shown) \in Nat /\ st.nb \in Int /\ st.required \in Int
BY ItemsAre, FS_Subset, FS_CardinalityType DEF States

LEMMA CountsAtFirst ==
  ASSUME NEW items, IsItems(items), NEW sep \in Nat
  PROVE  Counts(items, sep, AllShown(items, sep))
<1>1. Cardinality(DOMAIN items) = Len(items) /\ Len(items) \in Nat
  <2>1. PICK n \in Nat : n = Len(items) /\ DOMAIN items = 1 .. n
    BY ItemsAre
  <2>2. Cardinality(1 .. n) = n
    BY FS_Interval
  <2> QED
    BY <2>1, <2>2
<1>2. Len(items) > 0 => items # << >>
  BY <1>1
<1>3. PICK mins : mins = [k \in DOMAIN items |-> items[k].min]
  OBVIOUS
<1>4. Len(items) > 0 =>
        MinSize(items, sep) = SumFunctionOnSet(mins, DOMAIN items) + (Len(items) - 1) * sep
  BY <1>2, <1>3, MinSizeIs
<1> QED
  BY <1>1, <1>3, <1>4 DEF Counts, AllShown

LEMMA CountsAfter ==
  ASSUME NEW items, IsItems(items), Len(items) > 0, NEW sep \in Nat, NEW st \in States(items),
         Counts(items, sep, st)
  PROVE  Counts(items, sep, HideOne(items, sep, st))
<1>1. PICK k, st2 :
        /\ k \in {1} \cup st.shown
        /\ st2 = HideOne(items, sep, st) /\ st2 \in States(items)
        /\ st2 = [shown |-> st.shown \ {k},
                  required |-> st.required - items[k].min - (IF st.nb > 1 THEN sep ELSE 0),
                  nb |-> st.nb - 1]
  BY HideOneIs
<1>2. PICK mins : mins = [j \in DOMAIN items |-> items[j].min]
  OBVIOUS
<1>3. PICK S, c, nb : S = st.shown /\ c = Cardinality(st.shown) /\ nb = st.nb
  OBVIOUS
<1>4. /\ S \in SUBSET (DOMAIN items) /\ IsFiniteSet(S) /\ c \in Nat /\ nb \in Int
      /\ st.required \in Int
  BY <1>3, StatesAre
<1>5. CASE k \notin S
  <2>1. k = 1 /\ st2.shown = S /\ st2.nb = nb - 1
    BY <1>1, <1>3, <1>5
  <2>2. nb <= c /\ 1 \notin S
    BY <1>3, <1>5, <2>1 DEF Counts
  <2>3. st2.nb < Cardinality(st2.shown) /\ st2.nb # Cardinality(st2.shown) /\ 1 \notin st2.shown
        /\ st2.nb <= Cardinality(st2.shown)
    BY <1>3, <1>4, <2>1, <2>2
  <2>4. Counts(items, sep, st2)
    BY <2>3 DEF Counts
  <2> QED
    BY <1>1, <2>4
<1>6. CASE k \in S
  <2>1. PICK R : R = S \ {k}
    OBVIOUS
  <2>2. Cardinality(R) = c - 1 /\ st2.shown = R /\ st2.nb = nb - 1 /\ (1 \in R => 1 \in S)
    <3>1. Cardinality(S \ {k}) = Cardinality(S) - 1
      BY <1>4, <1>6, FS_RemoveElement
    <3>2. st2.shown = R /\ st2.nb = nb - 1
      BY <1>1, <1>3, <2>1
    <3> QED
      BY <1>3, <2>1, <3>1, <3>2
  <2>3. /\ SumFunctionOnSet(mins, S) = mins[k] + SumFunctionOnSet(mins, R)
        /\ mins[k] = items[k].min /\ mins[k] \in Int
        /\ SumFunctionOnSet(mins, R) \in Int
    <3>1. \A j \in S : mins[j] \in Int
      BY <1>2, <1>4, ItemsAre
    <3>2. IsFiniteSet(R) /\ \A j \in R : mins[j] \in Int
      BY <1>4, <2>1, <3>1, FS_Subset
    <3>3. SumFunctionOnSet(mins, S) = mins[k] + SumFunctionOnSet(mins, S \ {k})
      BY <1>4, <1>6, <3>1, SumOne
    <3> QED
      BY <1>2, <1>4, <1>6, <2>1, <3>1, <3>2, <3>3, SumInt
  <2>4. nb <= c /\ (1 \in S => nb = c)
    BY <1>3 DEF Counts
  <2>5. ASSUME nb - 1 = c - 1, nb - 1 > 0
        PROVE  st2.required = SumFunctionOnSet(mins, R) + (nb - 1 - 1) * sep
    <3>1. st.required = SumFunctionOnSet(mins, S) + (nb - 1) * sep
      BY <1>2, <1>3, <1>4, <2>5 DEF Counts
    <3>2. st2.required = st.required - mins[k] - sep
      BY <1>1, <1>3, <1>4, <2>3, <2>5
    <3>3. (nb - 1) * sep - sep = (nb - 1 - 1) * sep /\ (nb - 1) * sep \in Int
      BY <1>4
    <3> QED
      BY <2>3, <3>1, <3>2, <3>3
  <2>6. /\ st2.nb <= Cardinality(st2.shown)
        /\ 1 \in st2.shown => st2.nb = Cardinality(st2.shown)
    BY <1>4, <2>2, <2>4
  <2>7. st2.nb = Cardinality(st2.shown) /\ st2.nb > 0 =>
          st2.required = SumFunctionOnSet(mins, st2.shown) + (st2.nb - 1) * sep
    BY <2>2, <2>5
  <2>8. Counts(items, sep, st2)
    BY <1>2, <2>6, <2>7 DEF Counts
  <2> QED
    BY <1>1, <2>8
<1> QED
  BY <1>5, <1>6

\* This holds at every turn; one that hides leaves one item less.
LEMMA CountsAlways ==
  ASSUME NEW items, IsItems(items), NEW sep \in Nat, NEW len \in Int, NEW after,
         Hides(items, sep, len, after), NEW n \in 0 .. Len(items)
  PROVE  /\ Counts(items, sep, after[n]) /\ after[n] \in States(items)
         /\ after[n].required > len => after[n].nb = Len(items) - n
<1> DEFINE P(k) == /\ Counts(items, sep, after[k])
                   /\ after[k].required > len => after[k].nb = Len(items) - k
           D == {k \in Nat : k <= Len(items) => P(k)}
<1>0. Len(items) \in Nat /\ \A k \in 0 .. Len(items) : after[k] \in States(items)
  BY ItemsAre DEF Hides
<1>1. 0 \in D
  <2>1. after[0] = AllShown(items, sep) /\ AllShown(items, sep).nb = Len(items)
    BY DEF Hides, AllShown
  <2> QED
    BY <1>0, <2>1, CountsAtFirst
<1>2. ASSUME NEW k \in Nat, k \in D
      PROVE  k + 1 \in D
  <2> SUFFICES ASSUME k + 1 <= Len(items)
               PROVE  P(k + 1)
    OBVIOUS
  <2>1. P(k) /\ k \in 0 .. Len(items) /\ Len(items) > 0
    BY <1>0, <1>2
  <2>2. PICK st, st2 : st = after[k] /\ st2 = after[k + 1]
    OBVIOUS
  <2>3. st2 = Turn(items, sep, len, st) /\ st \in States(items)
    <3>1. k + 1 \in 1 .. Len(items) /\ (k + 1) - 1 = k
      BY <1>0
    <3> QED
      BY <1>0, <2>1, <2>2, <3>1 DEF Hides
  <2>4. CASE st.required > len
    <3>1. st2 = HideOne(items, sep, st)
      BY <2>3, <2>4 DEF Turn
    <3>2. Counts(items, sep, st2)
      BY <2>1, <2>2, <2>3, <3>1, CountsAfter
    <3>3. st.nb = Len(items) - k
      BY <2>1, <2>2, <2>4
    <3>4. st2.nb = st.nb - 1
      <4>1. PICK i \in {1} \cup st.shown :
               HideOne(items, sep, st) =
                 [shown |-> st.shown \ {i},
                  required |-> st.required - items[i].min - (IF st.nb > 1 THEN sep ELSE 0),
                  nb |-> st.nb - 1]
        BY <2>1, <2>3, HideOneIs
      <4> QED
        BY <3>1, <4>1
    <3> QED
      BY <1>0, <2>2, <3>2, <3>3, <3>4
  <2>5. CASE ~(st.required > len)
    <3>1. st2 = st
      BY <2>3, <2>5 DEF Turn
    <3> QED
      BY <2>1, <2>2, <2>5, <3>1
  <2> QED
    BY <2>4, <2>5
<1>3. Nat \subseteq D
  <2> HIDE DEF D
  <2> QED
    BY <1>1, <1>2, Induction
<1> QED
  BY <1>0, <1>3

LEMMA HiddenCounts ==
  ASSUME NEW items, IsItems(items), NEW sep \in Nat, NEW len \in Int,
         NEW st, st = Hidden(items, sep, len)
  PROVE  /\ st \in States(items) /\ Counts(items, sep, st)
         /\ st.required > len => st.nb = 0
<1>1. PICK after : Hides(items, sep, len, after) /\ st = after[Len(items)]
  BY HiddenIs
<1>2. PICK n : n = Len(items) /\ n \in 0 .. Len(items) /\ Len(items) - n = 0
  BY ItemsAre
<1>3. /\ Counts(items, sep, after[n]) /\ after[n] \in States(items)
      /\ after[n].required > len => after[n].nb = Len(items) - n
  BY <1>1, <1>2, CountsAlways
<1> QED
  BY <1>1, <1>2, <1>3

\* The separators: of a line whose first item is hidden, one too many.
LEMMA SeparatorsAre ==
  ASSUME NEW S, IsFiniteSet(S), S \subseteq Nat \ {0}, NEW sep \in Nat, NEW seps,
         \A k \in S : seps[k] = IF k > 1 THEN sep ELSE 0
  PROVE  SumFunctionOnSet(seps, S) =
           (Cardinality(S) - 1) * sep + (IF 1 \in S THEN 0 ELSE sep)
<1>0. PICK c \in Nat : c = Cardinality(S)
  BY FS_CardinalityType
<1>1. CASE 1 \notin S
  <2>1. \A k \in S : seps[k] = sep
    BY <1>1
  <2>2. SumFunctionOnSet(seps, S) = c * sep
    <3>1. sep \in Int
      OBVIOUS
    <3> QED
      BY <1>0, <2>1, <3>1, SumConstant, Zenon
  <2>3. (c - 1) * sep + sep = c * sep
    BY <1>0
  <2> QED
    BY <1>0, <1>1, <2>2, <2>3
<1>2. CASE 1 \in S
  <2>1. PICK i, R : i \in S /\ i = 1 /\ R = S \ {i}
    BY <1>2
  <2>2. IsFiniteSet(R) /\ Cardinality(R) = c - 1
    BY <1>0, <2>1, FS_RemoveElement
  <2>3. \A k \in R : seps[k] = sep
    BY <2>1
  <2>4. SumFunctionOnSet(seps, R) = (c - 1) * sep
    BY <2>2, <2>3, SumConstant
  <2>5. \A k \in S : seps[k] \in Int
    OBVIOUS
  <2>6. SumFunctionOnSet(seps, R \cup {i}) = seps[i] + SumFunctionOnSet(seps, R)
    <3>1. R \in SUBSET S /\ i \in S \ R
      BY <2>1
    <3> QED
      BY <2>5, <3>1, SumAdd, Zenon
  <2>7. seps[i] = 0
    BY <2>1
  <2>8. (c - 1) * sep \in Int
    BY <1>0
  <2> QED
    <3>1. R \cup {i} = S
      BY <2>1
    <3>2. SumFunctionOnSet(seps, S) = 0 + (c - 1) * sep
      BY <2>4, <2>6, <2>7, <3>1, Zenon
    <3>3. SumFunctionOnSet(seps, S) = (c - 1) * sep + 0
      BY <2>8, <3>2
    <3> QED
      BY <1>0, <1>2, <3>3, Zenon
<1> QED
  BY <1>1, <1>2

\* What is drawn is what is required and what has been added.
LEMMA LineLength ==
  ASSUME NEW items, IsItems(items), NEW sep \in Nat, NEW len \in Int,
         NEW st, st = Hidden(items, sep, len), st.shown # {}, st.nb = Cardinality(st.shown)
  PROVE  \E left :
           /\ len - st.required \in Nat
           /\ Takes(items, st.shown, len - st.required, left)
           /\ Lengths(items, sep, len) =
                [k \in st.shown |-> items[k].min + (left[k - 1] - left[k])]
           /\ DrawnLength(Lengths(items, sep, len), sep) =
                len - left[Len(items)] + (IF 1 \in st.shown THEN 0 ELSE sep)
<1>0. /\ st \in States(items) /\ Counts(items, sep, st)
      /\ st.required > len => st.nb = 0
  BY HiddenCounts
<1>1. PICK S, c, U : S = st.shown /\ c = Cardinality(S) /\ U = DOMAIN items
  OBVIOUS
<1>2. /\ S \in SUBSET U /\ IsFiniteSet(S) /\ c \in Nat /\ st.required \in Int /\ IsFiniteSet(U)
      /\ st.nb = c
  BY <1>0, <1>1, StatesAre, ItemsAre
<1>3. c > 0
  BY <1>1, <1>2, FS_EmptySet
<1>4. PICK unused \in Nat : unused = len - st.required
  <2>1. len - st.required \in Nat
    BY <1>0, <1>2, <1>3
  <2> QED
    BY <2>1
<1>5. PICK left : /\ Takes(items, S, unused, left)
                  /\ Added(items, S, unused) = [k \in DOMAIN items |-> left[k - 1] - left[k]]
  BY <1>4, AddedFrom
<1>6. PICK added : added = [k \in U |-> left[k - 1] - left[k]]
  OBVIOUS
<1>7. PICK mins : mins = [k \in U |-> items[k].min]
  OBVIOUS
<1>8. PICK L : L = [k \in S |-> items[k].min + added[k]]
  OBVIOUS
<1>9. L = Lengths(items, sep, len)
  <2>1. Added(items, st.shown, len - st.required) = added
    BY <1>1, <1>4, <1>5, <1>6
  <2> QED
    BY <1>1, <1>8, <2>1 DEF Lengths
<1>10. \A k \in U : mins[k] \in Int /\ added[k] \in Int
  <2>1. \A k \in U : mins[k] \in Int
    BY <1>1, <1>7, ItemsAre
  <2>2. ASSUME NEW k \in U
        PROVE  added[k] \in Int
    <3>1. left[k - 1] \in Nat /\ left[k] \in Nat
      BY <1>1, <1>4, <1>5, LeftFalls
    <3> QED
      BY <1>6, <3>1
  <2> QED
    BY <2>1, <2>2
<1>11. \A k \in S : L[k] = mins[k] + added[k] /\ L[k] \in Int
  BY <1>2, <1>7, <1>8, <1>10
<1>12. SumFunctionOnSet(L, S) = SumFunctionOnSet(mins, S) + SumFunctionOnSet(added, S)
  <2>1. \A k \in S : mins[k] \in Int /\ added[k] \in Int /\ L[k] = mins[k] + added[k]
    BY <1>2, <1>10, <1>11
  <2> QED
    BY <1>2, <2>1, SumPlus
<1>13. SumFunctionOnSet(added, S) = unused - left[Len(items)]
  <2>1. \A k \in U \ S : added[k] = 0
    <3> SUFFICES ASSUME NEW k \in U \ S
                 PROVE  added[k] = 0
      OBVIOUS
    <3>1. k \in 1 .. Len(items) /\ ~Grower(items, S, k)
      BY <1>1, ItemsAre DEF Grower
    <3>2. left[k] = left[k - 1] - 0
      BY <1>5, <3>1 DEF Takes
    <3>3. left[k - 1] \in Nat
      BY <1>1, <1>4, <1>5, LeftFalls
    <3> QED
      BY <1>6, <3>2, <3>3
  <2>2. SumFunctionOnSet(added, U) = SumFunctionOnSet(added, S)
    BY <1>2, <1>10, <2>1, SumSupport
  <2>3. SumFunctionOnSet(added, U) = unused - left[Len(items)]
    BY <1>1, <1>4, <1>5, <1>6, AddedSum
  <2> QED
    BY <2>2, <2>3
<1>14. PICK seps : seps = [k \in S |-> IF k > 1 THEN sep ELSE 0]
  OBVIOUS
<1>15. PICK d : d = [k \in S |-> L[k] + (IF k > 1 THEN sep ELSE 0)]
  OBVIOUS
<1>16. S \subseteq Nat \ {0}
  BY <1>1, <1>2, ItemsAre
<1>17. DrawnLength(L, sep) = SumFunctionOnSet(d, S)
  <2>1. DOMAIN L = S /\ DOMAIN d = S
    BY <1>8, <1>15
  <2> QED
    BY <1>15, <2>1 DEF DrawnLength, SumFunction
<1>18. SumFunctionOnSet(d, S) = SumFunctionOnSet(L, S) + SumFunctionOnSet(seps, S)
  <2>1. \A k \in S : L[k] \in Int /\ seps[k] \in Int /\ d[k] = L[k] + seps[k]
    BY <1>11, <1>14, <1>15
  <2> QED
    BY <1>2, <2>1, SumPlus
<1>19. SumFunctionOnSet(seps, S) = (c - 1) * sep + (IF 1 \in S THEN 0 ELSE sep)
  <2>1. \A k \in S : seps[k] = IF k > 1 THEN sep ELSE 0
    BY <1>14
  <2> QED
    <3>1. SumFunctionOnSet(seps, S) = (Cardinality(S) - 1) * sep + (IF 1 \in S THEN 0 ELSE sep)
      BY <1>2, <1>16, <2>1, SeparatorsAre
    <3> QED
      BY <1>1, <3>1
<1>20. st.required = SumFunctionOnSet(mins, S) + (c - 1) * sep
  BY <1>0, <1>1, <1>2, <1>3, <1>7 DEF Counts
<1>21. SumFunctionOnSet(mins, S) \in Int
  <2>1. \A k \in S : mins[k] \in Int
    BY <1>2, <1>10
  <2> QED
    BY <1>2, <2>1, SumInt
<1>22. left[Len(items)] \in Nat /\ (c - 1) * sep \in Int
  <2>1. left[Len(items)] \in Nat
    BY <1>5, ItemsAre DEF Takes
  <2>2. (c - 1) * sep \in Int
    BY <1>2
  <2> QED
    BY <2>1, <2>2
<1>23. DrawnLength(L, sep) = len - left[Len(items)] + (IF 1 \in S THEN 0 ELSE sep)
  <2>1. PICK m, x, y, z : /\ m = SumFunctionOnSet(mins, S) /\ x = (c - 1) * sep
                          /\ y = IF 1 \in S THEN 0 ELSE sep
                          /\ z = left[Len(items)]
    OBVIOUS
  <2>2. m \in Int /\ x \in Int /\ y \in Int /\ z \in Nat
    BY <1>21, <1>22, <2>1
  <2>3. st.required = m + x /\ unused = len - st.required
    BY <1>4, <1>20, <2>1
  <2>4. DrawnLength(L, sep) = (m + (unused - z)) + (x + y)
    BY <1>12, <1>13, <1>17, <1>18, <1>19, <2>1
  <2>5. DrawnLength(L, sep) = len - z + y
    BY <2>2, <2>3, <2>4
  <2> QED
    BY <2>1, <2>5
<1>24. L = [k \in S |-> items[k].min + (left[k - 1] - left[k])]
  BY <1>2, <1>6, <1>8
<1> QED
  BY <1>1, <1>4, <1>5, <1>9, <1>23, <1>24

\* Of any container whose first item is shown, whatever the others: the line is
\* not longer than asked, and every item gets its min_size, which Item::draw
\* requires of its callers (Container::draw).
THEOREM LayoutFits ==
  ASSUME NEW items, IsItems(items), NEW sep \in Nat, NEW len \in Int,
         1 \in Hidden(items, sep, len).shown
  PROVE  /\ DrawnLength(Lengths(items, sep, len), sep) <= len
         /\ \A k \in DOMAIN Lengths(items, sep, len) :
              Lengths(items, sep, len)[k] >= items[k].min
<1>1. PICK st : st = Hidden(items, sep, len)
  OBVIOUS
<1>2. Counts(items, sep, st) /\ st \in States(items)
  BY <1>1, HiddenCounts
<1>3. st.shown # {} /\ st.nb = Cardinality(st.shown)
  BY <1>1, <1>2 DEF Counts
<1>4. PICK left :
           /\ len - st.required \in Nat
           /\ Takes(items, st.shown, len - st.required, left)
           /\ Lengths(items, sep, len) =
                [k \in st.shown |-> items[k].min + (left[k - 1] - left[k])]
           /\ DrawnLength(Lengths(items, sep, len), sep) =
                len - left[Len(items)] + (IF 1 \in st.shown THEN 0 ELSE sep)
  BY <1>1, <1>3, LineLength
<1>5. left[Len(items)] \in Nat
  BY <1>4, ItemsAre DEF Takes
<1>6. ASSUME NEW k \in st.shown
      PROVE  items[k].min + (left[k - 1] - left[k]) >= items[k].min
  <2>1. k \in DOMAIN items /\ items[k].min \in Nat
    BY <1>2, StatesAre, ItemsAre
  <2>2. left[k] <= left[k - 1] /\ left[k - 1] \in Nat /\ left[k] \in Nat
    BY <1>4, <2>1, LeftFalls
  <2> QED
    BY <2>1, <2>2
<1> QED
  BY <1>1, <1>4, <1>5, <1>6

\* When one or two items expand, the line is exactly as long as asked, though each
\* share is rounded on its own (Container::draw).
THEOREM LayoutFills ==
  ASSUME NEW items, IsItems(items), NEW sep \in Nat, NEW len \in Int,
         NEW shown, shown = Hidden(items, sep, len).shown, 1 \in shown,
         NEW i \in DOMAIN items, NEW j \in DOMAIN items,
         \A k \in DOMAIN items : k \in shown /\ items[k].expandable <=> k \in {i, j}
  PROVE  DrawnLength(Lengths(items, sep, len), sep) = len
<1>1. PICK st : st = Hidden(items, sep, len)
  OBVIOUS
<1>2. Counts(items, sep, st) /\ st \in States(items)
  BY <1>1, HiddenCounts
<1>3. st.shown # {} /\ st.nb = Cardinality(st.shown)
  BY <1>1, <1>2 DEF Counts
<1>4. PICK left :
           /\ len - st.required \in Nat
           /\ Takes(items, st.shown, len - st.required, left)
           /\ Lengths(items, sep, len) =
                [k \in st.shown |-> items[k].min + (left[k - 1] - left[k])]
           /\ DrawnLength(Lengths(items, sep, len), sep) =
                len - left[Len(items)] + (IF 1 \in st.shown THEN 0 ELSE sep)
  BY <1>1, <1>3, LineLength
<1>5. \A k \in DOMAIN items : Grower(items, st.shown, k) <=> k \in {i, j}
  BY <1>1 DEF Grower
<1>6. left[Len(items)] = 0
  BY <1>4, <1>5, OneOrTwoFill
<1> QED
  BY <1>1, <1>4, <1>6

----------------------------------------------------------------------------
(* The items of the console. *)

LEMMA ThreeItems ==
  ASSUME NEW a \in ItemSet, NEW b \in ItemSet, NEW c \in ItemSet,
         NEW items, items = << a, b, c >>
  PROVE  /\ IsItems(items) /\ Len(items) = 3 /\ DOMAIN items = 1 .. 3
         /\ items[1] = a /\ items[2] = b /\ items[3] = c
BY DEF IsItems

Joins(items, a, b, c, d) ==
  /\ a \in ItemSet /\ b \in ItemSet /\ c \in ItemSet /\ d \in ItemSet
  /\ items = << a >> \o << b, c, d >>

LEMMA OneAndThree ==
  ASSUME NEW items, NEW a, NEW b, NEW c, NEW d, Joins(items, a, b, c, d)
  PROVE  /\ IsItems(items) /\ Len(items) = 4 /\ DOMAIN items = 1 .. 4
         /\ items[1] = a /\ items[2] = b /\ items[3] = c /\ items[4] = d
<1>1. PICK x, y : x = << a >> /\ y = << b, c, d >>
  OBVIOUS
<1>2. x \in Seq(ItemSet) /\ Len(x) = 1 /\ x[1] = a
  BY <1>1 DEF Joins
<1>3. y \in Seq(ItemSet) /\ Len(y) = 3 /\ y[1] = b /\ y[2] = c /\ y[3] = d
  BY <1>1 DEF Joins
<1>4. items = x \o y
  BY <1>1 DEF Joins
<1>5. /\ items \in Seq(ItemSet) /\ Len(items) = 4 /\ DOMAIN items = 1 .. 4
      /\ \A k \in 1 .. 4 : items[k] = IF k <= 1 THEN x[k] ELSE y[k - 1]
  <2>1. x \o y \in Seq(ItemSet) /\ Len(x \o y) = Len(x) + Len(y)
    BY <1>2, <1>3, ConcatProperties
  <2>2. \A k \in 1 .. Len(x) + Len(y) :
          (x \o y)[k] = IF k <= Len(x) THEN x[k] ELSE y[k - Len(x)]
    BY <1>2, <1>3, ConcatProperties
  <2>3. items \in Seq(ItemSet) /\ Len(items) = 4
    BY <1>2, <1>3, <1>4, <2>1
  <2>4. DOMAIN items = 1 .. 4
    BY <2>3
  <2>5. \A k \in 1 .. 4 : items[k] = IF k <= 1 THEN x[k] ELSE y[k - 1]
    <3>1. PICK m, n : m = Len(x) /\ n = Len(x) + Len(y) /\ m = 1 /\ n = 4
      BY <1>2, <1>3
    <3>2. \A k \in 1 .. n : (x \o y)[k] = IF k <= m THEN x[k] ELSE y[k - m]
      BY <2>2, <3>1, Zenon
    <3> QED
      BY <1>4, <3>1, <3>2, Zenon
  <2> QED
    BY <2>3, <2>4, <2>5
<1> QED
  BY <1>2, <1>3, <1>5 DEF IsItems

LEMMA WithFiles ==
  ASSUME NEW files \in Nat \ {0}, NEW rate \in Nat, NEW percent \in Nat,
         NEW items, items = ProgressIndicator(files, rate, percent)
  PROVE  /\ IsItems(items) /\ Len(items) = 4 /\ DOMAIN items = 1 .. 4
         /\ items[1] = Fixed(files, 1) /\ items[2] = Fixed(rate, 2)
         /\ items[3] = Expands(2, 0, 0) /\ items[4] = Fixed(percent, 3)
<1>1. PICK a, b, c, d : /\ a = Fixed(files, 1) /\ b = Fixed(rate, 2)
                        /\ c = Expands(2, 0, 0) /\ d = Fixed(percent, 3)
  OBVIOUS
<1>2. a \in ItemSet /\ b \in ItemSet /\ c \in ItemSet /\ d \in ItemSet
  BY <1>1 DEF ItemSet, Fixed, Expands
<1>3. items = << a >> \o << b, c, d >>
  BY <1>1 DEF ProgressIndicator
<1>4. Joins(items, a, b, c, d)
  BY <1>2, <1>3 DEF Joins
<1> QED
  BY <1>1, <1>4, OneAndThree

\* The next turn hides i.
GoesNext(items, sep, len, st, i) ==
  /\ IsItems(items) /\ Len(items) > 0 /\ sep \in Nat /\ st \in States(items)
  /\ st.required > len /\ i \in {1} \cup st.shown
  /\ \A j \in {1} \cup st.shown : j # i => ~ GoesFirst(items, j, i)

LEMMA NextIsHidden ==
  ASSUME NEW items, NEW sep, NEW len, NEW st, NEW i, GoesNext(items, sep, len, st, i)
  PROVE  /\ Turn(items, sep, len, st).shown = st.shown \ {i}
         /\ Turn(items, sep, len, st).nb = st.nb - 1
<1>1. PICK k \in {1} \cup st.shown :
         /\ \A j \in {1} \cup st.shown : GoesFirst(items, k, j)
         /\ HideOne(items, sep, st) =
              [shown |-> st.shown \ {k},
               required |-> st.required - items[k].min - (IF st.nb > 1 THEN sep ELSE 0),
               nb |-> st.nb - 1]
  BY HideOneIs DEF GoesNext
<1>2. k = i
  BY <1>1 DEF GoesNext
<1>3. Turn(items, sep, len, st) = HideOne(items, sep, st)
  BY DEF Turn, GoesNext
<1> QED
  BY <1>1, <1>2, <1>3

LEMMA SumOfTwo ==
  ASSUME NEW items, IsItems(items), NEW mins, mins = [k \in DOMAIN items |-> items[k].min],
         NEW i \in DOMAIN items, NEW j \in DOMAIN items, i # j
  PROVE  SumFunctionOnSet(mins, {i, j}) = items[i].min + items[j].min
<1>1. mins[i] \in Int /\ mins[j] \in Int /\ mins[i] = items[i].min /\ mins[j] = items[j].min
  BY ItemsAre
<1> QED
  BY <1>1, SumPair

LEMMA PairCardinality ==
  ASSUME NEW i, NEW j, i # j
  PROVE  Cardinality({i, j}) = 2
<1>1. IsFiniteSet({j}) /\ Cardinality({j}) = 1 /\ i \notin {j}
  BY FS_Singleton
<1>2. Cardinality({j} \cup {i}) = Cardinality({j}) + 1
  BY <1>1, FS_AddElement
<1>3. {j} \cup {i} = {i, j}
  OBVIOUS
<1> QED
  BY <1>1, <1>2, <1>3

\* What two items require.
LEMMA TwoLeft ==
  ASSUME NEW items, IsItems(items), NEW len \in Int, NEW st \in States(items),
         Counts(items, 1, st), st.nb = 2,
         NEW i \in DOMAIN items, NEW j \in DOMAIN items, i # j, st.shown = {i, j}
  PROVE  st.required = items[i].min + items[j].min + 1
<1>1. PICK mins : mins = [k \in DOMAIN items |-> items[k].min]
  OBVIOUS
<1>2. SumFunctionOnSet(mins, {i, j}) = items[i].min + items[j].min
  BY <1>1, SumOfTwo
<1>3. st.nb = Cardinality(st.shown)
  BY PairCardinality
<1>4. st.required = SumFunctionOnSet(mins, st.shown) + (st.nb - 1) * 1
  BY <1>1, <1>3 DEF Counts
<1>5. items[i].min \in Nat /\ items[j].min \in Nat
  BY ItemsAre
<1> QED
  BY <1>2, <1>4, <1>5

\* What is never hidden: rate, percentage and their separator, and the one that
\* the number of files leaves when it is hidden (Container::draw).
HasRoom(files, rate, percent, w) ==
  /\ files \in Nat /\ rate \in Nat /\ percent \in Nat /\ w \in Int
  /\ rate + percent + (IF files > 0 THEN 2 ELSE 1) <= w

\* The bar goes first, then the number of files.
LEMMA HidesOfFour ==
  ASSUME NEW files, NEW rate, NEW percent, NEW w, HasRoom(files, rate, percent, w), files > 0,
         NEW items, items = ProgressIndicator(files, rate, percent),
         NEW st, st = Hidden(items, 1, w)
  PROVE  /\ IsItems(items) /\ Len(items) = 4 /\ DOMAIN items = 1 .. 4
         /\ \A k \in DOMAIN items : items[k].expandable <=> k = 3
         /\ items[3].min = 2
         /\ \/ st.shown = 1 .. 4
            \/ st.shown = {1, 2, 4}
            \/ st.shown = {2, 4} /\ st.nb = 2 /\ st.required = rate + percent + 1
<1>0. PICK sep \in Nat : sep = 1
  OBVIOUS
<1>13. /\ files \in Nat \ {0} /\ rate \in Nat /\ percent \in Nat /\ w \in Int
       /\ rate + percent + 1 <= w
  BY DEF HasRoom
<1>1. PICK a, b, c, d : /\ a = Fixed(files, 1) /\ b = Fixed(rate, 2)
                        /\ c = Expands(2, 0, 0) /\ d = Fixed(percent, 3)
  OBVIOUS
<1>4. /\ IsItems(items) /\ Len(items) = 4 /\ DOMAIN items = 1 .. 4
      /\ items[1] = a /\ items[2] = b /\ items[3] = c /\ items[4] = d
  BY <1>13, <1>1, WithFiles
<1>5. /\ a.priority = 1 /\ b.priority = 2 /\ c.priority = 0 /\ d.priority = 3
      /\ ~a.expandable /\ ~b.expandable /\ c.expandable /\ ~d.expandable
      /\ b.min = rate /\ d.min = percent /\ c.min = 2
  BY <1>13, <1>1 DEF Fixed, Expands
<1>6. PICK after : Hides(items, sep, w, after) /\ st = after[Len(items)]
  BY <1>13, <1>0, <1>4, HiddenIs
<1>7. PICK s0, s1, s2, s3 : s0 = after[0] /\ s1 = after[1] /\ s2 = after[2] /\ s3 = after[3]
  OBVIOUS
<1>8. /\ s0 = AllShown(items, sep) /\ s1 = Turn(items, sep, w, s0) /\ s2 = Turn(items, sep, w, s1)
      /\ s3 = Turn(items, sep, w, s2) /\ st = Turn(items, sep, w, s3)
  BY <1>13, <1>4, <1>6, <1>7 DEF Hides
<1>9. s0.shown = 1 .. 4 /\ s0.nb = 4
  BY <1>13, <1>4, <1>8 DEF AllShown
<1>10. /\ s0 \in States(items) /\ s1 \in States(items) /\ s2 \in States(items)
       /\ Counts(items, sep, s2)
  <2>1. PICK n \in 0 .. Len(items) : n = 2
    BY <1>13, <1>4
  <2>2. Counts(items, sep, after[n])
    BY <1>13, <1>4, <1>6, CountsAlways
  <2>3. after \in [0 .. 4 -> States(items)]
    BY <1>13, <1>4, <1>6 DEF Hides
  <2> QED
    BY <1>13, <1>7, <2>1, <2>2, <2>3
<1>11. CASE s0.required <= w
  <2>1. s1 = s0 /\ s2 = s0 /\ s3 = s0 /\ st = s0
    BY <1>13, <1>8, <1>10, <1>11 DEF Turn, States
  <2> QED
    BY <1>13, <1>4, <1>5, <1>9, <2>1
<1>12. CASE s0.required > w
  <2>1. s1.shown = {1, 2, 4} /\ s1.nb = 3
    <3>1. 3 \in {1} \cup s0.shown /\ \A j \in {1} \cup s0.shown : j # 3 => ~ GoesFirst(items, j, 3)
      BY <1>13, <1>4, <1>5, <1>9 DEF GoesFirst
    <3>2. GoesNext(items, sep, w, s0, 3)
      BY <1>13, <1>4, <1>10, <1>12, <3>1 DEF GoesNext
    <3>3. s1.shown = s0.shown \ {3} /\ s1.nb = s0.nb - 1
      BY <1>13, <1>8, <3>2, NextIsHidden
    <3> QED
      BY <1>13, <1>9, <3>3
  <2>2. CASE s1.required <= w
    <3>1. s2 = s1 /\ s3 = s1 /\ st = s1
      BY <1>13, <1>8, <1>10, <2>2 DEF Turn, States
    <3> QED
      BY <1>13, <1>4, <1>5, <2>1, <3>1
  <2>3. CASE s1.required > w
    <3>1. s2.shown = {2, 4} /\ s2.nb = 2
      <4>1. /\ 1 \in {1} \cup s1.shown
            /\ \A j \in {1} \cup s1.shown : j # 1 => ~ GoesFirst(items, j, 1)
        BY <1>13, <1>4, <1>5, <2>1 DEF GoesFirst
      <4>2. GoesNext(items, sep, w, s1, 1)
        BY <1>13, <1>4, <1>10, <2>3, <4>1 DEF GoesNext
      <4>3. s2.shown = s1.shown \ {1} /\ s2.nb = s1.nb - 1
        BY <1>13, <1>8, <4>2, NextIsHidden
      <4> QED
        BY <1>13, <2>1, <4>3
    <3>2. s2.required = rate + percent + 1
      BY <1>13, <1>4, <1>5, <1>10, <3>1, <1>0, TwoLeft
    <3>3. s3 = s2 /\ st = s2
      BY <1>13, <1>8, <3>2 DEF Turn
    <3> QED
      BY <1>13, <1>4, <1>5, <3>1, <3>2, <3>3
  <2> QED
    BY <1>13, <1>10, <2>2, <2>3 DEF States
<1> QED
  BY <1>13, <1>10, <1>11, <1>12 DEF States

LEMMA HidesOfThree ==
  ASSUME NEW rate, NEW percent, NEW w, HasRoom(0, rate, percent, w),
         NEW items, items = ProgressIndicator(0, rate, percent),
         NEW st, st = Hidden(items, 1, w)
  PROVE  /\ IsItems(items) /\ Len(items) = 3 /\ DOMAIN items = 1 .. 3
         /\ \A k \in DOMAIN items : items[k].expandable <=> k = 2
         /\ items[2].min = 2
         /\ st.shown = 1 .. 3 \/ st.shown = {1, 3}
<1>0. PICK sep \in Nat : sep = 1
  OBVIOUS
<1>13. rate \in Nat /\ percent \in Nat /\ w \in Int /\ rate + percent + 1 <= w
  BY DEF HasRoom
<1>1. PICK a, b, c : /\ a = Fixed(rate, 2) /\ b = Expands(2, 0, 0) /\ c = Fixed(percent, 3)
  OBVIOUS
<1>2. items = << a, b, c >>
  BY <1>13, <1>1 DEF ProgressIndicator
<1>3. a \in ItemSet /\ b \in ItemSet /\ c \in ItemSet
  BY <1>13, <1>1 DEF ItemSet, Fixed, Expands
<1>4. /\ IsItems(items) /\ Len(items) = 3 /\ DOMAIN items = 1 .. 3
      /\ items[1] = a /\ items[2] = b /\ items[3] = c
  BY <1>13, <1>2, <1>3, ThreeItems
<1>5. /\ a.priority = 2 /\ b.priority = 0 /\ c.priority = 3
      /\ ~a.expandable /\ b.expandable /\ ~c.expandable
      /\ a.min = rate /\ b.min = 2 /\ c.min = percent
  BY <1>13, <1>1 DEF Fixed, Expands
<1>6. PICK after : Hides(items, sep, w, after) /\ st = after[Len(items)]
  BY <1>13, <1>0, <1>4, HiddenIs
<1>7. PICK s0, s1, s2 : s0 = after[0] /\ s1 = after[1] /\ s2 = after[2]
  OBVIOUS
<1>8. /\ s0 = AllShown(items, sep) /\ s1 = Turn(items, sep, w, s0) /\ s2 = Turn(items, sep, w, s1)
      /\ st = Turn(items, sep, w, s2)
  <2>1. /\ after[0] = AllShown(items, sep)
        /\ \A n \in 1 .. 3 : after[n] = Turn(items, sep, w, after[n - 1])
    BY <1>13, <1>4, <1>6 DEF Hides
  <2>2. /\ after[1] = Turn(items, sep, w, after[0]) /\ after[2] = Turn(items, sep, w, after[1])
        /\ after[3] = Turn(items, sep, w, after[2])
    BY <1>13, <2>1
  <2> QED
    BY <1>13, <1>4, <1>6, <1>7, <2>1, <2>2
<1>9. s0.shown = 1 .. 3 /\ s0.nb = 3
  BY <1>13, <1>4, <1>8 DEF AllShown
<1>10. s0 \in States(items) /\ s1 \in States(items) /\ Counts(items, sep, s1)
  <2>1. PICK n \in 0 .. Len(items) : n = 1
    BY <1>13, <1>4
  <2>2. Counts(items, sep, after[n])
    BY <1>13, <1>4, <1>6, CountsAlways
  <2>3. after \in [0 .. 3 -> States(items)]
    BY <1>13, <1>4, <1>6 DEF Hides
  <2> QED
    BY <1>13, <1>7, <2>1, <2>2, <2>3
<1>11. CASE s0.required <= w
  <2>1. s1 = s0 /\ s2 = s0 /\ st = s0
    BY <1>13, <1>8, <1>10, <1>11 DEF Turn, States
  <2> QED
    BY <1>13, <1>4, <1>5, <1>9, <2>1
<1>12. CASE s0.required > w
  <2>1. s1.shown = {1, 3} /\ s1.nb = 2
    <3>1. 2 \in {1} \cup s0.shown /\ \A j \in {1} \cup s0.shown : j # 2 => ~ GoesFirst(items, j, 2)
      BY <1>13, <1>4, <1>5, <1>9 DEF GoesFirst
    <3>2. GoesNext(items, sep, w, s0, 2)
      BY <1>13, <1>4, <1>10, <1>12, <3>1 DEF GoesNext
    <3>3. s1.shown = s0.shown \ {2} /\ s1.nb = s0.nb - 1
      BY <1>13, <1>8, <3>2, NextIsHidden
    <3> QED
      BY <1>13, <1>9, <3>3
  <2>2. s1.required = rate + percent + 1
    BY <1>13, <1>4, <1>5, <1>10, <2>1, <1>0, TwoLeft
  <2>3. s2 = s1 /\ st = s1
    BY <1>13, <1>8, <2>2 DEF Turn
  <2> QED
    BY <1>13, <1>4, <1>5, <2>1, <2>3
<1> QED
  BY <1>13, <1>10, <1>11, <1>12 DEF States

BarAt(items) == Len(items) - 1

\* The line of the program: not too long, and full when it has its bar.
LineIsRight(items, w) ==
  LET L == Lengths(items, 1, w)
  IN  /\ DrawnLength(L, 1) <= w
      /\ BarAt(items) \in DOMAIN L => DrawnLength(L, 1) = w /\ L[BarAt(items)] \in Nat
                                      /\ L[BarAt(items)] >= 2

\* One item expands, the bar, and it is only shown with all the others.
Lines(items, w, b) ==
  /\ IsItems(items) /\ w \in Int /\ b \in DOMAIN items /\ b = BarAt(items) /\ items[b].min = 2
  /\ \A k \in DOMAIN items : items[k].expandable <=> k = b
  /\ 1 \in Hidden(items, 1, w).shown

LEMMA LineOfShown ==
  ASSUME NEW items, NEW w, NEW b, Lines(items, w, b)
  PROVE  LineIsRight(items, w)
<1>1. PICK sep, L, st : /\ sep \in Nat /\ sep = 1 /\ st = Hidden(items, sep, w)
                        /\ L = Lengths(items, sep, w)
  OBVIOUS
<1>2. /\ IsItems(items) /\ w \in Int /\ b \in DOMAIN items /\ items[b].min = 2
      /\ \A k \in DOMAIN items : items[k].expandable <=> k = b
      /\ 1 \in st.shown /\ b = BarAt(items)
  BY <1>1 DEF Lines
<1>3. Counts(items, sep, st) /\ st \in States(items)
  BY <1>1, <1>2, HiddenCounts
<1>4. st.shown # {} /\ st.nb = Cardinality(st.shown)
  BY <1>2, <1>3 DEF Counts
<1>5. PICK left :
           /\ w - st.required \in Nat
           /\ Takes(items, st.shown, w - st.required, left)
           /\ Lengths(items, sep, w) =
                [k \in st.shown |-> items[k].min + (left[k - 1] - left[k])]
           /\ DrawnLength(Lengths(items, sep, w), sep) =
                w - left[Len(items)] + (IF 1 \in st.shown THEN 0 ELSE sep)
  BY <1>1, <1>2, <1>4, LineLength
<1>6. left[Len(items)] \in Nat
  BY <1>2, <1>5, ItemsAre DEF Takes
<1>7. DrawnLength(L, 1) <= w
  BY <1>1, <1>2, <1>5, <1>6
<1>8. ASSUME b \in st.shown
      PROVE  DrawnLength(L, 1) = w /\ L[b] \in Nat /\ L[b] >= 2
  <2>1. PICK i, shown, unused : /\ unused \in Nat /\ i = b /\ shown = st.shown
                                /\ unused = w - st.required
    BY <1>5
  <2>2. left[Len(items)] = 0
    <3>1. \A k \in DOMAIN items : Grower(items, shown, k) <=> k \in {b, i}
      BY <1>2, <1>8, <2>1 DEF Grower
    <3>2. Takes(items, shown, unused, left) /\ i \in DOMAIN items
      BY <1>2, <1>5, <2>1
    <3> QED
      BY <1>2, <2>1, <3>1, <3>2, OneOrTwoFill
  <2>3. left[b] <= left[b - 1] /\ left[b - 1] \in Nat /\ left[b] \in Nat
    BY <1>2, <1>5, LeftFalls
  <2>4. L[b] = 2 + (left[b - 1] - left[b])
    BY <1>1, <1>2, <1>5, <1>8
  <2>5. DrawnLength(L, 1) = w
    BY <1>1, <1>2, <1>5, <2>2
  <2> QED
    BY <2>3, <2>4, <2>5
<1>9. DOMAIN L = st.shown
  BY <1>1, <1>5
<1> QED
  BY <1>1, <1>2, <1>7, <1>8, <1>9 DEF LineIsRight

\* Rate and percentage alone have a separator too many.
TwoShown(items, w, st) ==
  /\ IsItems(items) /\ w \in Int /\ st = Hidden(items, 1, w) /\ st.shown = {2, 4} /\ st.nb = 2
  /\ st.required + 1 <= w /\ Len(items) = 4 /\ ~ items[2].expandable /\ ~ items[4].expandable

LEMMA LineOfTwo ==
  ASSUME NEW items, NEW w, NEW st, TwoShown(items, w, st)
  PROVE  LineIsRight(items, w)
<1>0. /\ IsItems(items) /\ w \in Int /\ st.shown = {2, 4} /\ st.nb = 2
      /\ st.required + 1 <= w /\ Len(items) = 4 /\ ~ items[2].expandable /\ ~ items[4].expandable
  BY DEF TwoShown
<1>1. PICK sep, L : /\ sep \in Nat /\ sep = 1 /\ L = Lengths(items, sep, w)
                    /\ st = Hidden(items, sep, w)
  BY DEF TwoShown
<1>2. st.shown # {} /\ st.nb = Cardinality(st.shown) /\ 1 \notin st.shown
  <2>1. Cardinality({2, 4}) = 2
    BY PairCardinality
  <2> QED
    BY <1>0, <2>1
<1>3. PICK left :
           /\ w - st.required \in Nat
           /\ Takes(items, st.shown, w - st.required, left)
           /\ Lengths(items, sep, w) =
                [k \in st.shown |-> items[k].min + (left[k - 1] - left[k])]
           /\ DrawnLength(Lengths(items, sep, w), sep) =
                w - left[Len(items)] + (IF 1 \in st.shown THEN 0 ELSE sep)
  <2>1. IsItems(items) /\ w \in Int
    BY <1>0
  <2> QED
    BY <1>1, <1>2, <2>1, LineLength
<1>4. \A k \in 1 .. 4 : ~ Grower(items, st.shown, k)
  BY <1>0 DEF Grower
<1>5. /\ left \in [0 .. 4 -> Nat] /\ left[0] = w - st.required
      /\ \A k \in 1 .. 4 : left[k] = left[k - 1] - 0
  BY <1>0, <1>3, <1>4 DEF Takes
<1>6. left[4] = w - st.required
  <2>1. left[1] = left[0] /\ left[2] = left[1] /\ left[3] = left[2] /\ left[4] = left[3]
    BY <1>5
  <2> QED
    BY <1>5, <2>1
<1>7. DrawnLength(L, 1) = w - left[4] + 1
  BY <1>0, <1>1, <1>2, <1>3
<1>8. st.required \in Int
  BY <1>0, <1>1, HiddenCounts, StatesAre
<1>9. BarAt(items) \notin DOMAIN L
  <2>1. DOMAIN L = st.shown
    BY <1>1, <1>3
  <2> QED
    BY <1>0, <2>1 DEF BarAt
<1> QED
  BY <1>0, <1>1, <1>6, <1>7, <1>8, <1>9 DEF LineIsRight

LEMMA ProgressFits ==
  ASSUME NEW files, NEW rate, NEW percent, NEW w, HasRoom(files, rate, percent, w)
  PROVE  LineIsRight(ProgressIndicator(files, rate, percent), w)
<1>0. /\ files \in Nat /\ rate \in Nat /\ percent \in Nat /\ w \in Int
      /\ rate + percent + (IF files > 0 THEN 2 ELSE 1) <= w
  BY DEF HasRoom
<1>1. PICK items, st : items = ProgressIndicator(files, rate, percent) /\ st = Hidden(items, 1, w)
  OBVIOUS
<1> SUFFICES LineIsRight(items, w)
  BY <1>1
<1>2. CASE files > 0
  <2>1. /\ IsItems(items) /\ Len(items) = 4 /\ DOMAIN items = 1 .. 4
        /\ \A k \in DOMAIN items : items[k].expandable <=> k = 3
        /\ items[3].min = 2
        /\ \/ st.shown = 1 .. 4
           \/ st.shown = {1, 2, 4}
           \/ st.shown = {2, 4} /\ st.nb = 2 /\ st.required = rate + percent + 1
    BY <1>1, <1>2, HidesOfFour
  <2>2. CASE 1 \in st.shown
    <3>1. Lines(items, w, 3)
      BY <1>0, <1>1, <2>1, <2>2 DEF Lines, BarAt
    <3> QED
      BY <1>1, <3>1, LineOfShown
  <2>3. CASE 1 \notin st.shown
    <3>1. st.shown = {2, 4} /\ st.nb = 2 /\ st.required = rate + percent + 1
      BY <2>1, <2>3
    <3>2. st.required + 1 <= w /\ ~ items[2].expandable /\ ~ items[4].expandable
      BY <1>0, <1>2, <2>1, <3>1
    <3>3. TwoShown(items, w, st)
      BY <1>0, <1>1, <2>1, <3>1, <3>2 DEF TwoShown
    <3> QED
      BY <1>1, <3>3, LineOfTwo
  <2> QED
    BY <2>2, <2>3
<1>3. CASE ~(files > 0)
  <2>1. /\ IsItems(items) /\ Len(items) = 3 /\ DOMAIN items = 1 .. 3
        /\ \A k \in DOMAIN items : items[k].expandable <=> k = 2
        /\ items[2].min = 2
        /\ st.shown = 1 .. 3 \/ st.shown = {1, 3}
    <3>1. files = 0
      BY <1>0, <1>3
    <3> QED
      BY <1>1, <3>1, HidesOfThree
  <2>2. 1 \in st.shown
    BY <2>1
  <2>3. Lines(items, w, 2)
    BY <1>0, <1>1, <2>1, <2>2 DEF Lines, BarAt
  <2> QED
    BY <1>1, <2>3, LineOfShown
<1> QED
  BY <1>0, <1>2, <1>3

\* The bar of a payload, in the space of its minimum or more.
BarRoom(bytes, size, space) ==
  bytes \in 0 .. size /\ size \in Nat \ {0} /\ space \in Nat /\ space >= 2

LEMMA BarItems ==
  ASSUME NEW bytes, NEW size, NEW space, BarRoom(bytes, size, space),
         NEW items, items = ProgressBar(bytes, size)
  PROVE  /\ IsItems(items) /\ Len(items) = 4 /\ DOMAIN items = 1 .. 4
         /\ items[1].min = 1 /\ items[2].min = 0 /\ items[3].min = 0 /\ items[4].min = 1
         /\ items[2].weight = bytes /\ items[3].weight = size - bytes
         /\ \A k \in DOMAIN items : items[k].expandable <=> k \in {2, 3}
<1>1. PICK a, b, c, d : /\ a = Fixed(1, 0) /\ b = Expands(0, 0, bytes)
                        /\ c = Expands(0, 0, size - bytes) /\ d = Fixed(1, 0)
  OBVIOUS
<1>2. size - bytes \in Nat /\ bytes \in Nat
  BY DEF BarRoom
<1>3. a \in ItemSet /\ b \in ItemSet /\ c \in ItemSet /\ d \in ItemSet
  BY <1>1, <1>2 DEF ItemSet, Fixed, Expands
<1>4. items = << a, b, c, d >>
  BY <1>1 DEF ProgressBar
<1>5. /\ IsItems(items) /\ Len(items) = 4 /\ DOMAIN items = 1 .. 4
      /\ items[1] = a /\ items[2] = b /\ items[3] = c /\ items[4] = d
  BY <1>3, <1>4 DEF IsItems
<1>6. /\ a.min = 1 /\ b.min = 0 /\ c.min = 0 /\ d.min = 1
      /\ ~a.expandable /\ b.expandable /\ c.expandable /\ ~d.expandable
      /\ b.weight = bytes /\ c.weight = size - bytes
  BY <1>1 DEF Fixed, Expands
<1>7. \A k \in 1 .. 4 : items[k].expandable <=> k \in {2, 3}
  BY <1>5, <1>6
<1> QED
  BY <1>5, <1>6, <1>7

\* Nothing of the bar is hidden.
LEMMA BarIsShown ==
  ASSUME NEW bytes, NEW size, NEW space, BarRoom(bytes, size, space),
         NEW items, items = ProgressBar(bytes, size)
  PROVE  Hidden(items, 0, space) = [shown |-> 1 .. 4, required |-> 2, nb |-> 4]
<1>0. space \in Int /\ space >= 2
  BY DEF BarRoom
<1>1. /\ IsItems(items) /\ Len(items) = 4 /\ DOMAIN items = 1 .. 4
      /\ items[1].min = 1 /\ items[2].min = 0 /\ items[3].min = 0 /\ items[4].min = 1
  BY BarItems
<1>2. PICK sep, mins, U, V : /\ sep \in Nat /\ sep = 0
                             /\ mins = [k \in DOMAIN items |-> items[k].min]
                             /\ U = 1 .. 4 /\ V = {1, 4}
  OBVIOUS
<1>3. SumFunctionOnSet(mins, DOMAIN items) = 2
  <2>1. SumFunctionOnSet(mins, V) = 2
    <3>1. SumFunctionOnSet(mins, {1, 4}) = items[1].min + items[4].min
      BY <1>1, <1>2, SumOfTwo
    <3> QED
      BY <1>1, <1>2, <3>1
  <2>2. /\ IsFiniteSet(U) /\ V \in SUBSET U /\ \A k \in U : mins[k] \in Int
        /\ \A k \in U \ V : mins[k] = 0
    <3>1. IsFiniteSet(U)
      BY <1>1, <1>2, ItemsAre
    <3>2. mins[1] = 1 /\ mins[2] = 0 /\ mins[3] = 0 /\ mins[4] = 1
      BY <1>1, <1>2
    <3> QED
      BY <1>2, <3>1, <3>2
  <2>3. SumFunctionOnSet(mins, U) = SumFunctionOnSet(mins, V)
    BY <2>2, SumSupport
  <2> QED
    BY <1>1, <1>2, <2>1, <2>3
<1>4. MinSize(items, sep) = 2
  <2>1. MinSize(items, sep) = SumFunctionOnSet(mins, DOMAIN items)
                                   + (IF items = << >> THEN 0 ELSE (Len(items) - 1) * sep)
    BY <1>1, <1>2, MinSizeIs
  <2> QED
    BY <1>1, <1>2, <1>3, <2>1
<1>5. PICK all : all = [shown |-> 1 .. 4, required |-> 2, nb |-> 4]
  OBVIOUS
<1>6. AllShown(items, sep) = all
  BY <1>1, <1>4, <1>5 DEF AllShown
<1>7. PICK after : Hides(items, sep, space, after) /\ Hidden(items, sep, space) = after[Len(items)]
  BY <1>0, <1>1, <1>2, HiddenIs
<1>8. /\ after[0] = all
      /\ \A n \in 1 .. 4 : after[n] = Turn(items, sep, space, after[n - 1])
  BY <1>1, <1>6, <1>7 DEF Hides
<1>9. after[4] = all
  <2>1. Turn(items, sep, space, all) = all
    BY <1>0, <1>5 DEF Turn
  <2>2. /\ after[1] = Turn(items, sep, space, after[0])
        /\ after[2] = Turn(items, sep, space, after[1])
        /\ after[3] = Turn(items, sep, space, after[2])
        /\ after[4] = Turn(items, sep, space, after[3])
    BY <1>8
  <2> QED
    BY <1>8, <2>1, <2>2
<1> QED
  BY <1>1, <1>2, <1>5, <1>7, <1>9

\* The bar fills its space, and is full or empty when it should be.
LEMMA BarFits ==
  ASSUME NEW bytes, NEW size, NEW space, BarRoom(bytes, size, space),
         NEW L, L = Lengths(ProgressBar(bytes, size), 0, space)
  PROVE  /\ 2 + L[2] + L[3] = space
         /\ bytes = size => L[3] = 0
         /\ bytes = 0 => L[2] = 0
<1>1. PICK sep, items, shown, unused, st :
        /\ sep \in Nat /\ sep = 0 /\ items = ProgressBar(bytes, size) /\ shown = 1 .. 4
        /\ unused = space - 2 /\ st = Hidden(items, sep, space)
  OBVIOUS
<1>2. /\ unused \in Nat /\ space \in Int /\ bytes \in Nat /\ size \in Nat \ {0} /\ bytes <= size
  BY <1>1 DEF BarRoom
<1>3. /\ IsItems(items) /\ Len(items) = 4 /\ DOMAIN items = 1 .. 4
      /\ items[2].min = 0 /\ items[3].min = 0
      /\ items[2].weight = bytes /\ items[3].weight = size - bytes
      /\ \A k \in DOMAIN items : items[k].expandable <=> k \in {2, 3}
  BY <1>1, BarItems
<1>4. st = [shown |-> 1 .. 4, required |-> 2, nb |-> 4]
  BY <1>1, BarIsShown
<1>5. PICK left : /\ Takes(items, shown, unused, left)
                  /\ Added(items, shown, unused) = [k \in DOMAIN items |-> left[k - 1] - left[k]]
  BY <1>2, <1>3, AddedFrom
<1>6. L = [k \in 1 .. 4 |-> items[k].min + (left[k - 1] - left[k])]
  BY <1>1, <1>3, <1>4, <1>5 DEF Lengths
<1>7. \A k \in DOMAIN items : Grower(items, shown, k) <=> k \in {2, 3}
  BY <1>1, <1>3 DEF Grower
<1>8. left[4] = 0
  <2>1. PICK i, j : i = 2 /\ j = 3
    OBVIOUS
  <2>2. i \in DOMAIN items /\ j \in DOMAIN items
        /\ \A k \in DOMAIN items : Grower(items, shown, k) <=> k \in {i, j}
    BY <1>3, <1>7, <2>1
  <2>3. left[Len(items)] = 0
    BY <1>2, <1>3, <1>5, <2>2, OneOrTwoFill
  <2> QED
    BY <1>3, <2>3
<1>9. /\ left \in [0 .. 4 -> Nat] /\ left[0] = unused
      /\ \A k \in 1 .. 4 : left[k] = left[k - 1] - (IF Grower(items, shown, k)
                             THEN Lesser(left[k - 1], ShareOf(items, shown, unused, k)) ELSE 0)
  BY <1>3, <1>5 DEF Takes
<1>10. left[1] = unused /\ left[3] = 0
  <2>1. ~ Grower(items, shown, 1) /\ ~ Grower(items, shown, 4)
    BY <1>3, <1>7
  <2>2. left[1] = left[0] - 0 /\ left[4] = left[3] - 0
    BY <1>9, <2>1
  <2>3. left[3] \in Nat
    BY <1>9
  <2> QED
    BY <1>2, <1>8, <1>9, <2>2, <2>3
<1>11. L[2] = left[1] - left[2] /\ L[3] = left[2] - left[3] /\ left[2] \in Nat
  <2>1. L[2] = items[2].min + (left[1] - left[2]) /\ L[3] = items[3].min + (left[2] - left[3])
    BY <1>6
  <2>2. left[1] \in Nat /\ left[2] \in Nat /\ left[3] \in Nat
    BY <1>9
  <2> QED
    BY <1>3, <2>1, <2>2
<1>12. 2 + L[2] + L[3] = space
  BY <1>1, <1>2, <1>10, <1>11
\* An item of weight 0 takes nothing.
<1>13. ASSUME NEW k \in {2, 3}, items[k].weight = 0
       PROVE  left[k] = left[k - 1]
  <2>1. TotalWeight(items, shown) = items[2].weight + items[3].weight
    <3>1. PICK f, U, V : /\ f = [j \in DOMAIN items |->
                                  IF Grower(items, shown, j) THEN items[j].weight ELSE 0]
                         /\ U = 1 .. 4 /\ V = {2, 3}
      OBVIOUS
    <3>2. /\ DOMAIN f = U /\ IsFiniteSet(U) /\ V \in SUBSET U
          /\ f[2] = items[2].weight /\ f[3] = items[3].weight
          /\ \A j \in U : f[j] \in Int /\ (j \notin V => f[j] = 0)
      BY <1>3, <1>7, <3>1, ItemsAre
    <3>3. SumFunctionOnSet(f, U) = SumFunctionOnSet(f, V)
      <4>1. \A j \in U : f[j] \in Int
        BY <3>2
      <4>2. \A j \in U \ V : f[j] = 0
        BY <3>2
      <4> QED
        BY <3>2, <4>1, <4>2, SumSupport
    <3>4. SumFunctionOnSet(f, {2, 3}) = f[2] + f[3]
      BY <3>1, <3>2, SumPair
    <3>5. TotalWeight(items, shown) = SumFunctionOnSet(f, U)
      BY <3>1, <3>2 DEF TotalWeight, SumFunction
    <3> QED
      BY <3>1, <3>2, <3>3, <3>4, <3>5
  <2>2. TotalWeight(items, shown) = size
    BY <1>2, <1>3, <2>1
  <2>3. ShareOf(items, shown, unused, k) = Round(0 * size, size)
    <3>1. unused * items[k].weight = 0 /\ 0 * size = 0
      BY <1>2, <1>13
    <3> QED
      BY <1>2, <2>2, <3>1 DEF ShareOf
  <2>4. Round(0 * size, size) = 0
    <3>1. PICK u \in Nat : u = 0
      OBVIOUS
    <3>2. Round(u * size, size) = u
      BY <1>2, RoundExact
    <3> QED
      BY <3>1, <3>2
  <2>5. Grower(items, shown, k)
    BY <1>3, <1>7
  <2>6. left[k - 1] \in Nat /\ left[k] = left[k - 1] - Lesser(left[k - 1], 0)
    <3>1. k \in 1 .. 4 /\ k - 1 \in 0 .. 4
      OBVIOUS
    <3> QED
      BY <1>9, <2>3, <2>4, <2>5, <3>1
  <2> QED
    BY <2>6 DEF Lesser
<1>14. bytes = size => L[3] = 0
  <2>1. bytes = size => items[3].weight = 0
    BY <1>2, <1>3
  <2>2. items[3].weight = 0 => left[3] = left[2]
    BY <1>13
  <2> QED
    BY <1>11, <2>1, <2>2
<1>15. bytes = 0 => L[2] = 0
  <2>1. bytes = 0 => items[2].weight = 0
    BY <1>3
  <2>2. items[2].weight = 0 => left[2] = left[1]
    BY <1>13
  <2>3. left[1] \in Nat
    BY <1>9
  <2> QED
    BY <1>11, <2>1, <2>2, <2>3
<1> QED
  BY <1>12, <1>14, <1>15

----------------------------------------------------------------------------
(* The lines that are drawn. *)

\* Every terminal has room for the rate and the percentage.
LinesHaveRoom == \A w \in Widths, f \in FileWidths : HasRoom(f, RateWidth, PercentWidth, w)

\* What is drawn is a line of our transfer, whose bytes are those of its payload.
DrawnInv ==
  /\ done \in 0 .. Size
  /\ \/ drawn = [width |-> 0, shown |-> 0, done |-> 0, space |-> 0, bar |-> << >>]
     \/ \E w \in Widths, f \in FileWidths, bytes \in 0 .. Size : drawn = Line(w, f, bytes)

LEMMA InitDrawn == Init => DrawnInv
BY ConsoleAssumption DEF Init, DrawnInv

LEMMA NextDrawn == DrawnInv /\ [Next]_vars => DrawnInv'
<1> SUFFICES ASSUME DrawnInv, [Next]_vars PROVE DrawnInv'
  OBVIOUS
<1> USE DEF DrawnInv, display
<1>1. CASE UNCHANGED <<done, drawn>>
  BY <1>1
<1>2. ASSUME NEW t \in Transfers, Progresses(t)
      PROVE  DrawnInv'
  <2>1. done' \in 0 .. Size
    BY <1>2, ConsoleAssumption DEF Progresses
  <2>2. CASE Draws(done')
    BY <2>1, <2>2 DEF Draws
  <2>3. CASE UNCHANGED display
    BY <2>1, <2>3
  <2> QED
    BY <1>2, <2>2, <2>3 DEF Progresses
<1>3. ASSUME NEW t \in Transfers, Completes(t)
      PROVE  DrawnInv'
  BY <1>3, ConsoleAssumption DEF Completes
<1>4. ASSUME NEW t \in Transfers, Fails(t)
      PROVE  DrawnInv'
  BY <1>4 DEF Fails
<1>5. CASE CommandLine \/ DeletePosted \/ Select \/ SelectNothing \/ EndTurn
  BY <1>1, <1>5 DEF CommandLine, DeletePosted, Select, SelectWith, SelectNothing, Selects, EndTurn
<1>6. CASE EndBrowsing("Timeout") \/ EndBrowsing("Browser") \/ StartUpload \/ StartDownload
  BY <1>1, <1>6 DEF EndBrowsing, StartUpload, StartDownload, NoTransfer
<1>7. CASE (\E p \in Peers : PeerDiscovered(p)) \/ (\E s \in Services : ServiceFails(s))
  BY <1>1, <1>7 DEF PeerDiscovered, ServiceFails, NoTransfer
<1>8. CASE LookupAnswered \/ Registered \/ NewConnection \/ UploadAnswered
  BY <1>1, <1>8 DEF LookupAnswered, Registered, NewConnection, UploadAnswered, NoTransfer
<1>9. CASE \E c \in Conns : NewDownload(c) \/ OtherDownload(c) \/ OtherFails(c)
  BY <1>1, <1>9 DEF NewDownload, OtherDownload, OtherFails
<1>10. CASE UNCHANGED vars
  BY <1>1, <1>10 DEF vars
<1> QED
  BY <1>2, <1>3, <1>4, <1>5, <1>6, <1>7, <1>8, <1>9, <1>10 DEF Next, Handler

\* A line that is drawn fits, and so does its bar.
LEMMA LinesFit ==
  ASSUME LinesHaveRoom, NEW w \in Widths, NEW f \in FileWidths, NEW bytes \in 0 .. Size,
         NEW l, l = Line(w, f, bytes)
  PROVE  /\ l.shown <= l.width
         /\ l.bar # << >> =>
              /\ l.shown = l.width
              /\ 2 + l.bar[2] + l.bar[3] = l.space
              /\ l.done = Size => l.bar[3] = 0
              /\ l.done = 0 => l.bar[2] = 0
<1>1. PICK items, L, space :
        /\ items = ProgressIndicator(f, RateWidth, PercentWidth)
        /\ L = Lengths(items, 1, w) /\ space = Space(w, f)
  OBVIOUS
<1>2. HasRoom(f, RateWidth, PercentWidth, w)
  BY DEF LinesHaveRoom
<1>3. LineIsRight(items, w)
  BY <1>1, <1>2, ProgressFits
<1>4. Layouts[w][f] = L
  BY <1>1 DEF Layouts
<1>5. BarPlace(f) = BarAt(items)
  BY <1>1 DEF BarPlace, BarAt
<1>6. space = IF BarAt(items) \in DOMAIN L THEN L[BarAt(items)] ELSE 0
  BY <1>1, <1>4, <1>5 DEF Space
<1>7. /\ DrawnLength(L, 1) <= w
      /\ BarAt(items) \in DOMAIN L => DrawnLength(L, 1) = w /\ L[BarAt(items)] \in Nat
                                      /\ L[BarAt(items)] >= 2
  BY <1>1, <1>3 DEF LineIsRight
<1>8. space # 0 => DrawnLength(L, 1) = w /\ space \in Nat /\ space >= 2
  BY <1>6, <1>7
<1>9. PICK bar : bar = IF space = 0 THEN << >> ELSE Lengths(ProgressBar(bytes, Size), 0, space)
  OBVIOUS
<1>10. Bars[space][bytes] = bar
  BY <1>1, <1>9 DEF Bars
<1>11. l = [width |-> w, shown |-> DrawnLength(L, 1), done |-> bytes, space |-> space, bar |-> bar]
  BY <1>1, <1>4, <1>10 DEF Line
<1>12. CASE space = 0
  <2>1. bar = << >>
    BY <1>9, <1>12
  <2> QED
    BY <1>7, <1>11, <2>1
<1>13. CASE space # 0
  <2>1. BarRoom(bytes, Size, space)
    BY <1>8, <1>13, ConsoleAssumption DEF BarRoom
  <2>2. bar = Lengths(ProgressBar(bytes, Size), 0, space)
    BY <1>9, <1>13
  <2>3. /\ 2 + bar[2] + bar[3] = space
        /\ bytes = Size => bar[3] = 0
        /\ bytes = 0 => bar[2] = 0
    BY <2>1, <2>2, BarFits
  <2> QED
    BY <1>7, <1>8, <1>11, <1>13, <2>3
<1> QED
  BY <1>12, <1>13

\* For any size of payload, and any terminal with room for the rate and the
\* percentage: the progress line fits it, and fills it when the bar is shown;
\* the bar fills its own space, and is full at the end of the transfer
\* and empty before it (draw_progress_indicator, Container::draw).
THEOREM ProgressLine ==
  ASSUME LinesHaveRoom
  PROVE  Spec => []LineFits
<1>1. DrawnInv => LineFits
  <2> SUFFICES ASSUME DrawnInv
               PROVE  LineFits
    OBVIOUS
  <2>1. CASE drawn = [width |-> 0, shown |-> 0, done |-> 0, space |-> 0, bar |-> << >>]
    BY <2>1 DEF LineFits
  <2>2. CASE \E w \in Widths, f \in FileWidths, bytes \in 0 .. Size : drawn = Line(w, f, bytes)
    <3>1. PICK w \in Widths, f \in FileWidths, bytes \in 0 .. Size : drawn = Line(w, f, bytes)
      BY <2>2
    <3>2. PICK l : l = drawn
      OBVIOUS
    <3> QED
      BY <3>1, <3>2, LinesFit DEF LineFits
  <2> QED
    BY <2>1, <2>2 DEF DrawnInv
<1> QED
  BY <1>1, InitDrawn, NextDrawn, PTL DEF Spec
=============================================================================
