------------------------------- MODULE Console -------------------------------
(***************************************************************************)
(* The console programs (cli_main.cpp, cli_transfer.h, cli_misc.h): list   *)
(* the peers, send to a peer found by its username, or receive one         *)
(* download, then leave with a status.                                     *)
(*                                                                         *)
(* A turn of the event loop handles the deferred deletions that wait for   *)
(* it, takes what is ready, and calls the handler of each; then the loop   *)
(* ends if exit () has been called, with the value of the last call.       *)
(*   Start     before app.exec ()                                          *)
(*   Posted    a turn begins                                               *)
(*   Select    its deletions are done                                      *)
(*   Dispatch  handlers of ready are still to be called                    *)
(*   Left      the program has returned code                               *)
(*   Crashed   service_record has been used after its deletion             *)
(* The steps of the transfers are those of Transfer, each at any time it   *)
(* may come; the services are those of Discovery.                          *)
(***************************************************************************)
EXTENDS Indicator, FiniteSets

CONSTANTS
  Peers,       \* services a browser may find
  Conns,       \* connections to our server
  Up,          \* the Upload
  Null,
  Size,        \* bytes of a payload
  Widths,      \* widths the terminal may have
  FileWidths,  \* min_size of file_progress; 0 with one file
  RateWidth, PercentWidth,
  MaxReady     \* bound: sources ready in one turn

Services == {"Browser", "Record", "Server"}
Transfers == Conns \cup {Up}

ASSUME ConsoleAssumption ==
  /\ Up \notin Conns /\ Null \notin Transfers \cup {0, 1}
  /\ Peers \cap Transfers = {}
  /\ (Peers \cup Transfers) \cap (Services \cup {"Start", "Timeout", "Lookup"}) = {}
  /\ Size \in Nat \ {0} /\ MaxReady \in Nat \ {0}

Final == {"Error", "Completed", "Rejected"}

VARIABLES
  options,   \* the command line
  pc,
  code,      \* the status given to the last exit ()
  started,   \* start () has been called
  ready,     \* what select () returned and has not been handled
  alive,     \* services
  failed,    \* services with an error, told when they are deleted
  posted,    \* objects in deleteLater
  found,     \* Upload::peer_found
  lookups,   \* pending QHostInfo::lookupHost
  status,    \* of each transfer
  chosen,    \* Download::download
  done,      \* bytes transferred by our transfer
  line,      \* what the last output left on the line of the terminal
  drawn      \* the last progress line

vars == <<options, pc, code, started, ready, alive, failed, posted, found, lookups,
          status, chosen, done, line, drawn>>

discovery == <<alive, failed, posted, found, lookups>>
display == <<line, drawn>>

Modes == {"List", "Upload", "Download"}
Mode(m) == options.modes = {m}
Ours == IF Mode("Upload") THEN Up ELSE chosen

----------------------------------------------------------------------------
(* Output and exit. *)

\* insert_newline_if_needed, called by every print but that of the progress.
Prints == line' = "Clean"

\* Mutant: the first call decides.
ExitsWithFirst(c) == Prints /\ code' = IF code = Null THEN c ELSE code

\* print, then exit (): the last call decides.
ExitsWith(c) == Prints /\ code' = c

\* draw_progress_indicator, for a terminal of that width: the line, and the bar
\* in the space it has.
Layouts ==
  [w \in Widths |-> [f \in FileWidths |->
     Lengths(ProgressIndicator(f, RateWidth, PercentWidth), 1, w)]]

BarPlace(f) == Len(ProgressIndicator(f, RateWidth, PercentWidth)) - 1

Space(w, f) ==
  IF BarPlace(f) \in DOMAIN Layouts[w][f] THEN Layouts[w][f][BarPlace(f)] ELSE 0

Bars ==
  [space \in {Space(w, f) : w \in Widths, f \in FileWidths} |-> [bytes \in 0 .. Size |->
     IF space = 0 THEN << >> ELSE Lengths(ProgressBar(bytes, Size), 0, space)]]

Line(w, f, bytes) ==
  [width |-> w, shown |-> DrawnLength(Layouts[w][f], 1), done |-> bytes,
   space |-> Space(w, f), bar |-> Bars[Space(w, f)][bytes]]

Draws(bytes) ==
  /\ line' = "Progress"
  /\ \E w \in Widths, f \in FileWidths : drawn' = Line(w, f, bytes)

\* start () of cli_main.cpp: the options.
CommandLine ==
  LET refused == \/ Cardinality(options.modes) # 1
                 \/ Mode("Upload") /\ ~options.peer
                 \/ Mode("Download") /\ options.quiet /\ ~options.yes
  IN  /\ pc = "Start"
      /\ IF refused THEN /\ pc' = "Left" /\ code' = 1
                         /\ UNCHANGED alive
         ELSE /\ pc' = "Posted"
              /\ alive' = IF Mode("List") THEN {"Browser"} ELSE {}
              /\ UNCHANGED code
      /\ UNCHANGED <<options, started, ready, failed, posted, found, lookups, status,
                     chosen, done, display>>

----------------------------------------------------------------------------
(* The event loop. *)

\* browser_end, service_record_end: an error is printed; the deletion of the
\* server deletes the downloads it has not given away.
DeletePosted ==
  /\ pc = "Posted"
  /\ LET errors == posted \cap failed \cap {IF Mode("Upload") THEN "Browser" ELSE "Record"}
         orphans == IF "Server" \in posted THEN {c \in Conns : status[c] = "WaitingForOffer"}
                                           ELSE {}
     IN  /\ alive' = alive \ posted
         /\ IF errors # {} THEN ExitsWith(1) ELSE UNCHANGED <<line, code>>
         /\ status' = [t \in Transfers |-> IF t \in orphans \cup posted THEN "Gone" ELSE status[t]]
  /\ posted' = {} /\ pc' = "Select"
  /\ UNCHANGED <<options, started, ready, failed, found, lookups, chosen, done, drawn>>

Sources ==
  (IF started \/ Mode("List") THEN {} ELSE {"Start"})
    \cup (IF Mode("List") THEN {"Timeout"} ELSE {})
    \cup (IF "Browser" \in alive THEN {"Browser"} \cup Peers ELSE {})
    \cup (alive \ {"Browser"})
    \cup (IF lookups > 0 THEN {"Lookup"} ELSE {})
    \cup {t \in Transfers : status[t] \notin {"None", "Init", "Gone"}}

Selects(r) ==
  /\ pc = "Select"
  /\ ready' = r /\ pc' = "Dispatch"
  /\ UNCHANGED <<options, code, started, discovery, status, chosen, done, display>>

SelectWith(sources) ==
  \E r \in SUBSET Sources :
    /\ r \cap sources # {} /\ Cardinality(r) <= MaxReady
    /\ Selects(r)

Select == SelectWith(Sources)

\* exit () has been called while objects were deleted: the turn does not wait.
SelectNothing == code # Null /\ Selects({})

EndTurn ==
  /\ pc = "Dispatch" /\ ready = {}
  /\ pc' = IF code = Null THEN "Posted" ELSE "Left"
  /\ UNCHANGED <<options, code, started, ready, discovery, status, chosen, done, display>>

Handles(source) ==
  /\ pc = "Dispatch" /\ source \in ready
  /\ ready' = ready \ {source}
  /\ UNCHANGED options

\* Handlers that are not about discovery, or not about transfers.
NoDiscovery == UNCHANGED <<pc, started, discovery>>
NoTransfer == UNCHANGED <<pc, started, status, chosen, done, drawn>>

----------------------------------------------------------------------------
(* List. *)

\* Mutant: the timer does not end the program.
EndBrowsingByBatch(source) ==
  /\ Mode("List") /\ source \in {"Timeout", "Browser"} /\ Handles(source)
  /\ code' = IF source = "Browser" THEN 0 ELSE code
  /\ NoTransfer /\ UNCHANGED <<discovery, line>>

\* end_browsing, by the timer or at the end of a batch.
EndBrowsing(source) ==
  /\ Mode("List") /\ source \in {"Timeout", "Browser"} /\ Handles(source)
  /\ code' = 0
  /\ NoTransfer /\ UNCHANGED <<discovery, line>>

----------------------------------------------------------------------------
(* Upload. *)

StartUpload ==
  /\ Mode("Upload") /\ Handles("Start")
  /\ started' = TRUE
  /\ \/ /\ status' = [status EXCEPT ![Up] = "Error"] /\ ExitsWith(1)
        /\ UNCHANGED alive
     \/ /\ alive' = {"Browser"} /\ Prints
        /\ UNCHANGED <<status, code>>
  /\ UNCHANGED <<pc, failed, posted, found, lookups, chosen, done, drawn>>

\* Mutant: peer_found is not looked at.
PeerDiscoveredAgain(p) ==
  /\ Handles(p)
  /\ IF Mode("Upload") THEN /\ found' = TRUE /\ lookups' = lookups + 1
                            /\ posted' = posted \cup {"Browser"}
                       ELSE UNCHANGED <<found, lookups, posted>>
  /\ Prints
  /\ NoTransfer /\ UNCHANGED <<alive, failed, code>>

\* peer_discovered, or new_peer of the list.
PeerDiscovered(p) ==
  /\ Handles(p)
  /\ \/ /\ Mode("Upload") /\ ~found
        /\ found' = TRUE /\ lookups' = lookups + 1
        /\ posted' = posted \cup {"Browser"}
        /\ Prints
     \/ UNCHANGED <<found, lookups, posted, line>>
     \/ /\ Mode("List") /\ Prints
        /\ UNCHANGED <<found, lookups, posted>>
  /\ NoTransfer /\ UNCHANGED <<alive, failed, code>>

\* DnsSocket::failure.
ServiceFails(s) ==
  /\ s \in {"Browser", "Record"} /\ Handles(s)
  /\ failed' = failed \cup {s} /\ posted' = posted \cup {s}
  /\ NoTransfer /\ UNCHANGED <<alive, found, lookups, code, line>>

\* peer_address_found.  connectToHost may fail at once: the error is told
\* before connect () sets the status.
LookupAnswered ==
  /\ Handles("Lookup")
  /\ lookups' = lookups - 1
  /\ \/ ExitsWith(1) /\ UNCHANGED status
     \/ /\ status' = [status EXCEPT ![Up] = "Starting"]
        /\ Prints /\ code' \in {code, 1}
  /\ UNCHANGED <<pc, started, alive, failed, posted, found, chosen, done, drawn>>

----------------------------------------------------------------------------
(* Download. *)

StartDownload ==
  /\ Mode("Download") /\ Handles("Start")
  /\ started' = TRUE /\ alive' = {"Server", "Record"}
  /\ UNCHANGED <<pc, failed, posted, found, lookups, code, status, chosen, done, display>>

\* The record has our name.
Registered ==
  /\ Handles("Record") /\ Prints
  /\ NoTransfer /\ UNCHANGED <<discovery, code>>

\* All the connections that wait; there may be none left.
NewConnection ==
  /\ Handles("Server")
  /\ \E new \in SUBSET {c \in Conns : status[c] = "None"} :
       status' = [t \in Transfers |-> IF t \in new THEN "WaitingForOffer" ELSE status[t]]
  /\ NoDiscovery /\ UNCHANGED <<code, chosen, done, display>>

\* The answer of give_user_choice, and status_changed_helper.
Answers(c) ==
  \/ /\ status' = [status EXCEPT ![c] = "Transfering"]
     /\ Prints /\ UNCHANGED code
  \/ /\ status' = [status EXCEPT ![c] = "Error"] /\ ExitsWith(1)
  \/ /\ ~options.yes
     /\ status' = [status EXCEPT ![c] = "Rejected"] /\ ExitsWith(1)

\* Mutant: the server stays, and downloads are received one by one.
NewDownloadAgain(c) ==
  /\ status[c] = "WaitingForOffer" /\ Handles(c)
  /\ chosen' = c
  /\ Answers(c)
  /\ IF "Record" \in alive THEN posted' = posted \cup {"Record"} /\ UNCHANGED pc
                           ELSE pc' = "Crashed" /\ UNCHANGED posted
  /\ UNCHANGED <<started, alive, failed, found, lookups, done, drawn>>

\* new_download with a download that is selected: prompt and answer, in one
\* handler; then the services are deleted, through pointers that are still set
\* when a failed record has been deleted.
NewDownload(c) ==
  /\ status[c] = "WaitingForOffer" /\ Handles(c)
  /\ chosen = Null
  /\ chosen' = c
  /\ Answers(c)
  /\ IF "Record" \in alive THEN posted' = posted \cup {"Record", "Server"} /\ UNCHANGED pc
                           ELSE pc' = "Crashed" /\ UNCHANGED posted
  /\ UNCHANGED <<started, alive, failed, found, lookups, done, drawn>>

\* Another download, or one that the filter excludes: rejected and deleted.
OtherDownload(c) ==
  /\ status[c] = "WaitingForOffer" /\ Handles(c)
  /\ chosen # Null \/ options.peer
  /\ status' = [status EXCEPT ![c] = "Rejected"]
  /\ posted' = posted \cup {c}
  /\ UNCHANGED <<pc, code, started, alive, failed, found, lookups, chosen, done, display>>

\* download_failed of the server, other_download_failed.
OtherFails(c) ==
  /\ c \in Conns /\ c # chosen /\ Handles(c)
  /\ status' = [status EXCEPT ![c] = "Error"]
  /\ posted' = posted \cup {c}
  /\ UNCHANGED <<pc, code, started, alive, failed, found, lookups, chosen, done, display>>

----------------------------------------------------------------------------
(* The transfer of the program. *)

\* The handshake of the upload, and the answer of the peer.
UploadAnswered ==
  /\ Handles(Up)
  /\ \/ /\ status[Up] = "Starting" /\ code' = code
        /\ status' = [status EXCEPT ![Up] = "WaitingForPeerAnswer"]
        /\ UNCHANGED line
     \/ /\ status[Up] = "WaitingForPeerAnswer" /\ code' = code
        /\ status' = [status EXCEPT ![Up] = "Transfering"] /\ Prints
     \/ /\ status[Up] = "WaitingForPeerAnswer" /\ ExitsWith(1)
        /\ status' = [status EXCEPT ![Up] = "Rejected"]
  /\ NoDiscovery /\ UNCHANGED <<chosen, done, drawn>>

\* Data, with or without a draw.
Progresses(t) ==
  /\ t = Ours /\ status[t] = "Transfering" /\ done < Size /\ Handles(t)
  /\ done' \in done + 1 .. Size
  /\ Draws(done') \/ UNCHANGED display
  /\ NoDiscovery /\ UNCHANGED <<code, status, chosen>>

\* Mutant: the status helper prints before the last progress.
CompletesDrawing(t) ==
  /\ t = Ours /\ status[t] = "Transfering" /\ done = Size /\ Handles(t)
  /\ status' = [status EXCEPT ![t] = "Completed"]
  /\ code' = 0
  /\ UNCHANGED done /\ Draws(done)
  /\ NoDiscovery /\ UNCHANGED chosen

\* transfer_end draws; then status_changed_helper.  A download may have read all
\* the rest in the same call.  (When the flush of its last notice fails,
\* download_failed has called exit (1) just before: the last call wins.)
Completes(t) ==
  /\ t = Ours /\ status[t] = "Transfering" /\ Handles(t)
  /\ done = Size \/ t \in Conns
  /\ done' = Size
  /\ status' = [status EXCEPT ![t] = "Completed"]
  /\ ExitsWith(0)
  /\ NoDiscovery /\ UNCHANGED <<chosen, drawn>>

\* failure () draws; then upload_failed, download_failed.
Fails(t) ==
  /\ t = Ours /\ status[t] # "WaitingForOffer" /\ Handles(t)
  /\ status' = [status EXCEPT ![t] = "Error"]
  /\ ExitsWith(1)
  /\ NoDiscovery /\ UNCHANGED <<chosen, done, drawn>>

----------------------------------------------------------------------------

Init ==
  /\ options \in [modes : SUBSET Modes, peer : BOOLEAN, yes : BOOLEAN, quiet : BOOLEAN]
  /\ pc = "Start" /\ code = Null /\ started = FALSE /\ ready = {}
  /\ alive = {} /\ failed = {} /\ posted = {} /\ found = FALSE /\ lookups = 0
  /\ status = [t \in Transfers |-> IF t = Up THEN "Init" ELSE "None"]
  /\ chosen = Null /\ done = 0
  /\ line = "Clean" /\ drawn = [width |-> 0, shown |-> 0, done |-> 0, space |-> 0, bar |-> << >>]

Handler ==
  \/ EndBrowsing("Timeout") \/ EndBrowsing("Browser")
  \/ StartUpload \/ StartDownload
  \/ \E p \in Peers : PeerDiscovered(p)
  \/ \E s \in Services : ServiceFails(s)
  \/ LookupAnswered \/ Registered \/ NewConnection \/ UploadAnswered
  \/ \E c \in Conns : NewDownload(c) \/ OtherDownload(c) \/ OtherFails(c)
  \/ \E t \in Transfers : Progresses(t) \/ Completes(t) \/ Fails(t)

Next == CommandLine \/ DeletePosted \/ Select \/ SelectNothing \/ EndTurn \/ Handler

\* The loop does not stop by itself: what is ready is handled, an exit () ends
\* it, and the timer of the list, once due, is taken in some turn.  What else
\* comes is up to the network.
Turns == CommandLine \/ DeletePosted \/ SelectNothing \/ EndTurn \/ Handler

Spec ==
  /\ Init /\ [][Next]_vars
  /\ WF_vars(Turns) /\ SF_vars(SelectWith({"Timeout"}))
----------------------------------------------------------------------------
(* Properties. *)

\* "Returns 0 if the transfer completed correctly, 1 otherwise": whatever calls
\* exit () in the same turn, before or after the end of the transfer.
ExitCodeIsRight ==
  pc = "Left" /\ ~Mode("List") =>
    (code = 0 <=> Ours # Null /\ status[Ours] = "Completed")

\* "Download is currently one shot": of all the offers, in the same turn too,
\* only the chosen one is ever accepted.
OneDownload ==
  \A c \in Conns : status[c] \in {"Transfering", "Completed"} => c = chosen

\* One lookup is made, and its answer finds the upload not connected yet: the
\* assertion of connect ().
ConnectsOnce == lookups > 0 => lookups = 1 /\ status[Up] = "Init"

\* The services are deleted once, and the pointers to them not used after
\* that, unless the record failed just before an offer came.
ServicesEndOnce == pc = "Crashed" => "Record" \in failed

OurEnd == Ours # Null /\ status[Ours] \in Final

\* When its transfer has ended, the program does not leave a progress line
\* unfinished on the terminal (last_output_was_progress).
LineIsEnded == pc = "Left" /\ OurEnd => line = "Clean"

\* The progress line fits the terminal, and is as wide when the bar is shown;
\* the bar fills its space, and is full or empty when the transfer is done or
\* not begun (Container::draw).
LineFits ==
  /\ drawn.shown <= drawn.width
  /\ drawn.bar # << >> =>
       /\ drawn.shown = drawn.width
       /\ 2 + drawn.bar[2] + drawn.bar[3] = drawn.space
       /\ drawn.done = Size => drawn.bar[3] = 0
       /\ drawn.done = 0 => drawn.bar[2] = 0

\* When the transfer of the program has ended, the program ends; the list ends
\* in any case (exit_nicely, exit_error).
LeavesAtTheEnd ==
  (Mode("List") \/ OurEnd) ~> pc \in {"Left", "Crashed"}
=============================================================================
