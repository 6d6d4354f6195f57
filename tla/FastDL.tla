------------------------------- MODULE FastDL -------------------------------
(* The download of a server's custom map: component/fastdl.cpp, and the    *)
(* part of component/workshop.cpp that asks for it.                        *)
(*                                                                         *)
(* The main thread queues a download when the server it joins plays a map  *)
(* the game does not have; the scheduler's async thread performs it: it    *)
(* reads the manifest, asks the player, downloads the outdated files with  *)
(* a pool of threads and writes workshop.json last, which makes the map    *)
(* one the game loads.  The server may replace its files at any time.      *)
EXTENDS DownloadPool

CONSTANTS
    MapFile,     \* the files of the manifest, workshop.json aside
    MapPart,     \* is_map_file: those compared by size alone
    MaxAnswers   \* answers of servers that play the map, in one run of the game

ASSUME MapAssumption ==
    /\ IsFiniteSet(MapFile) /\ MapFile # {} /\ MapPart \subseteq MapFile
    /\ MaxAnswers \in Nat

VARIABLES
    offered,        \* the version of the map the server has
    active,         \* download_active
    cancelled,      \* download_cancelled
    jobs,           \* downloads queued to the async thread
    answers,
    pc,             \* where perform_download is
    title,          \* the version its manifest is of
    dl,             \* the threads of download_files
    ui_cancelled,   \* the player closed the progress dialog
    files,
    marker,         \* workshop.json
    reloads,        \* success callbacks queued to the main thread
    content         \* the game's list of usermaps holds the map

mapDisk == <<files, marker>>
job == <<active, cancelled, jobs, pc, title, dl, ui_cancelled>>
fastdlVars == <<offered, answers, job, mapDisk, reloads, content>>

FastDLInit ==
    /\ offered = 0 /\ answers = 0
    /\ active = FALSE /\ cancelled = FALSE /\ jobs = 0
    /\ pc = "idle" /\ title = 0 /\ dl = NoPool /\ ui_cancelled = FALSE
    /\ reloads = 0 /\ content = FALSE
    /\ files = [f \in MapFile |-> Absent] /\ marker = Absent

(* What a process has of all this when it starts.                          *)
Anew ==
    /\ answers' = 0
    /\ active' = FALSE /\ cancelled' = FALSE /\ jobs' = 0
    /\ pc' = "idle" /\ title' = 0 /\ dl' = NoPool /\ ui_cancelled' = FALSE
    /\ reloads' = 0 /\ content' = FALSE

PublishMap ==
    /\ offered < MaxReleases
    /\ offered' = offered + 1
    /\ UNCHANGED <<answers, job, mapDisk, reloads, content, faults>>

-----------------------------------------------------------------------------
(* The main thread.                                                        *)

(* start_map_download looks at the flag that the queued job will set.      *)
check_valid_usermap_id ==
    /\ answers < MaxAnswers
    /\ answers' = answers + 1
    /\ jobs' = IF content \/ active THEN jobs ELSE jobs + 1
    /\ UNCHANGED <<offered, active, cancelled, pc, title, dl, ui_cancelled,
                   mapDisk, reloads, content, faults>>

(* reloadUserContent finds the maps whose workshop.json can be read; the   *)
(* server is asked again, and may answer.                                  *)
success_callback ==
    /\ reloads > 0
    /\ reloads' = reloads - 1
    /\ content' = Complete(marker)
    /\ UNCHANGED <<offered, answers, job, mapDisk, faults>>


cancel_download ==
    /\ cancelled' = TRUE
    /\ UNCHANGED <<offered, answers, active, jobs, pc, title, dl, ui_cancelled,
                   mapDisk, reloads, content, faults>>

-----------------------------------------------------------------------------
(* perform_download, on the async thread.                                  *)

begin_download ==
    /\ pc = "idle" /\ jobs > 0
    /\ jobs' = jobs - 1
    /\ active' = TRUE /\ cancelled' = FALSE
    /\ pc' = "manifest"
    /\ UNCHANGED <<offered, answers, title, dl, ui_cancelled, mapDisk, reloads,
                   content, faults>>

(* The exceptions and the refused manifest end it the same way.            *)
Ends == active' = FALSE /\ pc' = "idle"

(* The hash of a map part is not computed, and two versions of it may have *)
(* the same size.                                                          *)
SameFile(f, c, v) == IF f \in MapPart THEN Complete(c) ELSE c = v

is_file_outdated(f, v) == ~SameFile(f, files[f], v)

get_outdated_files(v) == {f \in MapFile : is_file_outdated(f, v)}

get_manifest_files ==
    /\ pc = "manifest"
    /\ \/ Fault /\ Ends /\ UNCHANGED title
       \/ /\ title' = offered
          /\ pc' = IF get_outdated_files(offered) = {} THEN "workshop" ELSE "ask"
          /\ UNCHANGED <<active, faults>>
    /\ UNCHANGED <<offered, answers, cancelled, jobs, dl, ui_cancelled, mapDisk,
                   reloads, content>>

(* The message box, which nothing but the player closes.                   *)
answer_message_box ==
    /\ pc = "ask"
    /\ \/ Ends /\ UNCHANGED <<dl, ui_cancelled>>
       \/ /\ pc' = "files" /\ ui_cancelled' = FALSE
          /\ dl' = StartPool(get_outdated_files(title))
          /\ UNCHANGED active
    /\ UNCHANGED <<offered, answers, cancelled, jobs, title, mapDisk, reloads,
                   content, faults>>

close_progress ==
    /\ pc = "files" /\ ~ui_cancelled
    /\ ui_cancelled' = TRUE
    /\ UNCHANGED <<offered, answers, active, cancelled, jobs, pc, title, dl,
                   mapDisk, reloads, content, faults>>

(* fastdl_ui::handle_cancellation throws, as does a cancelled download.    *)
handle_cancellation == cancelled' = (cancelled \/ ui_cancelled)

(* begin_file, and download_file up to the open that truncates the file.   *)
begin_file(f) ==
    /\ pc = "files" /\ MayTake(dl) /\ f \in dl.left
    /\ handle_cancellation
    /\ IF cancelled'
       THEN dl' = Throw(Take(dl, f), f) /\ UNCHANGED files
       ELSE dl' = Take(dl, f) /\ files' = [files EXCEPT ![f] = Partial]
    /\ UNCHANGED <<offered, answers, active, jobs, pc, title, ui_cancelled, marker,
                   reloads, content, faults>>

(* The stream ends: cancelled, whichever part was written, which is no     *)
(* error; closed by the player, which is one; failed; or written, and then *)
(* compared with the manifest.                                             *)
end_file(f) ==
    /\ pc = "files" /\ f \in dl.busy
    /\ \/ /\ cancelled
          /\ files' \in {files, [files EXCEPT ![f] = offered]}
          /\ dl' = End(dl, f) /\ UNCHANGED <<cancelled, faults>>
       \/ /\ ui_cancelled /\ ~cancelled
          /\ cancelled' = TRUE
          /\ dl' = Throw(dl, f) /\ UNCHANGED <<files, faults>>
       \/ /\ ~cancelled
          /\ Fault
          /\ dl' = Throw(dl, f) /\ UNCHANGED <<files, cancelled>>
       \/ /\ ~cancelled
          /\ files' = [files EXCEPT ![f] = offered]
          /\ dl' = IF SameFile(f, offered, title) THEN End(dl, f) ELSE Throw(dl, f)
          /\ UNCHANGED <<cancelled, faults>>
    /\ UNCHANGED <<offered, answers, active, jobs, pc, title, ui_cancelled, marker,
                   reloads, content>>

(* download_files joins its threads and rethrows.                          *)
(* A mutant: what a thread threw is not rethrown.                          *)
download_files_Forgets ==
    /\ pc = "files" /\ Joined(dl)
    /\ dl' = NoPool
    /\ pc' = "workshop" /\ UNCHANGED active
    /\ UNCHANGED <<offered, answers, cancelled, jobs, title, ui_cancelled, mapDisk,
                   reloads, content, faults>>

download_files ==
    /\ pc = "files" /\ Joined(dl)
    /\ dl' = NoPool
    /\ IF dl.failed THEN Ends ELSE pc' = "workshop" /\ UNCHANGED active
    /\ UNCHANGED <<offered, answers, cancelled, jobs, title, ui_cancelled, mapDisk,
                   reloads, content, faults>>

(* The flag is looked at before the file is fetched, and not again.        *)
download_workshop_file ==
    /\ pc = "workshop"
    /\ IF cancelled THEN Ends ELSE pc' = "fetch" /\ UNCHANGED active
    /\ UNCHANGED <<offered, answers, cancelled, jobs, title, dl, ui_cancelled,
                   mapDisk, reloads, content, faults>>

(* Fetched and opened, which truncates it.  The size or the hash suffices: *)
(* the file of another version may pass, and no property tells the         *)
(* versions of this one apart.                                             *)
fetch_workshop_file ==
    /\ pc = "fetch"
    /\ \/ Fault /\ Ends /\ UNCHANGED marker
       \/ offered # title /\ Ends /\ UNCHANGED <<marker, faults>>
       \/ /\ marker' = Partial /\ pc' = "write"
          /\ UNCHANGED <<active, faults>>
    /\ UNCHANGED <<offered, answers, cancelled, jobs, title, dl, ui_cancelled,
                   files, reloads, content>>

(* write_file does not look at what became of the write; the flag is       *)
(* cleared before the success callback queues the reload.                  *)
finish ==
    /\ pc = "write"
    /\ \/ marker' = title /\ UNCHANGED faults
       \/ Fault /\ UNCHANGED marker
    /\ Ends
    /\ reloads' = reloads + 1
    /\ UNCHANGED <<offered, answers, cancelled, jobs, title, dl, ui_cancelled,
                   files, content>>

(* What ends when a server or the player lets it: no transfer has a        *)
(* timeout.                                                                *)
awaited ==
    \/ get_manifest_files
    \/ answer_message_box
    \/ \E f \in MapFile : end_file(f)
    \/ fetch_workshop_file

computed ==
    \/ begin_download
    \/ \E f \in MapFile : begin_file(f)
    \/ download_files
    \/ download_workshop_file
    \/ finish

perform_download == awaited \/ computed

-----------------------------------------------------------------------------
FastDLTypeOK ==
    /\ offered \in Release /\ title \in Release
    /\ active \in BOOLEAN /\ cancelled \in BOOLEAN /\ ui_cancelled \in BOOLEAN
    /\ answers \in 0 .. MaxAnswers /\ jobs \in Nat /\ reloads \in Nat
    /\ pc \in {"idle", "manifest", "ask", "files", "workshop", "fetch", "write"}
    /\ dl \in Pools(MapFile)
    /\ files \in [MapFile -> Release \union {Absent, Partial}]
    /\ marker \in Release \union {Absent, Partial}
    /\ content \in BOOLEAN

(* What is outdated is still to be done, unless a worker has thrown or the *)
(* download is cancelled; nothing is when workshop.json is opened.         *)
DownloadInv ==
    /\ pc = "files" /\ ~dl.failed /\ ~cancelled =>
         get_outdated_files(title) \subseteq dl.left \union dl.busy
    /\ pc = "workshop" /\ ~cancelled => get_outdated_files(title) = {}
    /\ pc \in {"fetch", "write"} => get_outdated_files(title) = {}
=============================================================================
