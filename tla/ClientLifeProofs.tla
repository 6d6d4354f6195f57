-------------------------- MODULE ClientLifeProofs --------------------------
(***************************************************************************)
(* Proofs about ClientLife, for any files, releases, faults and threads:   *)
(* a host binary is kept, the game's files stand still while it plays, and *)
(* workshop.json is the last file of a map.                                *)
(***************************************************************************)
EXTENDS ClientLife, TLAPS

Contents == Release \union {Absent, Partial}

LEMMA ContentsApart ==
    /\ Absent # Partial /\ ~Complete(Absent) /\ ~Complete(Partial)
    /\ \A r \in Release : r # Absent /\ r # Partial
    /\ 0 \in Release /\ 0 \in 0 .. MaxFaults /\ 0 \in 0 .. MaxAnswers
  BY PoolAssumption, MapAssumption DEF Release, Complete

LEMMA FaultCounted ==
    ASSUME faults \in 0 .. MaxFaults, Fault \/ UNCHANGED faults
    PROVE  faults' \in 0 .. MaxFaults
  BY PoolAssumption DEF Fault

LEMMA PoolsClosed ==
    ASSUME NEW File
    PROVE  /\ NoPool \in Pools(File)
           /\ \A F \in SUBSET File : StartPool(F) \in Pools(File)
           /\ \A p \in Pools(File), f \in File :
                  Take(p, f) \in Pools(File) /\ End(p, f) \in Pools(File)
                  /\ Throw(p, f) \in Pools(File)
<1>1. NoPool \in Pools(File)
  BY DEF NoPool, Pools
<1>2. \A F \in SUBSET File : StartPool(F) \in Pools(File)
  BY DEF StartPool, Pools
<1>3. ASSUME NEW p \in Pools(File), NEW f \in File
      PROVE  Take(p, f) \in Pools(File) /\ End(p, f) \in Pools(File)
             /\ Throw(p, f) \in Pools(File)
  <2>1. Take(p, f) \in Pools(File)
    BY <1>3 DEF Take, Pools
  <2>2. End(p, f) \in Pools(File)
    BY <1>3 DEF End, Pools
  <2>3. Throw(p, f) \in Pools(File)
    BY <1>3 DEF Throw, Pools
  <2> QED BY <2>1, <2>2, <2>3
<1> QED BY <1>1, <1>2, <1>3

UpdaterInv == faults \in 0 .. MaxFaults /\ UpdaterTypeOK /\ HostInv /\ PlayInv

LEMMA InitIInv == Init => IInv
<1> SUFFICES ASSUME Init PROVE IInv
  OBVIOUS
<1> USE ContentsApart, PoolsClosed DEF Init
<1>1. UpdaterTypeOK
  BY DEF UpdaterInit, UpdaterTypeOK
<1>2. FastDLTypeOK
  BY DEF FastDLInit, FastDLTypeOK
<1>3. HostInv
  BY DEF UpdaterInit, HostInv, Complete
<1>4. PlayInv
  BY DEF UpdaterInit, PlayInv
<1>5. DownloadInv
  BY DEF FastDLInit, DownloadInv
<1> QED BY <1>1, <1>2, <1>3, <1>4, <1>5 DEF IInv, TypeOK

-----------------------------------------------------------------------------
(* The updater.                                                            *)

LEMMA OutdatedListed ==
    ASSUME NEW r \in Release
    PROVE  get_outdated(r) \in SUBSET DataFile
  BY DataAssumption DEF get_outdated

(* The first steps of file_updater: what it deletes, reads and removes.    *)
LEMMA RunStep ==
    ASSUME UpdaterInv,
           \/ delete_old_process_file \/ get_file_infos \/ compare_files
           \/ \E f \in DataFile : cleanup_directories(f)
    PROVE  UpdaterInv'
<1> USE ContentsApart DEF UpdaterInv
<1>1. CASE delete_old_process_file
  <2>1. UpdaterTypeOK'
    BY <1>1 DEF delete_old_process_file, UpdaterTypeOK
  <2>2. HostInv'
    BY <1>1 DEF delete_old_process_file, HostInv
  <2>3. PlayInv' /\ UNCHANGED faults
    BY <1>1 DEF delete_old_process_file, PlayInv
  <2> QED BY <2>1, <2>2, <2>3
<1>2. CASE get_file_infos
  <2>1. faults' \in 0 .. MaxFaults
    BY <1>2, FaultCounted DEF get_file_infos
  <2>2. entries' \subseteq DataFile /\ unremoved' = {} /\ manifest' \in Release
    BY <1>2 DEF get_file_infos, list_files, UpdaterTypeOK
  <2>3. upd = "run" /\ upd' \in {"done", "cleanup"} /\ UNCHANGED <<server, disk, leaving, phase, pool>>
    BY <1>2 DEF get_file_infos
  <2>4. UpdaterTypeOK'
    BY <2>2, <2>3 DEF UpdaterTypeOK, disk
  <2>5. HostInv' /\ PlayInv'
    BY <2>3 DEF HostInv, PlayInv, disk
  <2> QED BY <2>1, <2>4, <2>5
<1>3. ASSUME NEW f \in DataFile, cleanup_directories(f)
      PROVE  UpdaterInv'
  <2>1. faults' \in 0 .. MaxFaults
    BY <1>3, FaultCounted DEF cleanup_directories
  <2>2. data' \in [DataFile -> Contents]
    BY <1>3 DEF cleanup_directories, UpdaterTypeOK, Contents
  <2>3. entries' \subseteq DataFile /\ unremoved' \subseteq DataFile
    BY <1>3 DEF cleanup_directories, UpdaterTypeOK
  <2>4. UNCHANGED <<server, exe, dead, leaving, phase, upd, manifest, pool>>
    BY <1>3 DEF cleanup_directories
  <2>5. UpdaterTypeOK' /\ HostInv' /\ PlayInv'
    BY <2>2, <2>3, <2>4 DEF UpdaterTypeOK, HostInv, PlayInv, Contents
  <2> QED BY <2>1, <2>5
<1>4. CASE compare_files
  <2>1. pool' \in Pools(DataFile)
    BY <1>4, PoolsClosed, OutdatedListed DEF compare_files, UpdaterTypeOK
  <2>2. /\ upd = "cleanup" /\ upd' \in {"done", "move", "files"}
        /\ UNCHANGED <<server, faults, disk, leaving, phase, manifest, entries, unremoved>>
    BY <1>4 DEF compare_files
  <2>3. UpdaterTypeOK'
    BY <2>1, <2>2 DEF UpdaterTypeOK, disk
  <2>4. HostInv' /\ PlayInv'
    BY <2>2 DEF HostInv, PlayInv, disk
  <2> QED BY <2>2, <2>3, <2>4
<1> QED BY <1>1, <1>2, <1>3, <1>4

LEMMA HostStep ==
    ASSUME UpdaterInv, move_host \/ fetch_host \/ write_host \/ restore_host \/ relaunch_self
    PROVE  UpdaterInv'
<1> USE ContentsApart DEF UpdaterInv
<1>1. faults' \in 0 .. MaxFaults
  BY FaultCounted DEF move_host, fetch_host, write_host, restore_host, relaunch_self
<1>2. CASE move_host
  <2> USE <1>2 DEF move_host, move_current_process_file
  <2>1. UpdaterTypeOK'
    BY DEF UpdaterTypeOK
  <2>2. HostInv' /\ PlayInv'
    BY DEF HostInv, PlayInv
  <2> QED BY <1>1, <2>1, <2>2
<1>3. CASE fetch_host
  <2> USE <1>3 DEF fetch_host
  <2>1. UpdaterTypeOK'
    BY DEF UpdaterTypeOK
  <2>2. HostInv' /\ PlayInv'
    BY DEF HostInv, PlayInv
  <2> QED BY <1>1, <2>1, <2>2
<1>4. CASE write_host
  <2> USE <1>4 DEF write_host
  <2>1. UpdaterTypeOK'
    BY DEF UpdaterTypeOK
  <2>2. Complete(dead) /\ exe # Absent /\ exe' \in {exe, manifest} /\ manifest \in Release
        /\ upd' = "relaunch" /\ UNCHANGED <<dead, phase>>
    BY DEF HostInv, UpdaterTypeOK
  <2>3. HostInv' /\ PlayInv'
    BY <2>2 DEF HostInv, PlayInv
  <2> QED BY <1>1, <2>1, <2>3
<1>5. CASE restore_host
  <2> USE <1>5 DEF restore_host, restore_current_process_file
  <2>1. UpdaterTypeOK'
    BY DEF UpdaterTypeOK
  <2>2. HostInv' /\ PlayInv'
    BY DEF HostInv, PlayInv
  <2> QED BY <1>1, <2>1, <2>2
<1>6. CASE relaunch_self
  <2> USE <1>6 DEF relaunch_self, disk
  <2>1. UpdaterTypeOK'
    BY DEF UpdaterTypeOK
  <2>2. HostInv' /\ PlayInv'
    BY DEF HostInv, PlayInv
  <2> QED BY <1>1, <2>1, <2>2
<1> QED BY <1>2, <1>3, <1>4, <1>5, <1>6

LEMMA FilesStep ==
    ASSUME UpdaterInv,
           \/ \E f \in DataFile : begin_update_file(f) \/ end_update_file(f)
           \/ update_files_joined
    PROVE  UpdaterInv'
<1> USE ContentsApart DEF UpdaterInv
<1>1. ASSUME NEW f \in DataFile, begin_update_file(f)
      PROVE  UpdaterInv'
  <2>1. faults' \in 0 .. MaxFaults
    BY <1>1, FaultCounted DEF begin_update_file
  <2>2. pool' \in Pools(DataFile)
    <3>1. Take(pool, f) \in Pools(DataFile) /\ Throw(Take(pool, f), f) \in Pools(DataFile)
      BY PoolsClosed DEF UpdaterTypeOK
    <3> QED BY <1>1, <3>1 DEF begin_update_file
  <2>3. data' \in [DataFile -> Contents]
    BY <1>1 DEF begin_update_file, UpdaterTypeOK, Contents
  <2>4. UNCHANGED <<server, exe, dead, leaving, phase, upd, manifest, entries, unremoved>>
    BY <1>1 DEF begin_update_file
  <2>5. UpdaterTypeOK' /\ HostInv' /\ PlayInv'
    BY <2>2, <2>3, <2>4 DEF UpdaterTypeOK, HostInv, PlayInv, Contents
  <2> QED BY <2>1, <2>5
<1>2. ASSUME NEW f \in DataFile, end_update_file(f)
      PROVE  UpdaterInv'
  <2>1. faults' \in 0 .. MaxFaults
    BY <1>2, FaultCounted DEF end_update_file
  <2>2. pool' \in Pools(DataFile)
    BY <1>2, PoolsClosed DEF end_update_file, UpdaterTypeOK
  <2>3. data' \in [DataFile -> Contents]
    BY <1>2 DEF end_update_file, UpdaterTypeOK, Contents
  <2>4. UNCHANGED <<server, exe, dead, leaving, phase, upd, manifest, entries, unremoved>>
    BY <1>2 DEF end_update_file
  <2>5. UpdaterTypeOK' /\ HostInv' /\ PlayInv'
    BY <2>2, <2>3, <2>4 DEF UpdaterTypeOK, HostInv, PlayInv, Contents
  <2> QED BY <2>1, <2>5
<1>3. CASE update_files_joined
  <2> USE <1>3 DEF update_files_joined, disk
  <2>1. UpdaterTypeOK'
    BY PoolsClosed DEF UpdaterTypeOK
  <2>2. HostInv' /\ PlayInv'
    BY DEF HostInv, PlayInv
  <2> QED BY <2>1, <2>2
<1> QED BY <1>1, <1>2, <1>3

(* main, the loader, the exit and a kill leave the disk alone.             *)
LEMMA PhaseStep ==
    ASSUME UpdaterInv,
           \/ Start \/ activate \/ premature_shutdown \/ post_unpack
           \/ exit_hook \/ exit_process \/ Killed
    PROVE  UpdaterInv' /\ UNCHANGED disk
<1> USE ContentsApart DEF UpdaterInv
<1>1. UNCHANGED <<server, exe, dead, data, leaving, manifest>>
  BY DEF Start, activate, premature_shutdown, post_unpack, exit_hook, exit_process,
         Killed, disk, updater
<1>2. pool' \in Pools(DataFile) /\ entries' \subseteq DataFile /\ unremoved' \subseteq DataFile
  BY PoolsClosed DEF UpdaterTypeOK, Start, activate, premature_shutdown, post_unpack,
         exit_hook, exit_process, Killed, updater
<1>3. faults' \in 0 .. MaxFaults
  BY FaultCounted DEF Start, activate, premature_shutdown, post_unpack, exit_hook,
         exit_process, Killed
<1>4. /\ upd' \in {"none", "constructor", "done"}
      /\ phase' \in {"off", "update", "load", "play", "destroy"}
      /\ PlayInv' /\ HostInv'
  <2>1. CASE Start
    BY <1>1, <2>1 DEF Start, PlayInv, HostInv
  <2>2. CASE activate
    BY <1>1, <2>2 DEF activate, PlayInv, HostInv
  <2>3. CASE premature_shutdown
    BY <1>1, <2>3 DEF premature_shutdown, PlayInv, HostInv
  <2>4. CASE post_unpack
    BY <1>1, <2>4 DEF post_unpack, join_update_thread, updater, PlayInv, HostInv
  <2>5. CASE exit_hook
    BY <1>1, <2>5 DEF exit_hook, updater, PlayInv, HostInv
  <2>6. CASE exit_process
    BY <1>1, <2>6 DEF exit_process, PlayInv, HostInv
  <2>7. CASE Killed
    BY <1>1, <2>7 DEF Killed, PlayInv, HostInv
  <2> QED BY <2>1, <2>2, <2>3, <2>4, <2>5, <2>6, <2>7
<1>5. UpdaterTypeOK'
  BY <1>1, <1>2, <1>4 DEF UpdaterTypeOK
<1> QED BY <1>1, <1>3, <1>4, <1>5 DEF disk

LEMMA ElsewhereStep ==
    ASSUME UpdaterInv,
           Publish \/ OldProcessEnds \/ UNCHANGED updaterVars,
           faults' \in 0 .. MaxFaults
    PROVE  UpdaterInv' /\ UNCHANGED disk
<1> USE DEF UpdaterInv
<1>1. UNCHANGED <<exe, dead, data, phase, upd, manifest, entries, unremoved, pool>>
  BY DEF Publish, OldProcessEnds, updaterVars, disk, updater
<1>2. leaving' \in BOOLEAN
  BY DEF Publish, OldProcessEnds, updaterVars, UpdaterTypeOK
<1>3. server' \in Release
  BY PoolAssumption DEF Publish, OldProcessEnds, updaterVars, UpdaterTypeOK, Release
<1>4. UpdaterTypeOK' /\ HostInv' /\ PlayInv'
  BY <1>1, <1>2, <1>3 DEF UpdaterTypeOK, HostInv, PlayInv
<1> QED BY <1>1, <1>4 DEF disk

-----------------------------------------------------------------------------
(* The download of a map.                                                  *)

FastDLInv == faults \in 0 .. MaxFaults /\ FastDLTypeOK /\ DownloadInv

LEMMA OutdatedFiles ==
    ASSUME NEW v \in Release
    PROVE  get_outdated_files(v) \in SUBSET MapFile
  BY DEF get_outdated_files

(* Steps that leave the files, the pool and the title alone keep what is   *)
(* known of them, unless the job moves on or the cancellation is reset.    *)
LEMMA SameDownload ==
    ASSUME DownloadInv, UNCHANGED <<files, dl, title>>,
           cancelled => cancelled',
           pc' = pc \/ pc' \in {"idle", "manifest", "ask"}
    PROVE  DownloadInv'
  BY DEF DownloadInv, get_outdated_files, is_file_outdated, SameFile

LEMMA AskStep ==
    ASSUME FastDLInv,
           \/ check_valid_usermap_id \/ success_callback \/ cancel_download
           \/ close_progress \/ begin_download
    PROVE  FastDLInv'
<1> USE DEF FastDLInv
<1>1. UNCHANGED <<faults, offered, title, dl, mapDisk>>
  BY DEF check_valid_usermap_id, success_callback, cancel_download, close_progress,
         begin_download, job
<1>2. CASE check_valid_usermap_id
  <2> USE <1>2, MapAssumption DEF check_valid_usermap_id, mapDisk
  <2>1. answers' \in 0 .. MaxAnswers /\ jobs' \in Nat
    BY DEF FastDLTypeOK
  <2>2. FastDLTypeOK'
    BY <2>1 DEF FastDLTypeOK
  <2> QED BY <2>2, SameDownload
<1>3. CASE success_callback
  <2> USE <1>3 DEF success_callback, job, mapDisk
  <2>1. reloads' \in Nat /\ content' \in BOOLEAN
    BY DEF FastDLTypeOK, Complete
  <2>2. FastDLTypeOK'
    BY <2>1 DEF FastDLTypeOK
  <2> QED BY <2>2, SameDownload
<1>4. CASE cancel_download
  <2> USE <1>4 DEF cancel_download, mapDisk
  <2>1. FastDLTypeOK'
    BY DEF FastDLTypeOK
  <2> QED BY <2>1, SameDownload
<1>5. CASE close_progress
  <2> USE <1>5 DEF close_progress, mapDisk
  <2>1. FastDLTypeOK'
    BY DEF FastDLTypeOK
  <2> QED BY <2>1, SameDownload
<1>6. CASE begin_download
  <2> USE <1>6 DEF begin_download, mapDisk
  <2>1. jobs' \in Nat
    BY DEF FastDLTypeOK
  <2>2. FastDLTypeOK'
    BY <2>1 DEF FastDLTypeOK
  <2>3. DownloadInv'
    BY DEF DownloadInv
  <2> QED BY <2>2, <2>3
<1> QED BY <1>2, <1>3, <1>4, <1>5, <1>6

LEMMA ManifestStep ==
    ASSUME FastDLInv, get_manifest_files \/ answer_message_box
    PROVE  FastDLInv'
<1> USE DEF FastDLInv
<1>1. CASE get_manifest_files
  <2> USE <1>1 DEF get_manifest_files, mapDisk
  <2>1. faults' \in 0 .. MaxFaults
    BY FaultCounted
  <2>2. FastDLTypeOK'
    BY DEF FastDLTypeOK, Ends
  <2>3. CASE pc' = "idle"
    BY <2>1, <2>2, <2>3 DEF DownloadInv
  <2>4. CASE title' = offered /\ pc' = IF get_outdated_files(offered) = {}
                                       THEN "workshop" ELSE "ask"
    <3>1. get_outdated_files(title)' = get_outdated_files(offered)
      BY <2>4 DEF get_outdated_files, is_file_outdated, SameFile
    <3> QED BY <2>1, <2>2, <2>4, <3>1 DEF DownloadInv
  <2> QED BY <2>1, <2>2, <2>3, <2>4 DEF DownloadInv, Ends
<1>2. CASE answer_message_box
  <2> USE <1>2 DEF answer_message_box, mapDisk
  <2>1. dl' \in Pools(MapFile)
    BY PoolsClosed, OutdatedFiles DEF FastDLTypeOK
  <2>2. FastDLTypeOK'
    BY <2>1 DEF FastDLTypeOK, Ends
  <2>3. get_outdated_files(title)' = get_outdated_files(title)
    BY DEF get_outdated_files, is_file_outdated, SameFile
  <2>4. DownloadInv'
    BY <2>3 DEF DownloadInv, StartPool, Ends
  <2> QED BY <2>2, <2>4
<1> QED BY <1>1, <1>2

(* A worker: what it has begun is outdated, and not forgotten.             *)
LEMMA BeginStep ==
    ASSUME FastDLInv, NEW f \in MapFile, begin_file(f)
    PROVE  FastDLInv'
<1> USE DEF FastDLInv
<1>1. UNCHANGED <<offered, answers, active, jobs, pc, title, ui_cancelled, marker,
                  reloads, content, faults>> /\ pc = "files" /\ f \in dl.left
  BY DEF begin_file
<1>2. cancelled' \in BOOLEAN
  BY DEF begin_file, handle_cancellation, FastDLTypeOK
<1>3. dl' \in Pools(MapFile)
  BY PoolsClosed DEF begin_file, FastDLTypeOK
<1>4. files' \in [MapFile -> Contents]
  BY DEF begin_file, FastDLTypeOK, Contents
<1>5. FastDLTypeOK'
  BY <1>1, <1>2, <1>3, <1>4 DEF FastDLTypeOK, Contents
<1>6. ASSUME ~cancelled'
      PROVE  get_outdated_files(title)' \subseteq dl'.left \union dl'.busy
             \/ dl'.failed
  <2>1. /\ dl' = Take(dl, f) /\ files' = [files EXCEPT ![f] = Partial]
        /\ ~cancelled
    BY <1>6 DEF begin_file, handle_cancellation
  <2>2. /\ dl'.left = dl.left \ {f} /\ dl'.busy = dl.busy \union {f}
        /\ dl'.failed = dl.failed
    BY <2>1 DEF Take, FastDLTypeOK, Pools
  <2>3. get_outdated_files(title)' \subseteq get_outdated_files(title) \union {f}
    BY <1>1, <2>1 DEF get_outdated_files, is_file_outdated, SameFile, FastDLTypeOK
  <2> QED BY <1>1, <2>1, <2>2, <2>3 DEF DownloadInv
<1> QED BY <1>1, <1>5, <1>6 DEF DownloadInv

LEMMA EndStep ==
    ASSUME FastDLInv, NEW f \in MapFile, end_file(f)
    PROVE  FastDLInv'
<1> USE DEF FastDLInv
<1>1. UNCHANGED <<offered, answers, active, jobs, pc, title, ui_cancelled, marker,
                  reloads, content>> /\ pc = "files" /\ f \in dl.busy
  BY DEF end_file
<1>2. cancelled' \in BOOLEAN /\ faults' \in 0 .. MaxFaults
  BY FaultCounted DEF end_file, FastDLTypeOK
<1>3. dl' \in Pools(MapFile)
  BY PoolsClosed DEF end_file, FastDLTypeOK
<1>4. files' \in [MapFile -> Contents]
  BY DEF end_file, FastDLTypeOK, Contents
<1>5. FastDLTypeOK'
  BY <1>1, <1>2, <1>3, <1>4 DEF FastDLTypeOK, Contents
<1>6. ASSUME ~cancelled', ~dl'.failed
      PROVE  get_outdated_files(title)' \subseteq dl'.left \union dl'.busy
  <2>1. Throw(dl, f).failed
    BY DEF Throw, FastDLTypeOK, Pools
  <2>2. /\ ~cancelled /\ files' = [files EXCEPT ![f] = offered]
        /\ SameFile(f, offered, title) /\ dl' = End(dl, f)
    BY <1>6, <2>1 DEF end_file
  <2>3. dl'.left = dl.left /\ dl'.busy = dl.busy \ {f} /\ dl'.failed = dl.failed
    BY <2>2 DEF End, FastDLTypeOK, Pools
  <2>4. get_outdated_files(title)' \subseteq get_outdated_files(title) \ {f}
    <3>1. files'[f] = offered
      BY <2>2 DEF FastDLTypeOK
    <3>2. \A g \in MapFile \ {f} : files'[g] = files[g]
      BY <2>2 DEF FastDLTypeOK
    <3> QED BY <1>1, <2>2, <3>1, <3>2 DEF get_outdated_files, is_file_outdated, SameFile
  <2> QED BY <1>1, <1>6, <2>2, <2>3, <2>4 DEF DownloadInv
<1> QED BY <1>1, <1>2, <1>5, <1>6 DEF DownloadInv

LEMMA FinishStep ==
    ASSUME FastDLInv,
           download_files \/ download_workshop_file \/ fetch_workshop_file \/ finish
    PROVE  FastDLInv'
<1> USE DEF FastDLInv
<1>1. faults' \in 0 .. MaxFaults
  BY FaultCounted DEF download_files, download_workshop_file, fetch_workshop_file, finish
<1>2. get_outdated_files(title)' = get_outdated_files(title)
  BY DEF download_files, download_workshop_file, fetch_workshop_file, finish, mapDisk,
         get_outdated_files, is_file_outdated, SameFile
<1>3. CASE download_files
  <2> USE <1>3 DEF download_files, Ends, mapDisk
  <2>1. FastDLTypeOK'
    BY PoolsClosed DEF FastDLTypeOK
  <2>2. DownloadInv'
    BY <1>2 DEF DownloadInv, Joined
  <2> QED BY <1>1, <2>1, <2>2
<1>4. CASE download_workshop_file
  <2> USE <1>4 DEF download_workshop_file, Ends, mapDisk
  <2>1. FastDLTypeOK'
    BY DEF FastDLTypeOK
  <2>2. DownloadInv'
    BY <1>2 DEF DownloadInv
  <2> QED BY <1>1, <2>1, <2>2
<1>6. CASE fetch_workshop_file
  <2> USE <1>6 DEF fetch_workshop_file, Ends
  <2>1. FastDLTypeOK'
    BY DEF FastDLTypeOK
  <2>2. DownloadInv'
    BY <1>2 DEF DownloadInv
  <2> QED BY <1>1, <2>1, <2>2
<1>5. CASE finish
  <2> USE <1>5 DEF finish, Ends
  <2>1. reloads' \in Nat
    BY DEF FastDLTypeOK
  <2>2. marker' \in Release \union {Absent, Partial}
    BY DEF FastDLTypeOK
  <2>3. UNCHANGED <<offered, answers, cancelled, jobs, title, dl, ui_cancelled, files, content>>
        /\ ~active' /\ active' \in BOOLEAN /\ pc' = "idle"
    OBVIOUS
  <2>4. FastDLTypeOK'
    BY <2>1, <2>2, <2>3 DEF FastDLTypeOK
  <2>5. DownloadInv'
    BY <1>2 DEF DownloadInv
  <2> QED BY <1>1, <2>4, <2>5
<1> QED BY <1>3, <1>4, <1>5, <1>6

LEMMA PerformStep ==
    ASSUME FastDLInv, perform_download
    PROVE  FastDLInv'
  BY AskStep, ManifestStep, BeginStep, EndStep, FinishStep DEF perform_download, awaited, computed

(* The process ends: memory is lost, the files and the server's remain.    *)
LEMMA AnewStep ==
    ASSUME FastDLInv, Anew, UNCHANGED <<offered, mapDisk>>, faults' \in 0 .. MaxFaults
    PROVE  FastDLInv'
<1> USE ContentsApart DEF FastDLInv, Anew
<1>1. FastDLTypeOK'
  BY PoolsClosed DEF FastDLTypeOK, mapDisk
<1>2. DownloadInv'
  BY DEF DownloadInv
<1> QED BY <1>1, <1>2

-----------------------------------------------------------------------------
LEMMA Split == IInv <=> /\ UpdaterInv /\ FastDLInv
                        /\ destroyed \subseteq {"fastdl", "scheduler"}
                        /\ called_off \in BOOLEAN
  BY DEF IInv, TypeOK, UpdaterInv, FastDLInv

LEMMA SplitNext ==
    ASSUME UpdaterInv', FastDLInv', destroyed' \subseteq {"fastdl", "scheduler"},
           called_off' \in BOOLEAN
    PROVE  IInv'
  BY DEF IInv, TypeOK, UpdaterInv, FastDLInv

LEMMA StartingStep ==
    ASSUME IInv, Starting
    PROVE  IInv' /\ (phase = "play" => UNCHANGED disk)
<1>1. UpdaterInv /\ UNCHANGED <<fastdlVars, ending>>
  BY Split DEF Starting
<1>2. UpdaterInv'
  BY <1>1, RunStep, HostStep, FilesStep, PhaseStep DEF Starting, file_updater
<1>3. FastDLInv'
  <2>1. FastDLTypeOK'
    BY <1>1, Split DEF FastDLInv, FastDLTypeOK, fastdlVars, job, mapDisk
  <2>2. DownloadInv'
    BY <1>1, Split, SameDownload DEF FastDLInv, fastdlVars, job, mapDisk
  <2> QED BY <1>2, <2>1, <2>2 DEF FastDLInv, UpdaterInv
<1>4. phase # "play"
  BY <1>1 DEF UpdaterInv, PlayInv, Starting, Start, file_updater, activate,
              premature_shutdown, delete_old_process_file, get_file_infos, compare_files,
              cleanup_directories, move_host, fetch_host,
              write_host, restore_host, relaunch_self, begin_update_file,
              end_update_file, update_files_joined
<1>5. destroyed' \subseteq {"fastdl", "scheduler"} /\ called_off' \in BOOLEAN
  BY <1>1, Split DEF ending
<1> QED BY <1>2, <1>3, <1>4, <1>5, SplitNext

(* The steps of main and of the exit.                                      *)
LEMMA LifeStep ==
    ASSUME IInv, Play \/ Leave \/ Exit \/ Kill
    PROVE  IInv' /\ UNCHANGED disk
<1>1. UpdaterInv' /\ UNCHANGED disk
  BY Split, PhaseStep DEF Play, Leave, Exit, Kill
<1>2. faults' \in 0 .. MaxFaults
  BY <1>1 DEF UpdaterInv
<1>3. FastDLInv'
  <2>1. CASE Play
    <3>1. FastDLTypeOK'
      BY <1>2, <2>1, Split DEF FastDLInv, FastDLTypeOK, Play, job, mapDisk, Complete
    <3>2. DownloadInv'
      BY <2>1, Split, SameDownload DEF FastDLInv, Play, job, mapDisk
    <3> QED BY <1>2, <3>1, <3>2 DEF FastDLInv
  <2>2. CASE Leave
    <3>1. FastDLTypeOK'
      BY <2>2, Split DEF FastDLInv, FastDLTypeOK, Leave, fastdlVars, job, mapDisk
    <3>2. DownloadInv'
      BY <2>2, Split, SameDownload DEF FastDLInv, Leave, fastdlVars, job, mapDisk
    <3> QED BY <1>2, <3>1, <3>2 DEF FastDLInv
  <2>3. CASE Exit \/ Kill
    BY <1>2, <2>3, Split, AnewStep DEF Exit, Kill
  <2> QED BY <2>1, <2>2, <2>3
<1>4. destroyed' \subseteq {"fastdl", "scheduler"} /\ called_off' \in BOOLEAN
  BY Split DEF Play, Leave, Exit, Kill, ending
<1> QED BY <1>1, <1>3, <1>4, SplitNext

(* The steps of the download, of the player and of the two pre_destroys.   *)
LEMMA DownloadStep ==
    ASSUME IInv, main \/ player \/ async \/ pre_destroy_fastdl \/ pre_destroy_scheduler
    PROVE  IInv' /\ UNCHANGED disk
<1>1. UNCHANGED updaterVars
  BY DEF main, player, async, pre_destroy_fastdl, pre_destroy_scheduler
<1>2. FastDLInv'
  <2>1. CASE main \/ player \/ async \/ pre_destroy_fastdl
    BY <2>1, Split, AskStep, PerformStep DEF main, player, async, pre_destroy_fastdl
  <2>2. CASE pre_destroy_scheduler
    <3>1. FastDLTypeOK'
      BY <2>2, Split DEF FastDLInv, FastDLTypeOK, pre_destroy_scheduler, mapDisk
    <3>2. DownloadInv'
      BY <2>2, Split, SameDownload DEF FastDLInv, pre_destroy_scheduler, mapDisk
    <3>3. UNCHANGED faults
      BY <2>2 DEF pre_destroy_scheduler
    <3> QED BY <3>1, <3>2, <3>3, Split DEF FastDLInv
  <2> QED BY <2>1, <2>2
<1>3. UpdaterInv' /\ UNCHANGED disk
  BY <1>1, <1>2, Split, ElsewhereStep DEF FastDLInv
<1>4. destroyed' \subseteq {"fastdl", "scheduler"} /\ called_off' \in BOOLEAN
  <2>1. active \in BOOLEAN
    BY Split DEF FastDLInv, FastDLTypeOK
  <2> QED BY <2>1, Split DEF main, player, async, pre_destroy_fastdl, pre_destroy_scheduler, ending
<1> QED BY <1>2, <1>3, <1>4, SplitNext

LEMMA OutsideStep ==
    ASSUME IInv, Elsewhere \/ UNCHANGED vars
    PROVE  IInv' /\ UNCHANGED disk
<1>1. UNCHANGED <<faults, ending, mapDisk, job, reloads, content, answers>>
  BY DEF Elsewhere, PublishMap, vars, fastdlVars
<1>2. offered' \in Release
  BY Split, PoolAssumption DEF FastDLInv, FastDLTypeOK, Elsewhere, PublishMap, vars,
                               fastdlVars, Release
<1>3. FastDLTypeOK'
  BY <1>1, <1>2, Split DEF FastDLInv, FastDLTypeOK, job, mapDisk
<1>4. DownloadInv'
  BY <1>1, Split, SameDownload DEF FastDLInv, job, mapDisk
<1>5. Publish \/ OldProcessEnds \/ UNCHANGED updaterVars
  BY DEF Elsewhere, vars
<1>6. UpdaterInv' /\ UNCHANGED disk
  BY <1>1, <1>5, Split, ElsewhereStep DEF FastDLInv
<1>7. /\ FastDLInv' /\ destroyed' \subseteq {"fastdl", "scheduler"}
      /\ called_off' \in BOOLEAN
  BY <1>1, <1>3, <1>4, Split DEF FastDLInv, ending
<1> QED BY <1>6, <1>7, SplitNext

LEMMA NextIInv ==
    ASSUME IInv, [Next]_vars
    PROVE  IInv' /\ (phase = "play" => UNCHANGED disk)
  BY StartingStep, LifeStep, DownloadStep, OutsideStep DEF Next

LEMMA AlwaysIInv == Spec => []IInv
<1>1. IInv /\ [Next]_vars => IInv'
  BY NextIInv
<1> QED BY InitIInv, <1>1, PTL DEF Spec

(* Files, phases, pools and counters keep their types.                     *)
THEOREM TypeCorrect == Spec => []TypeOK
<1>1. IInv => TypeOK
  BY DEF IInv
<1> QED BY <1>1, AlwaysIInv, PTL

(* A whole host binary is on the disk at every step of any number of       *)
(* updates, failures and kills.                                            *)
THEOREM HostBinaryKept == Spec => []HostKept
<1>1. IInv => HostKept
  BY DEF IInv, HostInv, HostKept
<1> QED BY <1>1, AlwaysIInv, PTL

(* No file of the game changes while it plays.                             *)
THEOREM NoUpdateInPlay == Spec => PlayStable
<1>1. IInv /\ [Next]_vars => [phase = "play" => UNCHANGED disk]_vars
  BY NextIInv
<1> QED BY <1>1, AlwaysIInv, PTL DEF Spec, PlayStable

(* workshop.json is opened and written only when every other file of the   *)
(* manifest is what the manifest says.                                     *)
THEOREM MarkerAfterFiles == Spec => MarkerLast
<1>1. ASSUME IInv, [Next]_vars, marker' # marker
      PROVE  \A f \in MapFile : ~is_file_outdated(f, title)
  <2>1. pc \in {"fetch", "write"}
    <3>1. perform_download
      BY <1>1 DEF Next, Starting, Play, main, player, async, Leave, pre_destroy_fastdl,
         pre_destroy_scheduler, Exit, Kill, Elsewhere, fastdlVars, mapDisk, vars,
         check_valid_usermap_id, success_callback, close_progress, cancel_download,
         PublishMap
    <3> QED BY <1>1, <3>1 DEF perform_download, awaited, computed, begin_download,
               get_manifest_files, answer_message_box, begin_file, end_file, download_files,
               download_workshop_file, fetch_workshop_file, finish, mapDisk
  <2>2. get_outdated_files(title) = {}
    BY <1>1, <2>1 DEF IInv, DownloadInv
  <2> QED BY <2>2 DEF get_outdated_files
<1>2. IInv /\ [Next]_vars =>
        [marker' # marker => \A f \in MapFile : ~is_file_outdated(f, title)]_vars
  BY <1>1
<1> QED BY <1>2, AlwaysIInv, PTL DEF Spec, MarkerLast

-----------------------------------------------------------------------------
(* What an update leaves behind.                                           *)

LEMMA FilesSame ==
    ASSUME FilesInv, UNCHANGED <<data, pool, manifest, entries, unremoved, upd>>
    PROVE  FilesInv'
  BY DEF FilesInv

LEMMA FilesElse ==
    ASSUME upd' \notin {"cleanup", "files"}
    PROVE  FilesInv'
  BY DEF FilesInv

(* What is listed to be removed is all that is there and not listed.       *)
LEMMA ListedFiles ==
    ASSUME UpdaterInv, get_file_infos
    PROVE  FilesInv'
<1>1. CASE upd' = "done"
  BY <1>1, FilesElse
<1>2. CASE /\ upd' = "cleanup" /\ manifest' = server /\ entries' = list_files(server)
           /\ UNCHANGED data
  BY <1>2 DEF FilesInv, list_files
<1> QED BY <1>1, <1>2 DEF get_file_infos, disk

(* An entry is removed, or known not to be.                                *)
LEMMA CleanedFiles ==
    ASSUME UpdaterInv, FilesInv, NEW f \in DataFile, cleanup_directories(f)
    PROVE  FilesInv'
<1>1. /\ upd = "cleanup" /\ f \in entries /\ entries' = entries \ {f}
      /\ UNCHANGED <<upd, manifest>>
      /\ \/ data' = [data EXCEPT ![f] = Absent] /\ unremoved' = unremoved
         \/ data' = data /\ unremoved' = unremoved \union {f}
  BY DEF cleanup_directories
<1>2. \A g \in DataFile \ {f} : data'[g] = data[g]
  BY <1>1 DEF UpdaterInv, UpdaterTypeOK
<1>3. data'[f] = Absent \/ f \in unremoved'
  BY <1>1 DEF UpdaterInv, UpdaterTypeOK
<1>4. unremoved \subseteq unremoved'
  BY <1>1
<1>5. \A g \in DataFile \ Files[manifest] :
          data'[g] = Absent \/ g \in entries' \union unremoved'
  BY <1>1, <1>2, <1>3, <1>4 DEF FilesInv
<1> QED BY <1>1, <1>5 DEF FilesInv

LEMMA ComparedFiles ==
    ASSUME UpdaterInv, FilesInv, compare_files
    PROVE  FilesInv'
<1>1. /\ upd = "cleanup" /\ entries = {} /\ upd' \in {"move", "done", "files"}
      /\ UNCHANGED <<data, manifest, entries, unremoved>>
      /\ upd' = "files" => pool' = StartPool(get_outdated(manifest))
  BY DEF compare_files, disk
<1>2. CASE upd' # "files"
  BY <1>1, <1>2, FilesElse
<1>3. CASE upd' = "files"
  <2>1. pool'.left = get_outdated(manifest) /\ pool'.busy = {} /\ ~pool'.failed
    BY <1>1, <1>3 DEF StartPool
  <2>2. \A f \in DataFile \ Files[manifest] : data[f] = Absent \/ f \in entries \union unremoved
    BY <1>1 DEF FilesInv
  <2>3. \A f \in Files[manifest] \ get_outdated(manifest) : data[f] = manifest
    BY DEF get_outdated
  <2>4. get_outdated(manifest) \subseteq Files[manifest]
    BY DEF get_outdated
  <2> QED BY <1>1, <1>3, <2>1, <2>2, <2>3, <2>4 DEF FilesInv
<1> QED BY <1>2, <1>3

(* A worker that begins a file has opened it, or thrown.                   *)
LEMMA BeginFiles ==
    ASSUME UpdaterInv, FilesInv, NEW f \in DataFile, begin_update_file(f)
    PROVE  FilesInv'
<1>1. /\ upd = "files" /\ f \in pool.left
      /\ UNCHANGED <<upd, manifest, entries, unremoved>>
      /\ Files[manifest] \subseteq DataFile
  BY DataAssumption DEF begin_update_file, UpdaterInv, UpdaterTypeOK
<1>2. /\ \A g \in DataFile \ Files[manifest] : data[g] = Absent \/ g \in unremoved
      /\ entries = {}
      /\ pool.left \union pool.busy \subseteq Files[manifest]
      /\ \A g \in pool.busy : data[g] = Partial
      /\ ~pool.failed => \A g \in Files[manifest] \ (pool.left \union pool.busy) :
                            data[g] \in {manifest, Partial}
  BY <1>1 DEF FilesInv
<1>3. CASE data' = [data EXCEPT ![f] = Partial] /\ pool' = Take(pool, f)
  <2>1. /\ pool'.left = pool.left \ {f} /\ pool'.busy = pool.busy \union {f}
        /\ pool'.failed = pool.failed
    BY <1>3 DEF Take, UpdaterInv, UpdaterTypeOK, Pools
  <2>2. data'[f] = Partial /\ \A g \in DataFile \ {f} : data'[g] = data[g]
    BY <1>3 DEF UpdaterInv, UpdaterTypeOK
  <2>3. \A g \in DataFile \ Files[manifest] : data'[g] = Absent \/ g \in unremoved'
    BY <1>1, <1>2, <2>2
  <2>4. \A g \in pool'.busy : data'[g] = Partial
    BY <1>1, <1>2, <2>1, <2>2
  <2>5. ~pool'.failed => \A g \in Files[manifest] \ (pool'.left \union pool'.busy) :
                            data'[g] \in {manifest, Partial}
    BY <1>1, <1>2, <2>1, <2>2
  <2> QED BY <1>1, <1>2, <2>1, <2>3, <2>4, <2>5 DEF FilesInv
<1>4. CASE UNCHANGED data /\ pool' = Throw(Take(pool, f), f)
  <2>1. pool'.left \subseteq pool.left /\ pool'.busy \subseteq pool.busy /\ pool'.failed
    BY <1>4 DEF Take, Throw, UpdaterInv, UpdaterTypeOK, Pools
  <2> QED BY <1>1, <1>2, <1>4, <2>1 DEF FilesInv
<1> QED BY <1>3, <1>4 DEF begin_update_file

(* One that ends it has written it, as far as there was room.              *)
LEMMA EndFiles ==
    ASSUME UpdaterInv, FilesInv, NEW f \in DataFile, end_update_file(f)
    PROVE  FilesInv'
<1>1. /\ upd = "files" /\ f \in pool.busy
      /\ UNCHANGED <<upd, manifest, entries, unremoved>>
      /\ Files[manifest] \subseteq DataFile /\ pool' = End(pool, f)
      /\ data' = [data EXCEPT ![f] = manifest] \/ UNCHANGED data
  BY DataAssumption DEF end_update_file, UpdaterInv, UpdaterTypeOK
<1>2. /\ \A g \in DataFile \ Files[manifest] : data[g] = Absent \/ g \in unremoved
      /\ entries = {}
      /\ pool.left \union pool.busy \subseteq Files[manifest]
      /\ \A g \in pool.busy : data[g] = Partial
      /\ ~pool.failed => \A g \in Files[manifest] \ (pool.left \union pool.busy) :
                            data[g] \in {manifest, Partial}
  BY <1>1 DEF FilesInv
<1>3. /\ pool'.left = pool.left /\ pool'.busy = pool.busy \ {f}
      /\ pool'.failed = pool.failed
  BY <1>1 DEF End, UpdaterInv, UpdaterTypeOK, Pools
<1>4. data'[f] \in {manifest, Partial} /\ \A g \in DataFile \ {f} : data'[g] = data[g]
  BY <1>1, <1>2 DEF UpdaterInv, UpdaterTypeOK
<1>5. \A g \in DataFile \ Files[manifest] : data'[g] = Absent \/ g \in unremoved'
  BY <1>1, <1>2, <1>4
<1>6. \A g \in pool'.busy : data'[g] = Partial
  BY <1>1, <1>2, <1>3, <1>4
<1>7. ~pool'.failed => \A g \in Files[manifest] \ (pool'.left \union pool'.busy) :
                          data'[g] \in {manifest, Partial}
  BY <1>1, <1>2, <1>3, <1>4
<1> QED BY <1>1, <1>2, <1>3, <1>5, <1>6, <1>7 DEF FilesInv

LEMMA FilesInvStep ==
    ASSUME IInv, FilesInv, [Next]_vars
    PROVE  FilesInv'
<1>0. UpdaterInv
  BY Split
<1>1. CASE delete_old_process_file
  BY <1>1, FilesElse DEF delete_old_process_file
<1>2. CASE move_host \/ fetch_host \/ write_host \/ restore_host \/ relaunch_self
  BY <1>2, FilesElse DEF move_host, fetch_host, write_host, restore_host, relaunch_self
<1>3. CASE update_files_joined
  BY <1>3, FilesElse DEF update_files_joined
<1>4. CASE Start \/ activate \/ premature_shutdown \/ exit_process \/ Killed
  BY <1>4, FilesElse DEF Start, activate, premature_shutdown, exit_process, Killed
<1>5. CASE UNCHANGED updater /\ UNCHANGED disk
  BY <1>5, FilesSame DEF updater, disk
<1>6. CASE post_unpack \/ exit_hook \/ Publish \/ OldProcessEnds \/ UNCHANGED updaterVars
  BY <1>5, <1>6 DEF post_unpack, exit_hook, Publish, OldProcessEnds, updaterVars
<1> QED
  BY <1>0, <1>1, <1>2, <1>3, <1>4, <1>6, ListedFiles, CleanedFiles, ComparedFiles,
     BeginFiles, EndFiles
     DEF Next, Starting, file_updater, Play, main, player, async, Leave,
         pre_destroy_fastdl, pre_destroy_scheduler, Exit, Kill, Elsewhere, vars

LEMMA AlwaysFilesInv == Spec => []FilesInv
<1>1. Init => FilesInv
  BY FilesElse DEF Init, UpdaterInit, FilesInv
<1> QED BY <1>1, FilesInvStep, AlwaysIInv, PTL DEF Spec

LEMMA JoinedFiles ==
    ASSUME UpdaterInv, FilesInv, [Next]_vars, upd' = "done",
           upd = "cleanup" \/ (upd = "files" /\ ~pool.failed)
    PROVE  NoneOld(manifest)
<1>1. update_files_joined \/ compare_files
  BY DEF Next, Starting, file_updater, Play, main, player, async, Leave, exit_hook,
         pre_destroy_fastdl, pre_destroy_scheduler, Exit, Kill, Elsewhere, vars, updaterVars,
         updater, Start, activate, premature_shutdown, exit_process, Killed, post_unpack,
         Publish, OldProcessEnds, delete_old_process_file, get_file_infos,
         cleanup_directories, move_host, fetch_host, write_host, restore_host, relaunch_self, begin_update_file, end_update_file
<1>2. Files[manifest] \subseteq DataFile
  BY DataAssumption DEF UpdaterInv, UpdaterTypeOK
<1>3. CASE update_files_joined
  <2>1. upd = "files" /\ ~pool.failed /\ pool.busy = {} /\ pool.left = {}
    BY <1>3 DEF update_files_joined, Joined
  <2> QED BY <1>2, <2>1 DEF FilesInv, NoneOld
<1>4. CASE compare_files
  <2>1. upd = "cleanup" /\ entries = {} /\ get_outdated(manifest) = {}
    BY <1>4 DEF compare_files
  <2> QED BY <1>2, <2>1 DEF FilesInv, NoneOld, get_outdated
<1> QED BY <1>1, <1>3, <1>4

(* An update that threw nothing leaves no file of another release, but     *)
(* those whose removal failed.                                             *)
THEOREM NothingOld == Spec => OldReplaced
<1>1. IInv /\ FilesInv /\ [Next]_vars =>
        [/\ upd' = "done"
         /\ upd = "cleanup" \/ (upd = "files" /\ ~pool.failed)
         => NoneOld(manifest)]_vars
  BY Split, JoinedFiles
<1> QED BY <1>1, AlwaysIInv, AlwaysFilesInv, PTL DEF Spec, OldReplaced

-----------------------------------------------------------------------------
(* What the exit finds.                                                    *)

LEMMA ExitSame ==
    ASSUME ExitInv, UNCHANGED <<active, pc, jobs, destroyed, phase>>
    PROVE  ExitInv'
  BY DEF ExitInv

(* Every step of the download knows whether it is its last one.            *)
LEMMA DownloadExit ==
    ASSUME IInv, ExitInv, main \/ player \/ async
    PROVE  ExitInv'
<1>1. UNCHANGED <<phase, destroyed>> /\ phase \in {"play", "destroy"}
  BY DEF main, player, async, updaterVars, close_progress, ending
<1>2. jobs \in Nat /\ pc \in {"idle", "manifest", "ask", "files", "workshop", "fetch", "write"}
  BY DEF IInv, TypeOK, FastDLTypeOK
<1>3. CASE check_valid_usermap_id /\ phase = "play"
  <2>1. UNCHANGED <<active, pc>>
    BY <1>3 DEF check_valid_usermap_id
  <2> QED BY <1>1, <1>3, <2>1 DEF ExitInv
<1>4. CASE success_callback \/ close_progress
  <2>1. UNCHANGED <<active, pc, jobs>>
    BY <1>4 DEF success_callback, close_progress, job
  <2> QED BY <1>1, <2>1, ExitSame
<1>5. CASE begin_download
  <2>1. pc = "idle" /\ jobs > 0 /\ active' = TRUE /\ pc' = "manifest"
    BY <1>5 DEF begin_download
  <2>2. jobs # 0
    BY <1>2, <2>1
  <2> QED BY <1>1, <2>1, <2>2 DEF ExitInv
<1>6. CASE perform_download /\ ~begin_download
  <2>1. pc # "idle" /\ UNCHANGED jobs
    BY <1>6 DEF perform_download, awaited, computed, get_manifest_files,
                answer_message_box, begin_file, end_file, download_files,
                download_workshop_file, fetch_workshop_file, finish
  <2>2. (~active' /\ pc' = "idle") \/ (UNCHANGED active /\ pc' # "idle")
    BY <1>2, <1>6 DEF perform_download, awaited, computed, get_manifest_files,
                answer_message_box, begin_file, end_file, download_files,
                download_workshop_file, fetch_workshop_file, finish, Ends
  <2>3. ~(active' <=> pc' = "idle")
    BY <2>1, <2>2 DEF ExitInv
  <2> QED BY <1>1, <2>1, <2>2, <2>3 DEF ExitInv
<1> QED BY <1>3, <1>4, <1>5, <1>6 DEF main, player, async

LEMMA ExitInvStep ==
    ASSUME IInv, ExitInv, [Next]_vars
    PROVE  ExitInv'
<1>1. CASE Starting
  <2>1. UNCHANGED <<active, pc, jobs, destroyed>>
    BY <1>1 DEF Starting, fastdlVars, job, ending
  <2>2. phase \notin {"play", "destroy"}
    BY <1>1 DEF IInv, PlayInv, Starting, Start, file_updater, activate,
              premature_shutdown, delete_old_process_file, get_file_infos, compare_files,
              cleanup_directories, move_host, fetch_host,
              write_host, restore_host, relaunch_self, begin_update_file,
              end_update_file, update_files_joined
  <2> QED BY <2>1, <2>2 DEF ExitInv
<1>2. CASE Play
  BY <1>2 DEF Play, post_unpack, job, ending, ExitInv
<1>3. CASE Leave
  BY <1>3 DEF Leave, exit_hook, fastdlVars, job, ending, ExitInv
<1>4. CASE Exit \/ Kill
  BY <1>4 DEF Exit, Kill, Anew, ExitInv
<1>5. CASE pre_destroy_fastdl
  BY <1>5 DEF pre_destroy_fastdl, cancel_download, updaterVars, ExitInv
<1>6. CASE pre_destroy_scheduler
  BY <1>6 DEF pre_destroy_scheduler, updaterVars, ExitInv
<1>7. CASE Elsewhere \/ UNCHANGED vars
  BY <1>7, ExitSame DEF Elsewhere, Publish, OldProcessEnds, PublishMap, vars, updaterVars,
                        updater, fastdlVars, job, ending
<1> QED BY <1>1, <1>2, <1>3, <1>4, <1>5, <1>6, <1>7, DownloadExit DEF Next

LEMMA AlwaysExitInv == Spec => []ExitInv
<1>1. Init => ExitInv
  BY DEF Init, UpdaterInit, FastDLInit, ExitInv
<1> QED BY <1>1, ExitInvStep, AlwaysIInv, PTL DEF Spec

(* No exit but a kill cuts off an update or a download.                    *)
THEOREM NothingCutOff == Spec => ExitUncut
<1>1. IInv /\ ExitInv => (Exit => upd = "done" /\ ~active /\ jobs = 0)
  BY DEF IInv, PlayInv, ExitInv, Exit, exit_process
<1>2. IInv /\ ExitInv /\ [Next]_vars => [Exit => upd = "done" /\ ~active /\ jobs = 0]_vars
  BY <1>1
<1> QED BY <1>2, AlwaysIInv, AlwaysExitInv, PTL DEF Spec, ExitUncut

-----------------------------------------------------------------------------
(* What cancel_download and a kill in the middle of replacing do.          *)

LEMMA CalledOffStep ==
    ASSUME IInv, ExitInv, CalledOffInv, [Next]_vars
    PROVE  CalledOffInv'
<1> USE DEF CalledOffInv, ending, job
<1>1. CASE Starting \/ Play \/ Leave \/ Elsewhere \/ UNCHANGED vars
  BY <1>1 DEF Starting, Play, Leave, Elsewhere, PublishMap, vars, fastdlVars
<1>2. CASE Exit \/ Kill
  BY <1>2 DEF Exit, Kill
<1>3. CASE main \/ player
  BY <1>3 DEF main, player, check_valid_usermap_id, success_callback, close_progress
<1>4. CASE async
  <2>1. called_off' => called_off /\ active'
    BY <1>4 DEF async
  <2>2. CASE begin_download
    BY <1>4, <2>1, <2>2 DEF begin_download, ExitInv
  <2>3. CASE perform_download /\ ~begin_download
    <3>1. cancelled => cancelled'
      BY <2>3 DEF perform_download, awaited, computed, get_manifest_files,
         answer_message_box, begin_file, handle_cancellation, end_file, download_files,
         download_workshop_file, fetch_workshop_file, finish
    <3> QED BY <2>1, <3>1
  <2> QED BY <1>4, <2>2, <2>3 DEF async
<1>5. CASE pre_destroy_fastdl
  BY <1>5 DEF pre_destroy_fastdl, cancel_download
<1>6. CASE pre_destroy_scheduler
  BY <1>6 DEF pre_destroy_scheduler
<1> QED BY <1>1, <1>2, <1>3, <1>4, <1>5, <1>6 DEF Next

LEMMA AlwaysCalledOffInv == Spec => []CalledOffInv
<1>1. Init => CalledOffInv
  BY DEF Init, CalledOffInv
<1> QED BY <1>1, CalledOffStep, AlwaysIInv, AlwaysExitInv, PTL DEF Spec

LEMMA CalledOffBegins ==
    ASSUME IInv, CalledOffInv, [Next]_vars, called_off
    PROVE  dl'.busy \subseteq dl.busy /\ (pc' = "fetch" => pc = "fetch")
<1>1. cancelled /\ dl \in Pools(MapFile)
  BY DEF CalledOffInv, IInv, TypeOK, FastDLTypeOK
<1>2. CASE Exit \/ Kill
  BY <1>2 DEF Exit, Kill, Anew, NoPool
<1>3. CASE UNCHANGED <<dl, pc>>
  BY <1>3
<1>4. CASE perform_download
  <2>1. ASSUME NEW f \in MapFile, begin_file(f)
        PROVE  dl'.busy \subseteq dl.busy /\ UNCHANGED pc
    <3>1. dl' = Throw(Take(dl, f), f)
      BY <1>1, <2>1 DEF begin_file, handle_cancellation
    <3> QED BY <1>1, <2>1, <3>1 DEF begin_file, Take, Throw, Pools
  <2>2. ASSUME NEW f \in MapFile, end_file(f)
        PROVE  dl'.busy \subseteq dl.busy /\ UNCHANGED pc
    <3>1. dl' = End(dl, f)
      BY <1>1, <2>2 DEF end_file
    <3> QED BY <1>1, <2>2, <3>1 DEF end_file, End, Pools
  <2>3. CASE begin_download \/ get_manifest_files \/ fetch_workshop_file \/ finish
    BY <2>3 DEF begin_download, get_manifest_files, fetch_workshop_file, finish, Ends
  <2>4. CASE download_workshop_file
    BY <1>1, <2>4 DEF download_workshop_file, Ends
  <2>5. CASE answer_message_box \/ download_files
    BY <2>5 DEF answer_message_box, download_files, StartPool, NoPool, Ends
  <2> QED BY <1>4, <2>1, <2>2, <2>3, <2>4, <2>5 DEF perform_download, awaited, computed
<1> QED
  BY <1>2, <1>3, <1>4 DEF Next, Starting, Play, main, player, async, Leave, Elsewhere,
     pre_destroy_fastdl, pre_destroy_scheduler, PublishMap, vars, fastdlVars, job,
     check_valid_usermap_id, success_callback, close_progress, cancel_download

(* A download that is under way when fastdl's pre_destroy comes begins no  *)
(* further file, at whichever of its steps it is found.                    *)
THEOREM CalledOffForGood == Spec => BeginsNoMore
<1>1. IInv /\ CalledOffInv /\ [Next]_vars =>
        [called_off => /\ dl'.busy \subseteq dl.busy
                       /\ pc' = "fetch" => pc = "fetch"]_vars
  BY CalledOffBegins
<1> QED BY <1>1, AlwaysIInv, AlwaysCalledOffInv, PTL DEF Spec, BeginsNoMore

LEMMA Strands ==
    ASSUME IInv, [Next]_vars, ~Stranded, Stranded'
    PROVE  \/ Killed /\ upd \in {"fetch_host", "restore", "write_host", "relaunch"}
           \/ relaunch_self /\ exe = Partial
<1>0. UpdaterInv
  BY Split
<1>1. CASE phase = "off"
  <2>1. upd = "none" /\ Complete(exe)
    BY <1>0, <1>1 DEF UpdaterInv, PlayInv, Stranded
  <2>2. phase' # "off" \/ exe' = exe
    BY <1>1, <2>1 DEF Next, Starting, file_updater, Play, main, player, async, Leave, exit_hook,
       pre_destroy_fastdl, pre_destroy_scheduler, Exit, Kill, Elsewhere, vars, updaterVars,
       disk, Start, activate, premature_shutdown, exit_process, Killed, post_unpack,
       Publish, OldProcessEnds, delete_old_process_file, get_file_infos,
       cleanup_directories, compare_files, move_host, fetch_host, write_host,
       restore_host, relaunch_self, begin_update_file, end_update_file, update_files_joined
  <2> QED BY <2>1, <2>2 DEF Stranded, Complete
<1>2. CASE phase # "off"
  <2>1. phase' = "off" /\ ~Complete(exe')
    BY DEF Stranded, Complete
  <2>2. relaunch_self \/ activate \/ premature_shutdown \/ exit_process \/ Killed
    BY <1>2, <2>1 DEF Next, Starting, file_updater, Play, main, player, async, Leave, exit_hook,
       pre_destroy_fastdl, pre_destroy_scheduler, Exit, Kill, Elsewhere, vars, updaterVars,
       disk, Start, post_unpack, Publish, OldProcessEnds, delete_old_process_file,
       get_file_infos, cleanup_directories, compare_files, move_host, fetch_host,
       write_host, restore_host, begin_update_file, end_update_file, update_files_joined
  <2>3. exe' = exe /\ ~Complete(exe)
    BY <2>1, <2>2 DEF relaunch_self, activate, premature_shutdown, exit_process, Killed, disk
  <2>4. upd \in {"fetch_host", "restore", "write_host", "relaunch"} \/ upd = "none"
    BY <1>0, <2>3 DEF UpdaterInv, UpdaterTypeOK, HostInv
  <2>5. CASE activate \/ premature_shutdown \/ exit_process
    BY <1>0, <2>4, <2>5 DEF activate, premature_shutdown, join_update_thread, exit_process,
       UpdaterInv, PlayInv
  <2>6. CASE relaunch_self
    BY <1>0, <2>3, <2>6 DEF relaunch_self, UpdaterInv, UpdaterTypeOK, HostInv, Complete
  <2>7. CASE Killed
    BY <1>0, <2>4, <2>7 DEF Killed, UpdaterInv, PlayInv
  <2> QED BY <2>2, <2>5, <2>6, <2>7
<1> QED BY <1>1, <1>2

(* A player is left without a host binary that can be started only by a    *)
(* kill while it is replaced, or by a disk too full for the new one.       *)
THEOREM StrandedInReplacing == Spec => OnlyReplacingStrands
<1>1. IInv /\ [Next]_vars =>
        [~Stranded /\ Stranded' =>
            \/ Killed /\ upd \in {"fetch_host", "restore", "write_host", "relaunch"}
            \/ relaunch_self /\ exe = Partial]_vars
  BY Strands
<1> QED BY <1>1, AlwaysIInv, PTL DEF Spec, OnlyReplacingStrands
=============================================================================
