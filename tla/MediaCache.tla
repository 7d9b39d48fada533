------------------------------ MODULE MediaCache ------------------------------
(***************************************************************************)
(* The cache of thumbnails (media_cache.py, views/image_resize.py): a      *)
(* directory, the list of its files by age and their total size, which the *)
(* requests of all threads change without a lock.                          *)
(*                                                                         *)
(* One action is one access to the disk, or a statement that changes the   *)
(* list or the size.  While CPython sorts a list it is empty for others;   *)
(* what is appended meanwhile is lost, with a ValueError for who sorts.    *)
(***************************************************************************)
EXTENDS Integers, Sequences, FiniteSets

CONSTANTS Threads,
          Paths,          \* of images; a thumbnail has the name of a hash of its path
          Sizes,          \* a thumbnail may have, positive
          MaxCacheSize,
          MaxSaves        \* bounds the thumbnails written and the restarts

VARIABLES
    disk,       \* disk[p]: size and time of the thumbnail of p
    files,      \* MediaCache.files: path and size
    size,       \* MediaCache.size
    thread,     \* thread[t]: where a request is, its path, and the list it sorts
    saves,      \* how many thumbnails were written
    clean       \* history: no requests overlapped, no write failed, since the last start

vars == <<disk, files, size, thread, saves, clean>>

Idle == [pc |-> "idle", path |-> "", list |-> <<>>]
Entry(p) == [path |-> p, size |-> disk[p].size]

\* get_files: the files of the directory, the oldest first.
ByAge(n) == CHOOSE p \in DOMAIN disk : Cardinality({q \in DOMAIN disk : disk[q].time < disk[p].time}) = n - 1
Listing == [n \in 1..Cardinality(DOMAIN disk) |-> Entry(ByAge(n))]

\* get_files_size
Total(list) ==
    LET sum[n \in 0..Len(list)] == IF n = 0 THEN 0 ELSE sum[n - 1] + list[n].size
    IN sum[Len(list)]

\* sort_files: by time, entries of one time stay in their order.
Before(list, m, n) ==
    LET time(k) == disk[list[k].path].time IN time(m) < time(n) \/ (time(m) = time(n) /\ m < n)
Place(list, n) == CHOOSE m \in DOMAIN list : Cardinality({k \in DOMAIN list : Before(list, k, m)}) = n - 1
Sorted(list) == [n \in DOMAIN list |-> list[Place(list, n)]]

Init ==
    /\ disk = <<>> /\ files = <<>> /\ size = 0
    /\ thread = [t \in Threads |-> Idle]
    /\ saves = 0 /\ clean = TRUE

Goto(t, pc) == thread' = [thread EXCEPT ![t].pc = pc]
At(t, pc) == thread[t].pc = pc
End(t) == thread' = [thread EXCEPT ![t] = Idle]

-----------------------------------------------------------------------------
(* ImageResizeView.get                                                     *)

\* cache.exists: a thumbnail on the disk is answered as it is.
Resize(t, p) ==
    /\ At(t, "idle") /\ p \notin DOMAIN disk /\ saves < MaxSaves
    /\ thread' = [thread EXCEPT ![t] = [pc |-> "clear", path |-> p, list |-> <<>>]]
    /\ clean' = (clean /\ \A u \in Threads : At(u, "idle"))
    /\ UNCHANGED <<disk, files, size, saves>>

\* clear_cache_if_needed; an index or a file that is gone ends the request.
ClearEnough(t) ==
    /\ At(t, "clear") /\ size <= MaxCacheSize
    /\ Goto(t, "save")
    /\ UNCHANGED <<disk, files, size, saves, clean>>

Delete(t) ==
    /\ At(t, "clear") /\ size > MaxCacheSize
    /\ IF files = <<>> \/ Head(files).path \notin DOMAIN disk
       THEN End(t) /\ disk' = disk
       ELSE /\ disk' = [p \in DOMAIN disk \ {Head(files).path} |-> disk[p]]
            /\ Goto(t, "subtract")
    /\ UNCHANGED <<files, size, saves, clean>>

Subtract(t) ==
    /\ At(t, "subtract")
    /\ IF files = <<>> THEN End(t) /\ size' = size
       ELSE size' = size - Head(files).size /\ Goto(t, "remove")
    /\ UNCHANGED <<disk, files, saves, clean>>

Unlist(t) ==
    /\ At(t, "remove")
    /\ IF files = <<>> THEN End(t) /\ files' = files
       ELSE files' = Tail(files) /\ Goto(t, "clear")
    /\ UNCHANGED <<disk, size, saves, clean>>

\* create_thumbnail: the file has a part of its bytes when writing fails, and none is
\* written of what is no image.
Save(t) ==
    /\ At(t, "save")
    /\ \E s \in Sizes :
        disk' = [p \in DOMAIN disk \cup {thread[t].path} |->
                    IF p = thread[t].path THEN [size |-> s, time |-> saves] ELSE disk[p]]
    /\ saves' = saves + 1
    /\ \/ Goto(t, "append") /\ clean' = clean
       \/ End(t) /\ clean' = FALSE
    /\ UNCHANGED <<files, size>>

NoImage(t) ==
    /\ At(t, "save") /\ End(t)
    /\ UNCHANGED <<disk, files, size, saves, clean>>

\* A mistake to compare with: the file is listed, its size is forgotten.
AppendForgetsSize(t) ==
    /\ At(t, "append")
    /\ files' = Append(files, Entry(thread[t].path))
    /\ Goto(t, "sort")
    /\ UNCHANGED <<disk, size, saves, clean>>

\* add_file: the size is read from the disk.
AppendFile(t) ==
    /\ At(t, "append")
    /\ IF thread[t].path \notin DOMAIN disk THEN End(t) /\ UNCHANGED <<files, size>>
       ELSE /\ files' = Append(files, Entry(thread[t].path))
            /\ size' = size + disk[thread[t].path].size
            /\ Goto(t, "sort")
    /\ UNCHANGED <<disk, saves, clean>>

SortBegins(t) ==
    /\ At(t, "sort")
    /\ files' = <<>>
    /\ thread' = [thread EXCEPT ![t].pc = "sorting", ![t].list = files]
    /\ UNCHANGED <<disk, size, saves, clean>>

\* The modification time of a file that is gone is an error: the order stays.  What
\* others appended meanwhile is dropped.
SortEnds(t) ==
    /\ At(t, "sorting")
    /\ LET list == thread[t].list
           gone == \E n \in DOMAIN list : list[n].path \notin DOMAIN disk
       IN files' = IF gone THEN list ELSE Sorted(list)
    /\ End(t)
    /\ UNCHANGED <<disk, size, saves, clean>>

\* A new process finds the files of the old one (update_files).
Restart ==
    /\ saves < MaxSaves
    /\ files' = Listing /\ size' = Total(Listing)
    /\ thread' = [t \in Threads |-> Idle]
    /\ clean' = TRUE
    /\ UNCHANGED <<disk, saves>>

Step(t) ==
    \/ \E p \in Paths : Resize(t, p)
    \/ ClearEnough(t) \/ Delete(t) \/ Subtract(t) \/ Unlist(t)
    \/ Save(t) \/ NoImage(t) \/ AppendFile(t) \/ SortBegins(t) \/ SortEnds(t)

Next == Restart \/ \E t \in Threads : Step(t)

Spec == Init /\ [][Next]_vars

-----------------------------------------------------------------------------
(* Properties                                                              *)

\* Whatever a restart finds, while requests come one by one and their writes succeed the
\* cache lists each file of its directory once, the oldest first, knows their total size,
\* and keeps it within the limit up to the file that is being added.
CacheAccounts ==
    clean /\ (\A t \in Threads : At(t, "idle") \/ At(t, "save")) =>
        /\ files = Listing
        /\ size = Total(files)
        /\ (\E t \in Threads : At(t, "save")) => size <= MaxCacheSize
=============================================================================
