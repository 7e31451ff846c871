-------------------------------- MODULE Files --------------------------------
(***************************************************************************)
(* The File extension: foreign objects that own a C FILE, closed by the    *)
(* program or else by the finaliser, and File.read, which reads a file of  *)
(* unknown length chunk by chunk into a buffer that grows.                 *)
(***************************************************************************)
EXTENDS Naturals

CONSTANTS FileObjects, NONE,
          Chunk,     \* READ_CHUNK_SIZE
          MaxReads,  \* bound: the full chunks of a file
          MaxCloses  \* bound: the calls of fclose() by the program, per file

ASSUME FilesAssumption == Chunk \in Nat

VARIABLES
    closed,     \* the flag of each ExtIOFile
    state,      \* of each object: "unmade", "live" or "freed"
    fcloses,    \* how often its FILE has been given to fclose()
    failed,     \* those for which an fclose() reported an error
    reading,    \* the file that File_read reads, or NONE
    n, bufsz    \* the bytes read, and those allocated

files    == <<closed, state, fcloses, failed>>
buffer   == <<reading, n, bufsz>>
fileVars == <<files, buffer>>

FilesInit == /\ closed = [f \in FileObjects |-> FALSE]
             /\ state = [f \in FileObjects |-> "unmade"]
             /\ fcloses = [f \in FileObjects |-> 0] /\ failed = {}
             /\ reading = NONE /\ n = 0 /\ bufsz = 0

\* No C function is under way.
NotReading == reading = NONE

-----------------------------------------------------------------------------
\* fopen() succeeded: had it not, nothing would have changed.
File_new(f) == /\ NotReading /\ state[f] = "unmade"
               /\ state' = [state EXCEPT ![f] = "live"]
               /\ closed' = [closed EXCEPT ![f] = FALSE]
               /\ UNCHANGED <<fcloses, failed, buffer>>

\* fclose(), which may report an error.
Fclose(f, ok) == /\ fcloses' = [fcloses EXCEPT ![f] = @ + 1]
                 /\ failed' = IF ok THEN failed ELSE failed \cup {f}

MutantClose(f) ==   \* a file that was closed is not marked so
    /\ NotReading /\ state[f] = "live"
    /\ IF closed[f] THEN UNCHANGED <<fcloses, failed>>
       ELSE fcloses[f] < MaxCloses /\ \E ok \in BOOLEAN : Fclose(f, ok)
    /\ UNCHANGED <<closed, state, buffer>>

File_close(f) ==
    /\ NotReading /\ state[f] = "live"
    /\ \/ closed[f] /\ UNCHANGED <<closed, fcloses, failed>>
       \/ /\ ~closed[f] /\ fcloses[f] < MaxCloses
          /\ \E ok \in BOOLEAN :
                Fclose(f, ok) /\ closed' = IF ok THEN [closed EXCEPT ![f] = TRUE] ELSE closed
    /\ UNCHANGED <<state, buffer>>

\* Once the object is unreachable, or when the VM is freed.
extio_file_free(f) ==
    /\ NotReading /\ state[f] = "live"
    /\ state' = [state EXCEPT ![f] = "freed"]
    /\ IF closed[f] THEN UNCHANGED <<fcloses, failed>> ELSE \E ok \in BOOLEAN : Fclose(f, ok)
    /\ UNCHANGED <<closed, buffer>>

-----------------------------------------------------------------------------
(* File.read.                                                              *)

Resize(size) == bufsz' = size
EndRead == reading' = NONE /\ n' = 0 /\ bufsz' = 0

\* The file need not be open: nothing asks for it.
File_read(f) == /\ NotReading /\ state[f] = "live"
                /\ reading' = f /\ n' = 0 /\ Resize(Chunk)
                /\ UNCHANGED files

MutantFull ==   \* the buffer grows only when all of it is in use
    /\ ~NotReading /\ n < MaxReads * Chunk
    /\ n' = n + Chunk
    /\ Resize(IF bufsz < n' THEN 2 * bufsz ELSE bufsz)
    /\ UNCHANGED <<files, reading>>

\* fread() fills a chunk, and the buffer grows for the next.
FullChunk == /\ ~NotReading /\ n < MaxReads * Chunk
             /\ n' = n + Chunk
             /\ Resize(IF bufsz < n' + Chunk THEN 2 * bufsz ELSE bufsz)
             /\ UNCHANGED <<files, reading>>

\* The last chunk, after which the buffer is trimmed and handed to a string,
\* or an error, after which it is freed.
LastChunk == ~NotReading /\ EndRead /\ UNCHANGED files

FilesNext == \/ \E f \in FileObjects : \/ File_new(f) \/ File_close(f)
                                       \/ extio_file_free(f) \/ File_read(f)
             \/ FullChunk \/ LastChunk

FilesSpec == FilesInit /\ [][FilesNext]_fileVars

-----------------------------------------------------------------------------
FilesTypeOK == /\ closed \in [FileObjects -> BOOLEAN]
               /\ state \in [FileObjects -> {"unmade", "live", "freed"}]
               /\ fcloses \in [FileObjects -> Nat] /\ failed \subseteq FileObjects
               /\ reading \in FileObjects \cup {NONE} /\ n \in Nat /\ bufsz \in Nat

\* A FILE is closed once its object is freed, by then at the latest, and it is
\* given to fclose() a second time only when an fclose() has failed.
ClosedOnce == \A f \in FileObjects :
                 /\ state[f] = "freed" => fcloses[f] >= 1
                 /\ fcloses[f] > 1 => f \in failed

\* Whenever fread() is called, the buffer has room for a chunk, which is
\* more than the NUL needs.
BufferFits == ~NotReading => n + Chunk <= bufsz
=============================================================================
