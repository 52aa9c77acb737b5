------------------------------- MODULE Stdio --------------------------------
(***************************************************************************)
(* The streams of the run-time library (runtime/src/stdio.c).  Every       *)
(* operation is carried out by the host the core is simulated on or        *)
(* connected to; the library keeps a table of FOPEN_MAX FILE objects, each *)
(* with the host's number of the stream, and turns the host's answer into  *)
(* a result and errno.  Without a host the answer is what the library put  *)
(* into the arguments before the call (STDIO_SAFE_NOHOSTED).               *)
(***************************************************************************)
EXTENDS Integers

CONSTANTS
  FOPEN_MAX,    \* 16 in the source
  StdFiles,     \* the FILE objects of stdin, stdout and stderr
  Stream,       \* the host's stream numbers
  NoStream

ASSUME FilesAssumption == FOPEN_MAX \in Nat /\ StdFiles \cap 0 .. FOPEN_MAX - 1 = {}
ASSUME StreamAssumption == NoStream \notin Stream

VARIABLES
  hosted,   \* whether there is a host
  files,    \* the FILE objects: _hosted_clib_files, _stdin, _stdout, _stderr
  errno,
  result,   \* of the last call: "ok" or "failed"
  open,     \* the streams the host has open
  held,     \* history: the stream behind each FILE the program has
  lost      \* history: the FILEs a failed freopen took from the program

streamVars == <<hosted, files, errno, result, open, held, lost>>

Pool == 0 .. FOPEN_MAX - 1
File == Pool \cup StdFiles

StreamsInit ==
  /\ hosted \in BOOLEAN
  /\ \E std \in [StdFiles -> Stream] :
       /\ \A f, g \in StdFiles : f # g => std[f] # std[g]
       /\ files = [f \in File |-> IF f \in StdFiles
                                  THEN [stream |-> std[f], in_use |-> TRUE]
                                  ELSE [stream |-> NoStream, in_use |-> FALSE]]
       /\ held = [f \in File |-> IF f \in StdFiles THEN std[f] ELSE NoStream]
       /\ open = IF hosted THEN {std[f] : f \in StdFiles} ELSE {}
  /\ errno = "none"
  /\ result = "ok"
  /\ lost = {}

(* The operations on a FILE, by what their result is made of. *)
Positions == {"fflush", "fseek", "ftell", "feof", "ferror", "clearerr"}
Formatted == {"vfprintf", "vfscanf"}
Characters == {"fputc", "ungetc", "fputs", "fgetc", "fgets"}
Items == {"fwrite", "fread", "fwrite_word", "fread_word"}

(* The operations on a path or a descriptor. *)
Paths == {"remove", "rename"}
Descriptors == {"mkstemp", "close"}

(* On memory, and those with no argument to find a stream by. *)
Texts == {"vsprintf", "vsnprintf", "vsscanf"}
Streamless == {"fflush", "perror"}
Lines == {"gets"}

(* Those that open a FILE. *)
Opens == {"fopen", "tmpfile", "fdopen"}

NoResult == {"clearerr", "perror"}

(* What stands for success if nobody answers: stream_rt = 0 where 0 is OK, *)
(* and operations that have no result.                                     *)
OkUnanswered == Paths \cup Descriptors \cup NoResult \cup {"fdopen"}

(* Operations that leave errno alone, whatever comes back. *)
NoErrno ==
  Formatted \cup Texts \cup Characters \cup Lines \cup Items \cup NoResult \cup {"ferror", "mkstemp"}

(* The host carries out a call, or does not. *)
HostDoes == IF hosted THEN BOOLEAN ELSE {FALSE}

Reported(op, done) == IF hosted THEN done \/ op \in NoResult ELSE op \in OkUnanswered

Report(op, done, error) ==
  /\ result' = IF Reported(op, done) THEN "ok" ELSE "failed"
  /\ errno' = IF Reported(op, done) \/ op \in NoErrno THEN errno ELSE error

(* The host's reason, or the one the library put there. *)
HostError == IF hosted THEN "host" ELSE "EBADF"

(* Any operation on a FILE the program has but its opening and closing:    *)
(* the host is given its stream.                                           *)
Use(f, op) ==
  /\ held[f] # NoStream
  /\ \E done \in HostDoes : (done => files[f].stream \in open) /\ Report(op, done, HostError)
  /\ UNCHANGED <<hosted, files, open, held, lost>>

(* An operation that is given no FILE. *)
UseHost(op) ==
  /\ \E done \in HostDoes : Report(op, done, HostError)
  /\ UNCHANGED <<hosted, files, open, held, lost>>

Unused == {f \in Pool : ~files[f].in_use}
FirstUnused == CHOOSE f \in Unused : \A g \in Unused : f <= g

TableFull(op) ==
  /\ Unused = {}
  /\ op \in Opens
  /\ result' = "failed"
  /\ errno' = "EMFILE"
  /\ UNCHANGED <<hosted, files, open, held, lost>>

(* Fault: the FILE is taken before the host has opened the stream. *)
OpenTakesFirst(op, done, id) ==
  LET idx == FirstUnused
  IN  /\ Unused # {}
      /\ done => id \notin open
      /\ Report(op, done, HostError)
      /\ open' = IF done THEN open \cup {id} ELSE open
      /\ files' = [files EXCEPT ![idx] = [stream |-> id, in_use |-> TRUE]]
      /\ held' = IF Reported(op, done) THEN [held EXCEPT ![idx] = id] ELSE held
      /\ UNCHANGED <<hosted, lost>>

(* fopen, tmpfile and fdopen: the first FILE that is not in use.  An       *)
(* fdopen that nobody answers succeeds: the descriptor passes for a stream. *)
Open(op, done, id) ==
  LET idx == FirstUnused
  IN  /\ Unused # {}
      /\ done => id \notin open
      /\ Report(op, done, HostError)
      /\ open' = IF done THEN open \cup {id} ELSE open
      /\ IF Reported(op, done)
         THEN /\ files' = [files EXCEPT ![idx] = [stream |-> id, in_use |-> TRUE]]
              /\ held' = [held EXCEPT ![idx] = id]
         ELSE UNCHANGED <<files, held>>
      /\ UNCHANGED <<hosted, lost>>

(* The FILE is free again, whatever the host says. *)
Fclose(f) ==
  /\ held[f] # NoStream
  /\ files' = [files EXCEPT ![f] = [stream |-> @.stream, in_use |-> FALSE]]
  /\ held' = [held EXCEPT ![f] = NoStream]
  /\ \E done \in HostDoes :
       /\ Report("fclose", done, HostError)
       /\ open' = IF done THEN open \ {files[f].stream} ELSE open
  /\ UNCHANGED <<hosted, lost>>

(* The FILE was closed before, and not handed out again. *)
FcloseAgain(f) ==
  /\ held[f] = NoStream
  /\ ~files[f].in_use
  /\ result' = "failed"
  /\ errno' = "EBADF"
  /\ UNCHANGED <<hosted, files, open, held, lost>>

(* The host closes the old stream in any case; when it does not open the   *)
(* new one the program gets no FILE, but the FILE stays in use.            *)
Freopen(f, done, id) ==
  LET closed == open \ {files[f].stream}
  IN  /\ held[f] # NoStream
      /\ done => id \notin closed
      /\ Report("freopen", done, HostError)
      /\ IF Reported("freopen", done)
         THEN /\ files' = [files EXCEPT ![f] = [stream |-> id, in_use |-> TRUE]]
              /\ held' = [held EXCEPT ![f] = id]
              /\ UNCHANGED lost
         ELSE /\ held' = [held EXCEPT ![f] = NoStream]
              /\ lost' = lost \cup {f}
              /\ UNCHANGED files
      /\ open' = IF done THEN closed \cup {id} ELSE closed
      /\ UNCHANGED hosted

StreamsNext ==
  \/ \E f \in File, op \in Positions \cup Formatted \cup Characters \cup Items : Use(f, op)
  \/ \E op \in Paths \cup Descriptors \cup Texts \cup Streamless \cup Lines : UseHost(op)
  \/ \E op \in Opens : TableFull(op)
  \/ \E op \in Opens, done \in HostDoes, id \in Stream : Open(op, done, id)
  \/ \E f \in File : Fclose(f)
  \/ \E f \in File : FcloseAgain(f)
  \/ \E f \in File, done \in HostDoes, id \in Stream : Freopen(f, done, id)

StreamsSpec == StreamsInit /\ [][StreamsNext]_streamVars
-----------------------------------------------------------------------------
(* With a host, every FILE the program has is in use and stands for the    *)
(* stream the host opened for it, which no other FILE of the program       *)
(* stands for; and a FILE is in use only if the program has it, or lost it *)
(* to a freopen that failed - no other error takes one out of the table    *)
(* (stdio.c:115-193, 630-702).                                             *)
FilesKept ==
  hosted =>
    /\ \A f \in File : held[f] # NoStream =>
         /\ files[f] = [stream |-> held[f], in_use |-> TRUE]
         /\ held[f] \in open
         /\ \A g \in File \ {f} : held[g] # held[f]
    /\ \A f \in File : files[f].in_use => held[f] # NoStream \/ f \in lost
=============================================================================
