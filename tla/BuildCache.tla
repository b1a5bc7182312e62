----------------------------- MODULE BuildCache -----------------------------
(***************************************************************************)
(* The cargo target directory that SubstreamsRunner.build shares between   *)
(* all projects: the WASM binary of the last compilation and a stamp with  *)
(* the fingerprint of the sources it is taken to be compiled from.  A      *)
(* project whose fingerprint is on the stamp is packed with the binary as  *)
(* it is.  Builders are the API process, which builds one project at a     *)
(* time, and `pnpm warm:substreams`, a process of its own.                 *)
(***************************************************************************)
CONSTANTS Builders,  \* processes that use the cache
          Sources,   \* fingerprints of the compiled inputs
          None       \* no binary, no stamp

VARIABLES
  binary,   \* what the shared WASM file was compiled from
  stamp,    \* the fingerprint in the stamp file
  builder,  \* the build each process is at
  shipped   \* successful builds: sources of the project, sources of its binary

vars == <<binary, stamp, builder, shipped>>

Idle == [pc |-> "idle", source |-> None, packed |-> None, compiled |-> FALSE]

Init ==
  /\ binary = None
  /\ stamp = None
  /\ builder = [b \in Builders |-> Idle]
  /\ shipped = {}

\* #cacheMatches: the file is there and the stamp is that of the project.
CacheMatches(s) == binary # None /\ stamp = s

\* The sources are hashed and the cache is looked up: `pack` if it matches, else `build`.
Start(b, s) ==
  /\ builder[b].pc = "idle"
  /\ builder' = [builder EXCEPT ![b] =
       [pc |-> IF CacheMatches(s) THEN "pack" ELSE "compile", source |-> s, packed |-> None,
        compiled |-> ~CacheMatches(s)]]
  /\ UNCHANGED <<binary, stamp, shipped>>

\* First half of `substreams build`: cargo puts the binary into CARGO_TARGET_DIR.
Compile(b) ==
  /\ builder[b].pc = "compile"
  /\ binary' = builder[b].source
  /\ builder' = [builder EXCEPT ![b].pc = "pack"]
  /\ UNCHANGED <<stamp, shipped>>

\* Second half, or `substreams pack`: the binary found there goes into the package.
Pack(b) ==
  /\ builder[b].pc = "pack"
  /\ builder' = [builder EXCEPT ![b].pc = "exit", ![b].packed = binary]
  /\ UNCHANGED <<binary, stamp, shipped>>

\* The child exits with 0; a compilation is stamped before the build returns.
Stamp(b) ==
  /\ builder[b].pc = "exit"
  /\ stamp' = IF builder[b].compiled THEN builder[b].source ELSE stamp
  /\ shipped' = shipped \cup {<<builder[b].source, builder[b].packed>>}
  /\ builder' = [builder EXCEPT ![b] = Idle]
  /\ UNCHANGED binary

\* A compiler or packaging error, the timeout, a cancel, the end of the process: no stamp.
Abort(b) ==
  /\ builder[b].pc # "idle"
  /\ builder' = [builder EXCEPT ![b] = Idle]
  /\ UNCHANGED <<binary, stamp, shipped>>

Next == \E b \in Builders :
  \/ \E s \in Sources : Start(b, s)
  \/ Compile(b) \/ Pack(b) \/ Stamp(b) \/ Abort(b)

Spec == Init /\ [][Next]_vars

\* A package contains the binary of its own sources ("A cached WASM binary is reused only
\* when a SHA-256 fingerprint matches every reviewed ... input", docs/end-to-end-flow.md).
PackageIsOfItsSources == \A build \in shipped : build[1] = build[2]

=============================================================================
