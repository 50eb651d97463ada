-------------------------- MODULE DowngradeTypes --------------------------
(***************************************************************************)
(* The data of the C API of lib/llvm-downgrade.cpp that its abstract and   *)
(* its detailed specification share.  An input document is a model value;  *)
(* what the parser and the writers say of it is given by two constants.    *)
(***************************************************************************)
EXTENDS Naturals

CONSTANTS
    Callers,     \* threads of the host program that call the library
    Handles,     \* addresses the allocators can hand out
    Docs,        \* input documents (bitcode or textual IR)
    Versions,    \* bitcode versions a caller may ask for
    Targets,     \* those compiled into this build (LLVMDG_HAS_140 ...)
    Malformed,   \* documents parseIR rejects
    Unsupported, \* <<document, version>> pairs a writer rejects
    Requests,    \* the calls the callers make
    Free, Null, Garbage, NoCaller, NoDoc

ASSUME TargetsAssumption == Targets \subseteq Versions
ASSUME DocsAssumption ==
    Malformed \subseteq Docs /\ Unsupported \subseteq Docs \X Versions
\* The arguments of LLVMDGDowngrade; the Boolean fields say which of the
\* three pointers the caller passes are not null.
Arguments == [doc : Docs, version : Versions, bitcode : BOOLEAN,
              outBitcode : BOOLEAN, outMessage : BOOLEAN]

ASSUME RequestsAssumption == Requests \subseteq Arguments /\ Requests # {}
ASSUME DistinctAssumption ==
    /\ Null \notin Handles /\ Garbage \notin Handles /\ Null # Garbage
    /\ NoCaller \notin Callers
    /\ NoDoc \notin Docs
    /\ Free \notin Docs \X Targets
    /\ Free \notin {"arguments", "version", "parse", "unsupported",
                    "exception", "unknown"}

\* The bytes of a result: nothing but the input and the target decide them.
Contents == Docs \X Targets
Converted(r) == <<r.doc, r.version>>

Texts == {"arguments", "version", "parse", "unsupported", "exception",
          "unknown"}

ArgumentsOK(r) == r.bitcode /\ r.outBitcode
VersionOK(r) == r.version \in Targets
Accepted(r) == ArgumentsOK(r) /\ VersionOK(r)
Parses(r) == r.doc \notin Malformed
Writable(r) == Converted(r) \notin Unsupported
Servable(r) == Accepted(r) /\ Parses(r) /\ Writable(r)

\* The errors that are true of a request.  An accepted request may also be
\* interrupted by an exception of the library underneath (out of memory).
Reasons(r) ==
    IF ~ArgumentsOK(r) THEN {"arguments"}
    ELSE IF ~VersionOK(r) THEN {"version"}
    ELSE {"exception", "unknown"}
         \cup (IF Parses(r) THEN {} ELSE {"parse"})
         \cup (IF Parses(r) /\ ~Writable(r) THEN {"unsupported"} ELSE {})
=============================================================================
