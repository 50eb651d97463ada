-------------------------- MODULE MCDowngradeApi --------------------------
EXTENDS DowngradeApi, TLC

CONSTANTS c1, c2, h1, h2, good, bad, odd

MCCallers == {c1, c2}
MCHandles == {h1, h2}
MCDocs == {good, bad, odd}
\* Only 14 is missing from the build; odd is rejected by the writer of 5.
MCVersions == {5, 14}
MCTargets == {5}
MCMalformed == {bad}
MCUnsupported == {<<odd, 5>>}
\* A call that can succeed, with and without a message pointer, a rejection by
\* the parser and one by the writer, and a null pointer.
Ask(doc, version) ==
    [doc |-> doc, version |-> version, bitcode |-> TRUE, outBitcode |-> TRUE,
     outMessage |-> TRUE]
MCRequests ==
    {Ask(good, 5), [Ask(good, 5) EXCEPT !.outMessage = FALSE], Ask(bad, 5),
     Ask(odd, 5), [Ask(good, 14) EXCEPT !.bitcode = FALSE]}
=============================================================================
