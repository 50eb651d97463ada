-------------------------- MODULE MCDowngradeCli --------------------------
EXTENDS DowngradeCli, TLC

Words == {"--help", "--version", "--bitcode-version=5.0",
          "--bitcode-version=9.9", "--bitcode-version", "-o=a.bc", "-o",
          "5.0", "a.bc", "-", "--bogus"}
\* Every command line of up to three words, and the usual complete ones.
MCArgvs ==
    (UNION {[1..n -> Words] : n \in 0..3})
    \cup {<<"--bitcode-version", "5.0", f, "-o", "a.bc">> :
            f \in {"a.bc", "b.ll", "c.ll", "-", "none"}}
MCVersionFlag == [a \in {"--bitcode-version=5.0", "--bitcode-version=9.9"} |->
                    IF a = "--bitcode-version=5.0" THEN "5.0" ELSE "9.9"]
MCOutputFlag == [a \in {"-o=a.bc"} |-> "a.bc"]
\* Sizes around the boundaries 2, 4 and 8 of the doubling buffer.
MCFiles == ("-" :> 3) @@ ("a.bc" :> 4) @@ ("b.ll" :> 1) @@ ("c.ll" :> 8)
           @@ ("none" :> 0) @@ ("stdout" :> 0)
=============================================================================
