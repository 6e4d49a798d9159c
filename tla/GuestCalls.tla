---------------------------- MODULE GuestCalls -----------------------------
(***************************************************************************)
(* How a call crosses from the i386 engine to a function of the host       *)
(* (tiger_host_uc.c), and how a printf format walks the engine's argument  *)
(* words (tiger_host_files.c).                                             *)
(*                                                                         *)
(* The engine pushes words: one for an int, a pointer or a float, two, low *)
(* first, for a double or a 64-bit integer.  The host's ABI passes typed   *)
(* values.  What travels here is not the value but which words it is made  *)
(* of, so a call is right when each argument is made of its own words and  *)
(* the result is left where the engine will look for it.                   *)
(***************************************************************************)
EXTENDS SequencesExt, Integers

CONSTANT MaxWords       \* the words uc_dispatch forwards to an untyped shim

\* Kinds of argument: "w" a word, "f" a float, "d" a double, "q" 64 bits.
Width(kind) == IF kind \in {"d", "q"} THEN 2 ELSE 1

\* The words of each argument of a cdecl call.
Frame(kinds) ==
    LET Before(i) == FoldLeft(LAMBDA n, k : n + Width(k), 0, SubSeq(kinds, 1, i - 1))
    IN  [i \in DOMAIN kinds |-> [j \in 1 .. Width(kinds[i]) |-> Before(i) + j]]

-----------------------------------------------------------------------------
(* The tables: what the engine's headers say of a function, what the host  *)
(* function bound to it takes, and the class uc_rc_for gives the call.     *)

Doubles == {"sin", "cos", "pow", "sqrt", "log", "log10", "floor", "ceil", "exp2", "sinh"}
Floats == {"sinf", "cosf", "floorf", "ceilf", "expf", "logf", "powf", "exp2f", "log2f"}
Divisions == {"divdi3", "udivdi3", "moddi3", "umoddi3"}
Shifted == {"AddDurationToAbsolute", "SubDurationFromAbsolute"}
Shims == Doubles \cup Floats \cup Divisions \cup Shifted \cup
         {"UpTime", "sqlite3_column_int64", "cblas_sdot", "cblas_snrm2", "CFAbsoluteTimeGetCurrent",
          "atof", "cblas_sgemm", "ssyevr_", "dispatch_time", "dispatch_walltime",
          "dispatch_source_set_timer", "AbsoluteToDuration", "AbsoluteDeltaToDuration",
          "pread", "mmap", "cblas_sscal", "cblas_sgemv", "lrintf", "memcpy"}

Times(n, k) == [i \in 1 .. n |-> k]

Declared(nm) ==
    CASE nm \in {"pow"} -> [args |-> <<"d", "d">>, result |-> "d"]
      [] nm \in Doubles \ {"pow"} -> [args |-> <<"d">>, result |-> "d"]
      [] nm = "powf" -> [args |-> <<"f", "f">>, result |-> "f"]
      [] nm \in Floats \ {"powf"} -> [args |-> <<"f">>, result |-> "f"]
      [] nm \in Divisions -> [args |-> <<"q", "q">>, result |-> "q"]
      [] nm \in Shifted -> [args |-> <<"w", "q">>, result |-> "q"]
      [] nm = "UpTime" -> [args |-> <<>>, result |-> "q"]
      [] nm = "sqlite3_column_int64" -> [args |-> <<"w", "w">>, result |-> "q"]
      [] nm = "cblas_sdot" -> [args |-> Times(5, "w"), result |-> "f"]
      [] nm = "cblas_snrm2" -> [args |-> Times(3, "w"), result |-> "f"]
      [] nm = "CFAbsoluteTimeGetCurrent" -> [args |-> <<>>, result |-> "d"]
      [] nm = "atof" -> [args |-> <<"w">>, result |-> "d"]
      [] nm = "cblas_sgemm" -> [args |-> Times(6, "w") \o <<"f">> \o Times(4, "w") \o <<"f", "w", "w">>,
                                result |-> "none"]
      [] nm = "ssyevr_" -> [args |-> Times(21, "w"), result |-> "none"]
      [] nm = "dispatch_time" -> [args |-> <<"q", "q">>, result |-> "q"]
      [] nm = "dispatch_walltime" -> [args |-> <<"w", "q">>, result |-> "q"]
      [] nm = "dispatch_source_set_timer" -> [args |-> <<"w", "q", "q", "q">>, result |-> "none"]
      [] nm = "AbsoluteToDuration" -> [args |-> <<"q">>, result |-> "w"]
      [] nm = "AbsoluteDeltaToDuration" -> [args |-> <<"q", "q">>, result |-> "w"]
      [] nm = "pread" -> [args |-> <<"w", "w", "w", "q">>, result |-> "w"]
      [] nm = "mmap" -> [args |-> Times(5, "w") \o <<"q">>, result |-> "w"]
      [] nm = "cblas_sscal" -> [args |-> <<"w", "f", "w", "w">>, result |-> "none"]
      [] nm = "cblas_sgemv" -> [args |-> Times(4, "w") \o <<"f">> \o Times(4, "w") \o <<"f", "w", "w">>,
                                result |-> "none"]
      [] nm = "lrintf" -> [args |-> <<"f">>, result |-> "w"]
      [] nm = "memcpy" -> [args |-> Times(3, "w"), result |-> "w"]

\* libm and four shims take typed values; every other shim was declared to
\* take the engine's words and joins the pairs itself (GI64, GFLOAT).
Typed == Doubles \cup Floats \cup Shifted \cup
         {"dispatch_time", "dispatch_walltime", "dispatch_source_set_timer"}

Taken(nm) == IF nm \in Typed THEN Declared(nm).args
             ELSE Times(Len(FlattenSeq(Frame(Declared(nm).args))), "w")

\* As if no function returned 64 bits.
rc_without_pairs(nm) ==
    CASE nm \in Doubles -> "DBL"
      [] nm \in Floats -> "FLT"
      [] OTHER -> "INT"

uc_rc_for(nm) ==
    CASE nm \in {"cblas_sdot", "cblas_snrm2"} -> "FLT_WORDS"
      [] nm = "CFAbsoluteTimeGetCurrent" -> "DBL_WORDS"
      [] nm = "atof" -> "ATOF"
      [] nm = "cblas_sgemm" -> "GEMM"
      [] nm = "ssyevr_" -> "SYEVR"
      [] nm = "dispatch_time" -> "TIME"
      [] nm = "dispatch_walltime" -> "WALLTIME"
      [] nm = "dispatch_source_set_timer" -> "TIMER"
      [] nm \in Shifted -> "I64_I_I64"
      [] nm \in Doubles -> "DBL"
      [] nm \in Floats -> "FLT"
      [] nm \in Divisions \cup {"UpTime", "sqlite3_column_int64"} -> "I64"
      [] OTHER -> "INT"

uc_argc_for(nm) == IF nm \in {"pow", "powf", "atan2", "fmod"} THEN 2 ELSE 1

\* uc_write_slot: the trampolines that end by loading a double from below the stack.
LoadsDouble(rc) == rc \in {"DBL", "FLT", "ATOF", "FLT_WORDS", "DBL_WORDS"}

\* uc_dispatch: the arguments as it hands them on, each with its kind and words.
Handed(rc, argc) ==
    LET Passed(kinds) == LET words == Frame(kinds)
                         IN  [i \in DOMAIN kinds |-> [kind |-> kinds[i], words |-> words[i]]]
    IN  CASE rc = "GEMM" -> Passed(Times(14, "w"))
          [] rc = "SYEVR" -> Passed(Times(21, "w"))
          [] rc = "TIME" -> Passed(<<"q", "q">>)
          [] rc = "WALLTIME" -> Passed(<<"w", "q">>)
          [] rc = "TIMER" -> Passed(<<"w", "q", "q", "q">>)
          [] rc = "I64_I_I64" -> Passed(<<"w", "q">>)
          [] rc = "ATOF" -> Passed(<<"w">>)
          [] rc = "DBL" -> Passed(Times(argc, "d"))
          [] rc = "FLT" -> Passed(Times(argc, "f"))
          [] OTHER -> Passed(Times(MaxWords, "w"))

\* Where uc_dispatch leaves the result.
Left(rc) == CASE rc \in {"TIME", "WALLTIME", "I64_I_I64", "I64"} -> "edx:eax"
              [] LoadsDouble(rc) -> "below the stack"
              [] rc \in {"GEMM", "SYEVR", "TIMER"} -> "nowhere"
              [] OTHER -> "eax"

-----------------------------------------------------------------------------
(* guest_format: a conversion is its length modifier and its letter.       *)

Modifiers == {"", "h", "hh", "l", "ll", "z"}
Letters == {"d", "x", "c", "s", "p", "f", "%", "n"}
Conversions == [len : Modifiers, conv : Letters]

\* The words each conversion of a format takes, of the n there are; a word that is not there reads as 0.
guest_format(fmt, n) ==
    LET Taking(c) == CASE c.conv \in {"d", "x"} -> IF c.len = "ll" THEN 2 ELSE 1
                       [] c.conv \in {"c", "s", "p"} -> 1
                       [] c.conv = "f" -> 2
                       [] OTHER -> 0
        Step(acc, c) == [k |-> acc.k + Taking(c),
                         took |-> Append(acc.took, [j \in 1 .. Taking(c) |->
                                                      IF acc.k + j <= n THEN acc.k + j ELSE 0])]
    IN  FoldLeft(Step, [k |-> 0, took |-> <<>>], fmt).took

\* What the C library would have been pushed for it on i386.
Pushed(c) == CASE c.conv = "f" -> <<"d">>
               [] c.conv \in {"d", "x"} /\ c.len = "ll" -> <<"q">>
               [] c.conv \in {"%", "n"} -> <<>>
               [] OTHER -> <<"w">>

-----------------------------------------------------------------------------
(* What a call must do.                                                    *)

\* Every parameter the host function has is passed as the kind it takes, the
\* words it gets are the engine's frame in order, and the result is left
\* where a caller of that type reads it, the trampoline loading it if need be.
Carried(nm) ==
    LET rc == uc_rc_for(nm)
        handed == Handed(rc, uc_argc_for(nm))
        taken == Taken(nm)
        result == Declared(nm).result
    IN  /\ Len(taken) <= Len(handed)
        /\ \A i \in DOMAIN taken : handed[i].kind = taken[i]
        /\ FlattenSeq([i \in DOMAIN taken |-> handed[i].words]) = FlattenSeq(Frame(Declared(nm).args))
        /\ CASE result \in {"d", "f"} -> Left(rc) = "below the stack" /\ LoadsDouble(rc)
             [] result = "q" -> Left(rc) = "edx:eax" /\ ~LoadsDouble(rc)
             [] result = "w" -> Left(rc) = "eax" /\ ~LoadsDouble(rc)
             [] OTHER -> ~LoadsDouble(rc)

\* Each conversion of a format reads the words the engine pushed for it.
FormatReads(fmt) ==
    LET kinds == FlattenSeq([i \in DOMAIN fmt |-> Pushed(fmt[i])])
        words == Frame(kinds)
        need == FlattenSeq(words)
        got == guest_format(fmt, Len(need))
    IN  /\ FlattenSeq(got) = need
        /\ SelectSeq(got, LAMBDA g : g # <<>>) = words
=============================================================================
