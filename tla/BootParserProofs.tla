-------------------------- MODULE BootParserProofs --------------------------
(***************************************************************************)
(* Proofs about XeBootParser, for boot arguments of any length: the loop   *)
(* over the tokens computes what the other modules take it to compute, and *)
(* a second pass over the same argument changes nothing on its way.        *)
(***************************************************************************)
EXTENDS XeBootParser, SequenceTheorems, TLAPS

(* A name occurs in an argument at its head or in its tail.                *)
LEMMA NamedSplits ==
  ASSUME NEW args \in Seq(Tokens), args # << >>, NEW names
  PROVE  Named(args, names) <=> Head(args) \in names \/ Named(Tail(args), names)
<1>1. Len(args) \in Nat /\ Len(args) > 0 /\ DOMAIN args = 1 .. Len(args) /\ Head(args) = args[1]
  BY EmptySeq
<1>2. /\ Tail(args) \in Seq(Tokens) /\ Len(Tail(args)) = Len(args) - 1
      /\ DOMAIN Tail(args) = 1 .. Len(args) - 1
      /\ \A i \in 1 .. Len(args) - 1 : Tail(args)[i] = args[i + 1]
  BY HeadTailProperties
<1>3. ASSUME Named(args, names)
      PROVE  Head(args) \in names \/ Named(Tail(args), names)
  <2>1. PICK i \in 1 .. Len(args) : args[i] \in names
    BY <1>1, <1>3 DEF Named
  <2>2. CASE i = 1
    BY <1>1, <2>1, <2>2
  <2>3. CASE i # 1
    <3>1. i - 1 \in 1 .. Len(args) - 1 /\ Tail(args)[i - 1] = args[i]
      BY <1>1, <1>2, <2>3
    <3> QED BY <1>2, <2>1, <3>1 DEF Named
  <2> QED BY <2>2, <2>3
<1>4. ASSUME Head(args) \in names
      PROVE  Named(args, names)
  BY <1>1, <1>4 DEF Named
<1>5. ASSUME Named(Tail(args), names)
      PROVE  Named(args, names)
  <2>1. PICK i \in 1 .. Len(args) - 1 : Tail(args)[i] \in names
    BY <1>2, <1>5 DEF Named
  <2>2. i + 1 \in 1 .. Len(args) /\ args[i + 1] \in names
    BY <1>1, <1>2, <2>1
  <2> QED BY <1>1, <2>2 DEF Named
<1> QED BY <1>3, <1>4, <1>5

(* The flags after one token are those the token names, in addition.       *)
LEMMA SetFlagSets ==
  ASSUME NEW flags \in XeBootFlags, NEW token \in Tokens
  PROVE  /\ SetFlag(flags, token) \in XeBootFlags
         /\ SetFlag(flags, token).verbose <=> flags.verbose \/ token \in {"verbose"}
         /\ SetFlag(flags, token).disableForcewake
              <=> flags.disableForcewake \/ token \in {"noforcewake", "strictsafe"}
         /\ SetFlag(flags, token).disableCommandStream
              <=> flags.disableCommandStream \/ token \in {"nocs", "strictsafe"}
         /\ SetFlag(flags, token).strictSafe <=> flags.strictSafe \/ token \in {"strictsafe"}
<1> USE DEF XeBootFlags
<1>1. CASE token = "verbose"
  BY <1>1 DEF SetFlag
<1>2. CASE token = "noforcewake"
  BY <1>2 DEF SetFlag
<1>3. CASE token = "nocs"
  BY <1>3 DEF SetFlag
<1>4. CASE token = "strictsafe"
  BY <1>4 DEF SetFlag
<1>5. CASE token = "other"
  BY <1>5 DEF SetFlag
<1> QED
  BY <1>1, <1>2, <1>3, <1>4, <1>5 DEF Tokens

(* Parsing the first token and then the rest is parsing the whole.         *)
LEMMA ParsedSplits ==
  ASSUME NEW flags \in XeBootFlags, NEW args \in Seq(Tokens), args # << >>
  PROVE  Parsed(SetFlag(flags, Head(args)), Tail(args)) = Parsed(flags, args)
<1> DEFINE f == SetFlag(flags, Head(args))
           N(names) == Named(args, names)
           T(names) == Named(Tail(args), names)
<1>1. Head(args) \in Tokens
  BY HeadTailProperties
<1>2. /\ N({"verbose"}) <=> Head(args) \in {"verbose"} \/ T({"verbose"})
      /\ N({"noforcewake", "strictsafe"})
           <=> Head(args) \in {"noforcewake", "strictsafe"} \/ T({"noforcewake", "strictsafe"})
      /\ N({"nocs", "strictsafe"})
           <=> Head(args) \in {"nocs", "strictsafe"} \/ T({"nocs", "strictsafe"})
      /\ N({"strictsafe"}) <=> Head(args) \in {"strictsafe"} \/ T({"strictsafe"})
  BY NamedSplits
<1>3. /\ f.verbose \/ T({"verbose"}) <=> flags.verbose \/ N({"verbose"})
      /\ f.disableForcewake \/ T({"noforcewake", "strictsafe"})
           <=> flags.disableForcewake \/ N({"noforcewake", "strictsafe"})
      /\ f.disableCommandStream \/ T({"nocs", "strictsafe"})
           <=> flags.disableCommandStream \/ N({"nocs", "strictsafe"})
      /\ f.strictSafe \/ T({"strictsafe"}) <=> flags.strictSafe \/ N({"strictsafe"})
  BY <1>1, <1>2, SetFlagSets
<1> HIDE DEF f, N, T
<1> QED
  BY <1>3 DEF Parsed, f, N, T

(* The inductive invariant: what is set, together with what is still to be *)
(* parsed, is the result; after the first pass it is set already.          *)
ParserInv ==
  /\ bootArgs \in Seq(Tokens) /\ rest \in Seq(Tokens)
  /\ gXeBoot \in XeBootFlags
  /\ parsed \in BOOLEAN
  /\ Parsed(gXeBoot, rest) = Parsed(NoFlags, bootArgs)
  /\ parsed => gXeBoot = Parsed(NoFlags, bootArgs)

(* At the end of an argument nothing more is set.                          *)
LEMMA ParsedEmpty ==
  ASSUME NEW flags \in XeBootFlags
  PROVE  Parsed(flags, << >>) = flags
BY DEF Parsed, Named, XeBootFlags

(* Parsing what the flags already say leaves them alone at every token.    *)
LEMMA ParsedIdle ==
  ASSUME NEW flags \in XeBootFlags, NEW args \in Seq(Tokens), args # << >>,
         Parsed(flags, args) = flags
  PROVE  SetFlag(flags, Head(args)) = flags
<1> DEFINE f == SetFlag(flags, Head(args))
<1>1. Head(args) \in Tokens
  BY HeadTailProperties
<1>2. /\ Head(args) \in {"verbose"} => flags.verbose
      /\ Head(args) \in {"noforcewake", "strictsafe"} => flags.disableForcewake
      /\ Head(args) \in {"nocs", "strictsafe"} => flags.disableCommandStream
      /\ Head(args) \in {"strictsafe"} => flags.strictSafe
  <2>1. /\ flags.verbose = (flags.verbose \/ Named(args, {"verbose"}))
        /\ flags.disableForcewake
             = (flags.disableForcewake \/ Named(args, {"noforcewake", "strictsafe"}))
        /\ flags.disableCommandStream
             = (flags.disableCommandStream \/ Named(args, {"nocs", "strictsafe"}))
        /\ flags.strictSafe = (flags.strictSafe \/ Named(args, {"strictsafe"}))
    BY DEF Parsed
  <2>2. \A names : Head(args) \in names => Named(args, names)
    BY NamedSplits
  <2> QED BY <2>1, <2>2
<1>3. /\ f \in XeBootFlags
      /\ f.verbose <=> flags.verbose
      /\ f.disableForcewake <=> flags.disableForcewake
      /\ f.disableCommandStream <=> flags.disableCommandStream
      /\ f.strictSafe <=> flags.strictSafe
  BY <1>1, <1>2, SetFlagSets
<1> HIDE DEF f
<1> QED
  BY <1>3 DEF XeBootFlags, f

(* Every token keeps it, and so does the beginning of another pass.        *)
LEMMA ParserStepInv ==
  ASSUME ParserInv, [ParserNext]_parserVars
  PROVE  ParserInv' /\ (parsed => gXeBoot' = gXeBoot)
<1>1. CASE UNCHANGED parserVars
  BY <1>1 DEF parserVars, ParserInv
<1>2. CASE ParseToken
  <2>1. Head(rest) \in Tokens /\ Tail(rest) \in Seq(Tokens)
    BY <1>2, HeadTailProperties DEF ParserInv, ParseToken
  <2>2. gXeBoot' \in XeBootFlags
    BY <1>2, <2>1, SetFlagSets DEF ParserInv, ParseToken
  <2>3. Parsed(gXeBoot', rest') = Parsed(gXeBoot, rest)
    BY <1>2, ParsedSplits DEF ParserInv, ParseToken
  <2>4. parsed => gXeBoot' = gXeBoot
    BY <1>2, ParsedIdle DEF ParserInv, ParseToken
  <2> QED
    BY <1>2, <2>1, <2>2, <2>3, <2>4 DEF ParserInv, ParseToken
<1>3. CASE ParseAgain
  <2>1. gXeBoot = Parsed(NoFlags, bootArgs)
    BY <1>3, ParsedEmpty DEF ParserInv, ParseAgain
  <2>2. Parsed(gXeBoot, bootArgs) = gXeBoot
    BY <2>1 DEF Parsed
  <2> QED
    BY <1>3, <2>1, <2>2 DEF ParserInv, ParseAgain
<1> QED
  BY <1>1, <1>2, <1>3 DEF ParserNext

(* The invariant of the loop.                                              *)
THEOREM ParserInvariant == ParserSpec => []ParserInv
<1>1. ParserInit => ParserInv
  <2>1. NoFlags \in XeBootFlags
    BY DEF NoFlags, XeBootFlags
  <2> QED
    BY <2>1, BootArgsAssumption DEF ParserInit, BootInit, ParserInv
<1> QED BY <1>1, ParserStepInv, PTL DEF ParserSpec

(* The loop of XeParseBootArgs ends with the flags the other modules use,  *)
(* for arguments of any length.                                            *)
THEOREM LoopIsParsed == ParserSpec => []LoopComputesParsed
<1>1. ParserInv => LoopComputesParsed
  BY ParsedEmpty DEF ParserInv, LoopComputesParsed
<1> QED BY <1>1, ParserInvariant, PTL

(* A second pass is invisible to a thread that tests the flags meanwhile.  *)
THEOREM SecondParseIsInvisible == ParserSpec => ReparseIsInvisible
<1>1. ParserInv /\ [ParserNext]_parserVars => [parsed => gXeBoot' = gXeBoot]_parserVars
  BY ParserStepInv
<1> QED BY <1>1, ParserInvariant, PTL DEF ParserSpec, ReparseIsInvisible

=============================================================================
