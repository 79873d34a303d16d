------------------------------ MODULE Patches -------------------------------
(***************************************************************************)
(* The patch engine: what a SAFE_AUTOMATIC action does to the text of the  *)
(* file its evidence is in, when the patch is proposed and again when the  *)
(* accepted patches are put on one another.                                *)
(***************************************************************************)
EXTENDS Migration

\* The chain IDs that occur in the digits of other values, and how often.
Digits ==
  LET once(s, T) == {<<s, t>> : t \in T}
  IN [often |-> {"1"} \X ({"11155111", "11155420", "421614", "42161"}
                          \cup {Deployed(t, c) : t \in {"USDC", "LINK"}, c \in ChainKeys}),
      once  |-> once("1", {"10", "130", "1868", "59144", "31337"}) \cup {<<"8453", "84532">>}
                \cup once("10", {Deployed("LINK", c) : c \in {"ethereum", "base-sepolia", "optimism"}})]

\* How often a value occurs in a text, two standing for more than one.
Occurrences(source, text) ==
  CASE source = text                  -> 1
    [] <<source, text>> \in Digits.once  -> 1
    [] <<source, text>> \in Digits.often -> 2
    [] OTHER -> 0

\* What is left of a value in which another one was replaced.
Mangled == "mangled"
Replaced(source, target, text) == IF source = text THEN target ELSE Mangled

-----------------------------------------------------------------------------
(* extractReplaceable                                                      *)

IsRedacted(value) == value \in {REDACTED} \cup {url \o REDACTED : url \in SecretUrls}

LeadingDigits(value) ==
  IF \E id \in KnownIds : value = chainLabel(id)
  THEN CHOOSE id \in KnownIds : value = chainLabel(id) ELSE value

\* What an action replaces and by what, or nothing.
extractReplaceable(a) ==
  IF a.target = None \/ IsRedacted(a.source.value) THEN {}
  ELSE {[source |-> IF a.category = "CHAIN_ID" THEN LeadingDigits(a.source.value) ELSE a.source.value,
         target |-> a.target,
         envKey |-> IF a.category = "ENV_CONFIG" THEN a.source.key ELSE None]}

isWethAction(a) ==
  \/ a.key[1] = "token" /\ "WETH" \in ToSet(a.key)
  \/ a.key[1] = "env" /\ Has(a.key[2], {"WETH"})

-----------------------------------------------------------------------------
(* The patchers: each changes the value of one line, or says why not       *)

Skip(code) == [code |-> code, line |-> 0, text |-> <<>>, source |-> None, target |-> None]

Patch(text, n, r) ==
  [code |-> None, line |-> n, source |-> r.source, target |-> r.target,
   text |-> [text EXCEPT ![n].value = Replaced(r.source, r.target, text[n].value)]]

SafeTemplates == {".env.example", ".env.sample"}
UnsafeEnv     == {".env", ".env.local"}

\* Mutant of envTemplatePatcher: the key is only looked for in the source value.
KeyFromSourceValue(r, where, text) ==
  LET lines == {n \in DOMAIN text : text[n].kind = "env" /\ text[n].name = r.envKey}
      n == CHOOSE n \in lines : TRUE
  IN IF Cardinality(lines) # 1 \/ text[n].value # r.source
     THEN Skip("SOURCE_MISMATCH") ELSE Patch(text, n, r)

\* The key's line, which must be the only one of the key and have the value.
envTemplatePatcher(r, where, text) ==
  LET key == IF r.envKey # None THEN r.envKey ELSE text[where].name
      lines == {n \in DOMAIN text : text[n].kind = "env" /\ text[n].name = key}
      n == CHOOSE n \in lines : TRUE
  IN IF Cardinality(lines) # 1 \/ text[n].value # r.source
     THEN Skip("SOURCE_MISMATCH") ELSE Patch(text, n, r)

\* The token, which must be unique in the text of the file: a number is looked for
\* in everything that is written there, anything else as a string.
jsonConfigPatcher(r, where, text) ==
  LET count(n) == IF r.source \in KnownIds THEN Occurrences(r.source, text[n].value)
                  ELSE IF r.source = text[n].value THEN 1 ELSE 0
  IN IF SumFunction([n \in DOMAIN text |-> count(n)]) # 1 THEN Skip("PATCH_PRECONDITION_FAILED")
     ELSE Patch(text, CHOOSE n \in DOMAIN text : count(n) = 1, r)

\* The evidence line, which must have the value once.
lineValuePatcher(r, where, text, several) ==
  CASE Occurrences(r.source, text[where].value) = 0 -> Skip("SOURCE_MISMATCH")
    [] Occurrences(r.source, text[where].value) > 1 -> Skip(several)
    [] OTHER -> Patch(text, where, r)

tomlConfigPatcher(r, where, text)      == lineValuePatcher(r, where, text, "PATCH_PRECONDITION_FAILED")
solidityAddressPatcher(r, where, text) == lineValuePatcher(r, where, text, "SOURCE_MISMATCH")

\* Mutant of patchScript: a number is a chain ID wherever it is, the last one is taken.
AnyLiteral(a, r, where, text) ==
  LET hits == {n \in DOMAIN text : text[n].value = r.source}
  IN IF hits = {} THEN Skip("SOURCE_MISMATCH")
     ELSE Patch(text, CHOOSE n \in hits : \A m \in hits : m <= n, r)

\* The literal that is the value: the only one, or the one on the evidence line.  A
\* chain ID is one only as the value of a property named for it.
patchScript(a, r, where, text) ==
  LET property(l) == l.kind = "chainId" /\ l.name \in {"chainId", "chain_id", "id"}
      numeric(l) == l.kind \in {"chainId", "number"}
      hits == {n \in DOMAIN text :
                 /\ text[n].value = r.source
                 /\ a.category = "CHAIN_ID" /\ numeric(text[n]) => property(text[n])}
  IN CASE Cardinality(hits) = 1                   -> Patch(text, CHOOSE n \in hits : TRUE, r)
       [] Cardinality(hits) # 1 /\ where \in hits -> Patch(text, where, r)
       [] hits = {}                               -> Skip("SOURCE_MISMATCH")
       [] OTHER                                   -> Skip("PATCH_PRECONDITION_FAILED")

PATCHABLE_CATEGORIES == {"CHAIN_ID", "RPC_URL", "ENV_CONFIG", "TOKEN_ADDRESS", "FRONTEND_NETWORK"}

\* The first evidence in a file: the evidence of a plan is read by line.
EvidenceLine(a, i) ==
  LET lines == {e.line : e \in {x \in a.evidence : x.file = i}}
  IN CHOOSE n \in lines : \A m \in lines : n <= m

\* Mutant of NoContentChange: whatever a patcher produces is proposed.
AlwaysAChange(patch, text) == FALSE

NoContentChange(patch, text) == patch.code = None /\ patch.text = text

\* generatePatch, for an action, the file its evidence is in, and the file's text.
generatePatch(a, i, text) ==
  LET f == Files[i]
      where == EvidenceLine(a, i)
      r == CHOOSE r \in extractReplaceable(a) : TRUE
      patched ==
        IF extractReplaceable(a) = {} THEN Skip("PATCH_PRECONDITION_FAILED")
        ELSE CASE f.path \in SafeTemplates -> envTemplatePatcher(r, where, text)
               [] f.category = "JSON"      -> jsonConfigPatcher(r, where, text)
               [] f.category = "TOML"      -> tomlConfigPatcher(r, where, text)
               [] f.category \in Scripts   -> patchScript(a, r, where, text)
               [] OTHER                    -> solidityAddressPatcher(r, where, text)
      supported == \/ f.path \in SafeTemplates
                   \/ f.category \in ({"JSON", "TOML"} \cup Scripts)
                   \/ IsSolidity(f) /\ a.category = "TOKEN_ADDRESS"
  IN CASE a.automation # SafeAutomatic -> Skip("CHANGESET_NOT_ELIGIBLE")
       [] isWethAction(a) \/ a.category \notin PATCHABLE_CATEGORIES -> Skip("PATCHER_UNSUPPORTED")
       [] f.path \in UnsafeEnv -> Skip("UNSAFE_ENV_FILE")
       [] "binary" \in f.traits \/ ~supported -> Skip("PATCHER_UNSUPPORTED")
       [] OTHER -> IF NoContentChange(patched, text)
                   THEN Skip("SOURCE_MISMATCH") ELSE patched

\* What the generation loop proposes for an action: a patch of its one file.
Generated(a, repo) ==
  LET files == {e.file : e \in a.evidence}
      i == CHOOSE i \in files : TRUE
      patch == IF Cardinality(files) = 1 THEN generatePatch(a, i, repo[i])
               ELSE Skip("PATCH_PRECONDITION_FAILED")
  IN [action |-> a, file |-> IF Cardinality(files) = 1 THEN i ELSE 0, line |-> patch.line,
      status |-> IF patch.code = None THEN "PROPOSED" ELSE "SKIPPED", skipReason |-> patch.code,
      source |-> patch.source, target |-> patch.target]

\* applyPatchToWorkingText, with the values of the change: a target that is already
\* there counts as applied.
applyPatchToWorkingText(change, text) ==
  LET a == [change.action EXCEPT !.source = plain(change.source), !.target = change.target]
      patch == generatePatch(a, change.file, text)
      r == CHOOSE r \in extractReplaceable(a) : TRUE
      there == text[EvidenceLine(a, change.file)].value
  IN IF /\ patch.code # None
        /\ extractReplaceable(a) # {}
        /\ Occurrences(r.target, there) > 0
        /\ Occurrences(r.source, there) = 0
     THEN [patch EXCEPT !.code = None, !.text = text]
     ELSE patch
=============================================================================
