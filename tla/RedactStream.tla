---------------------------- MODULE RedactStream ----------------------------
(***************************************************************************)
(* redactStream of src/broker.mjs: the transform that removes the injected *)
(* secret from a response body as it streams through, whatever the chunks  *)
(* the body arrives in.  A byte is a member of Byte; the text that replaces *)
(* a secret is the single token Marker.                                    *)
(***************************************************************************)
EXTENDS Naturals, Sequences, FiniteSetsExt, SequencesExt

CONSTANTS
  Byte,
  Marker,              \* "[keeper:redacted]"
  MaxSecret, MaxBody,  \* bounds on lengths
  MaxChunk

ASSUME RedactAssumption ==
  /\ {MaxSecret, MaxBody, MaxChunk} \subseteq Nat \ {0}
  /\ Marker \notin Byte

VARIABLES
  secret,   \* the secret of the lease
  body,     \* history: what the upstream sent so far
  out,      \* what was relayed
  carry,    \* the tail held back
  audited,  \* sanitize events recorded
  ended     \* the upstream is done

redactVars == <<secret, body, out, carry, audited, ended>>

Strings(lo, hi) == {s \in SeqOf(Byte, hi) : Len(s) >= lo}

RedactInit ==
  /\ secret \in Strings(1, MaxSecret)
  /\ body = <<>> /\ out = <<>> /\ carry = <<>>
  /\ audited = 0
  /\ ended = FALSE

-----------------------------------------------------------------------------

\* indexOf(secret, i): the positions where the secret occurs.
Hits(buf) == {i \in 1 .. Len(buf) : IsPrefix(secret, SubSeq(buf, i, Len(buf)))}

\* The indexOf loop: everything up to the last hit, redacted, and the rest.
Scan(buf) ==
  LET from[i \in 1 .. Len(buf) + 1] ==
        LET later == {k \in Hits(buf) : k >= i} IN
        IF later = {} THEN [out |-> <<>>, rest |-> SubSeq(buf, i, Len(buf))]
        ELSE LET k == Min(later)
                 tail == from[k + Len(secret)]
             IN [out |-> SubSeq(buf, i, k - 1) \o <<Marker>> \o tail.out,
                 rest |-> tail.rest]
  IN from[1]

\* Mutant: off by one, the longest proper prefix is not tried.
Keep_short(rest) ==
  Max({k \in 0 .. Max({Len(secret) - 2, 0}) :
         k <= Len(rest) /\ SubSeq(rest, Len(rest) - k + 1, Len(rest)) = SubSeq(secret, 1, k)})

\* The longest proper prefix of the secret that `rest` ends in.
Keep(rest) ==
  Max({k \in 0 .. Len(secret) - 1 :
         k <= Len(rest) /\ SubSeq(rest, Len(rest) - k + 1, Len(rest)) = SubSeq(secret, 1, k)})

\* Mutant: an event per chunk with a hit.
AuditHit_perChunk(buf) == audited' = IF Hits(buf) # {} THEN audited + 1 ELSE audited

\* onFirstHit
AuditHit(buf) == audited' = IF audited = 0 /\ Hits(buf) # {} THEN 1 ELSE audited

\* transform
Chunk(chunk) ==
  LET buf == carry \o chunk
      done == Scan(buf)
      free == Len(done.rest) - Keep(done.rest)
  IN /\ ~ended
     /\ body' = body \o chunk
     /\ out' = out \o done.out \o SubSeq(done.rest, 1, free)
     /\ carry' = SubSeq(done.rest, free + 1, Len(done.rest))
     /\ AuditHit(buf)
     /\ UNCHANGED <<secret, ended>>

\* flush
Flush ==
  /\ ~ended
  /\ ended' = TRUE
  /\ out' = out \o carry
  /\ carry' = <<>>
  /\ UNCHANGED <<secret, body, audited>>

RedactNext ==
  \/ \E chunk \in Strings(1, MaxChunk) : Len(body) + Len(chunk) <= MaxBody /\ Chunk(chunk)
  \/ Flush

RedactSpec == RedactInit /\ [][RedactNext]_redactVars

-----------------------------------------------------------------------------
(* Properties.                                                             *)

\* Redacting the whole body at once: at each position, left to right.
Redacted(text) ==
  LET from[i \in 1 .. Len(text) + 1] ==
        IF i > Len(text) THEN <<>>
        ELSE IF i \in Hits(text) THEN <<Marker>> \o from[i + Len(secret)]
        ELSE <<text[i]>> \o from[i + 1]
  IN from[1]

\* "A secret split across chunk boundaries is still caught": the chunks do not
\* matter.  What was relayed, with the tail held back, is the redaction of the
\* body so far; nothing is lost, duplicated or left in.  "One audit event per
\* request": recorded exactly when something was redacted.
ChunksDoNotMatter ==
  /\ out \o carry = Redacted(body)
  /\ audited = IF Marker \in Range(out) THEN 1 ELSE 0
=============================================================================
