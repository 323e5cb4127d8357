----------------------------- MODULE Authenticode -----------------------------
(***************************************************************************)
(* What cp-win/src/signature.rs makes of a file: the hash, the trust of its  *)
(* embedded signature, the trust of a catalog that lists it, and the verdict *)
(* that combines them. Operators only; Scan reads the hash and the trust at  *)
(* two moments, as the code does.                                            *)
(*                                                                           *)
(* A file is a record of what Windows answers about its content:             *)
(*   id        the content: distinct contents have distinct hashes           *)
(*   opens     CreateFileW succeeds                                          *)
(*   admin     the catalog-admin hash calls succeed                          *)
(*   reads     ReadFile succeeds to the end                                  *)
(*   status    WinVerifyTrust: "trusted", "no_signature", "other"            *)
(*   signer    None, or a record of the signer's chain: leaf (a name or      *)
(*             None), root (trusted or not, or None), stamped                *)
(*   catalog   None, or the same answers about the catalog that lists it     *)
(***************************************************************************)
EXTENDS Signals

\* authenticode_hash, with full_file_hash as its fallback. No catalog can be
\* looked up from a plain hash.
AuthenticodeHash(f) ==
    IF f.opens /\ f.admin
    THEN [sha256 |-> <<"authenticode", f.id>>, source |-> "authenticode", catalog |-> f.catalog]
    ELSE IF f.opens /\ f.reads
    THEN [sha256 |-> <<"full_file", f.id>>, source |-> "full_file", catalog |-> None]
    ELSE None

VerifyTrust(f) ==
    [status        |-> f.status,
     signer        |-> IF f.signer = None THEN None ELSE f.signer.leaf,
     chain_trusted |-> IF f.signer = None THEN None ELSE f.signer.root,
     timestamped   |-> IF f.signer = None THEN None ELSE f.signer.stamped]

Trusted(trust) == trust.status = "trusted"

\* A file that is not trusted by itself may be through its catalog.
ViaCatalog(hash, trust) ==
    /\ ~Trusted(trust)
    /\ hash.catalog # None
    /\ Trusted(VerifyTrust(hash.catalog))

SignatureOf(trust, sha256) ==
    IF Trusted(trust)
    THEN Valid(IF trust.signer = None THEN "unknown" ELSE trust.signer, sha256)
    ELSE IF trust.status = "no_signature" THEN Unsigned(sha256)
    ELSE Invalid(trust.signer, sha256)

\* DetailS2
Verification(verified, trust, revocation, source, viaCatalog) ==
    [verified |-> verified, chain_trusted |-> trust.chain_trusted,
     timestamped |-> trust.timestamped, revocation_checked |-> revocation,
     hash_source |-> source, via_catalog |-> viaCatalog]

NoTrust == [status |-> "other", signer |-> None, chain_trusted |-> None, timestamped |-> None]

\* The end of verify(): without a hash there is no verdict.
Verdict(hash, trust) ==
    IF hash = None
    THEN [signature |-> Unavailable, detail |-> Verification(None, NoTrust, None, "none", FALSE)]
    ELSE LET via   == ViaCatalog(hash, trust)
             final == IF via THEN VerifyTrust(hash.catalog) ELSE trust
         IN  [signature |-> SignatureOf(final, hash.sha256),
              detail    |-> Verification(Trusted(final), final, FALSE, hash.source, via)]
=============================================================================
