# A TLA+ model of cryptoflex

cryptoflex is a Python library and command-line tool for hybrid (classical and
post-quantum) encryption of files and messages.  This directory holds TLA+
modules that model it, TLC configurations that check them on small instances,
and theorems that TLAPS proves for every instance.  Line numbers refer to
`src/cryptoflex/` unless a path says otherwise.

Run a check with `tlc -config X.cfg MCModule.tla`, the proofs with
`tlapm StreamProofs.tla`, and likewise `StreamEncryptProofs`,
`StreamMigrationProofs`, `OneShotProofs`, `KeystoreProofs`, `CliFilesProofs`,
`PolicyProofs` and `ReleaseProofs`.

## The system

| Component | State it keeps | Operations | Talks to | What makes it correct |
|---|---|---|---|---|
| Profiles (`profiles.py`), sources (`sources.py`) | a constant registry; key handles | availability, key generation, (de)serialization, encapsulation | liboqs, the environment | the three profiles are totally ordered by strength |
| Policy engine (`policy.py`), `establish_keys()` (`api.py`) | the risk table | construct, decide, generate | sources, while their availability changes | keys are of the decided profile and meet what was asked; a fall back is reported |
| Root keys and combiner (`api.py`, `combiner.py`) | none | derive, recover | sources | both sides get one key exactly when owner, components and their order agree |
| Header codec (`header.py`) | none | write, parse | everything that reads or writes ciphertexts | what is written parses to itself, and what is parsed is written as the same bytes |
| Streaming (`streaming.py`) | per call: a counter, a byte total, a key buffer, the output so far | `encrypt_stream`, `decrypt_stream`, `migrate_stream` | each other, over files or sockets | nonces are never reused; output is a prefix of one input; success means the whole of it |
| One-shot and ephemeral (`api.py`, `ephemeral.py`) | per call: a key buffer | `encrypt`, `decrypt`, `migrate`, `recover_root_key` and twins | combiner, header | all or nothing; one generic error; a key is never given away below the minimum |
| Keystore (`keystore.py`) | a semaphore shared by the threads of a process; per call: a wrapping-key buffer | export, import | files | what is imported is what was exported; the semaphore never leaks |
| CLI and `migrate_file()` (`cli.py`, `api.py`) | files, temporary files, descriptors | keygen, encrypt, decrypt, migrate, info | all of the above, other processes, the disk | a destination holds the old content or the whole new one |
| Release reproduction (`scripts/verify_reproducibility.py`, `scripts/reproduce_release.py`) | a resolved commit, a temporary tree, measured artifacts | resolve, extract, build, compare | git, pip, the platform | a favourable verdict is about the commit reported |
| Other tooling (`scripts/`, `verify_local.py`, `setup.py`) | none | measure, draw, package | pip | out of scope, see below |

What is hard in it: a stream is decrypted while it is read, so that plaintext is
out before the stream is known to be whole; three functions must enforce one set
of limits; migration interleaves two keys and two counters; secrets are wiped on
every exit, with set-up code outside some `try` blocks; commands run concurrently
over the same files, fail at any call, and may be interrupted or lose power;
liboqs may be disabled between two looks at it; the key derivation is behind a
counting semaphore with a timeout; headers are parsed before anything in them is
authenticated, and one function hands out a root key on their word; a release is
rebuilt twice from a repository others push to.

## Modules

```
Profiles <- Policy <- MCPolicy, PolicyProofs
HeaderCodec <- Combiner; Profiles, Combiner <- OneShot <- MCOneShot, OneShotProofs
Profiles <- Keystore <- MCKeystore, KeystoreProofs
Profiles <- StreamCrypto <- StreamEncrypt, StreamDecrypt, StreamMigrate
StreamEncrypt <- StreamEncryptProofs
StreamEncrypt, StreamDecrypt <- StreamChannel <- MCStreamChannel
StreamEncrypt, StreamMigrate, StreamDecrypt <- StreamMigration <- MCStreamMigration
StreamChannel, StreamEncryptProofs <- StreamProofs
StreamMigration, StreamEncryptProofs <- StreamMigrationProofs
AuthenticChannel: what StreamChannel and StreamMigration implement
CliFiles <- MCCliFiles, CliFilesProofs
Release <- MCRelease, ReleaseProofs
```

**StreamCrypto** is the symbolic cryptography.  A root key is the owner of the
key pair together with the components of the header, because the combiner binds
every component and the owner's handles determine the secrets; the nonce is not
part of it.  A ciphertext is the record of key, nonce, associated data and
plaintext, and opens under exactly those.  A nonce is 8 random bytes, which two
streams may share, and the 4-byte number of a frame.  `AcceptsData` and
`AcceptsFinal` are the checks of the reading loop (345-396), all of them.
`CanRecover` compares what `_recover_root_key_internal()` and `decapsulate()` do:
counts, algorithm names, and the length of each ciphertext with the one its handle
takes.  For handles of the three registered profiles that amounts to handles of
the profile the header names, since no two profiles agree in all three.

**StreamEncrypt** has one action per way through `encrypt_stream()`: refuse the
arguments, start (derive the key, write the header), one chunk, a limit, the
FINAL frame, and an I/O failure at any point, which leaves a header, whole frames
and perhaps a torn one.  Any number of calls run concurrently.
**StreamDecrypt** does the same for `decrypt_stream()`: an unreadable header, a
downgrade, any other refusal, opening, a DATA frame, a FINAL frame with or
without data after it, a bad frame, the end of the input.
**StreamMigrate** is `migrate_stream()`, with both counters and both buffers.

**StreamChannel** joins encryptors and a decryptor with a medium, which offers
every header that can be put on the components of a call that has started and
every frame that can be built from ciphertexts written so far: loss, repetition,
reordering, truncation, splicing and rewriting are all included.
**StreamMigration** does it for encryptor, migrator and decryptor; if not
`Faulty`, each of them reads the output of the one before as it is written.
**AuthenticChannel** is the promise without keys, frames or medium: a receiver
reads one sender's chunks in order from the first, and succeeds only at the end
of a finished input.

**HeaderCodec** is `to_bytes()` and `_parse()` over bytes: lengths of one and two
bytes, UTF-8 by the bytes it never contains, both versions.  A byte is a number
below `Base`, so that fields of the greatest length fit in short strings.
**Combiner** is `_encode_info()` over the same bytes, and HKDF as the pair of its
inputs.  **OneShot** puts both under `encrypt()`, `ephemeral_encrypt()`,
`decrypt()`, `migrate()` and `recover_root_key()`, with their key buffers and
error boundaries.  A receiver is given any blob that was sent, changed in any
byte, cut, extended, spliced with another, relabelled with another profile or
turned into version 1.  Calls share nothing, so one runs at a time.

**Policy** is one `establish_keys()` call.  The availability of the post-quantum
sources changes at any moment; each look at a candidate and each generated key is
a step of its own.  The risk table is a public attribute and may be replaced after
the constructor has checked it, also between two candidates: the code reads it once
for each (`policy.py` 121).  That a table is changed in place while a candidate is
looked at is not modelled.  `open`, a history, is the set of the profiles that were
available and acceptable at every look so far.

**Keystore** is a set of concurrent exports and imports.  Imports are given what
exports returned and what another program made, untouched, cut, padded, or with
another magic or salt.  The steps are those between which threads can interleave:
the checks before the derivation, getting a permit or timing out, the derivation,
and the sealing or opening with all checks that follow; derivation, sealing and
opening may each raise.

**CliFiles** models each command as the sequence of the calls it makes
(`Program`), so that each call can raise, and be interleaved with those of other
processes.  A content is what it decodes to; `Torn` is anything partial.
`durable` is the set of contents a path may have after a power failure: replacing
a file adds to it and nothing takes away, because no directory is synced.  A
command that does not succeed ends in one of three ways: `Raise` is an exception
that its `except Exception` clauses see, `Interrupt` a `KeyboardInterrupt`, which
closes the temporary file and does not remove it, and `Kill` runs no clause at all.

**Release** is one run of either release script.  Between any two steps,
references move and unreachable objects are pruned.  An artifact is its commit,
the traces its platform has left in it, and how it differs from other builds; a
build may differ from another in any way.  A trace is one of the things that the
hook injected by `reproduce_release.py` (280-450) and its extraction remove: modes
and line endings of the tree, line endings of the metadata, host fields of the
zip entries, the operating-system byte of the gzip header.  The patches of the
last two may be skipped silently (395-396, 421-422, 441-442), each on its own, and
then leave what the host has put there.  That the rebuild of a genuine release is
recognised on every platform is therefore no property of the scripts, and none is
claimed: it is up to the libraries the patches find.

Operators introduced by the words "A slip" are not part of the models: each is a
plausible mistake in the definition that follows it, kept to show that the
property it would break does depend on that definition.

## Runs

Runs that pass:

| Run | Shows | Bounds |
|---|---|---|
| `stream_faulty` | `NonceUnique`, `PrefixIntegrity`, `CompleteOnSuccess`, `DowngradeHonoured`, `KeyBuffersWiped`, and `Refines`: the functions implement `AuthenticChannel` | two encryptors sharing a base nonce, up to 2 frames and 3 bytes each, recipients right, wrong and of the wrong profile |
| `migrate_faulty` | `MigratedComplete`, `MigrationHonoursMinimum`, `NonceUnique`, `LoopBuffersWiped`; `Refines`: end to end the pipeline implements `AuthenticChannel` | one stream, migrated to the same or a stronger profile |
| `migrate_reliable` | `MigratedAccepted`: nothing genuine is refused; `EventuallyMigrated`, `EventuallyReturned` | a pipeline of three, all profiles and minimums, handles of the right and of another owner, chunk sizes at and past both ends, 3 frames and 4 bytes: every limit is met from both sides |
| `one_shot` | `HeaderCanonical`, `KeyBinds`, `OpensOnlySealed`, `MinimumMet`, `GenuineOpens`, `BuffersWiped` | a sender, another that may migrate the first's blob instead, and a receiver with the keys of two owners and three profiles; four byte values, and every blob one change away from a sent one |
| `policy` | `QuantumSafeKept`, `KeySetComplete`, `FallbackReported`, `HardStopJustified` | all constraints; all tables with up to two of the three records changed to anything, one replaced by another at any moment until the decision; each post-quantum source comes and goes |
| `keystore` | `ImportFaithful`, `ImportedGenuine`, `RoundTrip`, `WrappingKeysWiped`, `PermitsConserved`, `EventuallyReturns` | two threads and one permit, six key sets (four ill-matched), eight foreign keystores (one of them well formed), three passwords, one empty |
| `files` | `DestinationsWhole`, `FailurePreserves`, `NothingLeft`, `PairsMatch`, `InputKept` | two processes over five shared paths, both of them possibly keygen; every command, one-shot and streaming, with aliased paths; interrupts, kills and a power failure |
| `release` | `ReproducibleSound`, `SuccessSound` | two commits, one with artifacts committed under `dist/`, an annotated tag, a branch, two changes of the repository, four reference directories, a platform that leaves every trace and one that leaves only that of gzip |

The bounds are small because the code compares positions with limits and keys
with keys, never two distant frames: two streams are needed to splice, two frames
to reorder, one more than the limit to pass it, and the scaled limits let each of
them be reached first.  Two commands are enough for every pair of calls to
interleave.  The threads of `keystore` are one more than its permits, so that they
wait and time out; the code has two permits, and the theorem covers any number.
The two encryptors of `stream_faulty` have the same base nonce, which is worse
than the shared first eight bytes that the theorems allow.

Every run switches deadlock checking off: a function that has returned, and a
system all of whose calls have returned, rightly stops.

Fairness is assumed in the runs that check liveness (`migrate_reliable`,
`keystore`), and of running calls only: a function that has been called keeps
executing until it returns (`WF` of its next step).  The code has no step that
waits for another actor but the read of a stream, which the medium answers with
a frame or an end, and the semaphore, whose wait ends after thirty seconds.
Nothing is assumed of callers, of the medium when it is faulty, of liboqs, or of
interruptions.

## Where the code and its documents disagree

Each of these runs is expected to end in a violation.

* `migrate_wipe`: `migrate_stream()` fills both key buffers (478, 488) before its
  `try`; if deriving the new key or writing the new header raises, neither is
  wiped.  `SECURITY_HARDENING.md` line 34 promises it for exception paths.
* `migrate_partial`: a source with data after its FINAL frame makes the migration
  raise after it has written a complete new stream, where the docstring
  (`streaming.py` 436-437) says a failed migration's output is partial.
* `files_keygen`: keygen replaces the bundle before it writes the key file; a
  failure in between leaves a bundle whose private half is lost, where the module
  docstring of `cli.py` promises the old files.
* `files_interrupt`: `except Exception` lets a `KeyboardInterrupt` pass, and the
  temporary file of a streaming command stays behind, against the docstring of
  `_atomic_stream_write()`.

A fifth has no run: a command whose final message cannot be printed (a closed pipe,
say) returns 1 after it has replaced its output, where the docstring of `cli.py`,
lines 20-23, says "If the operation fails at any point, the original destination
file is preserved unchanged".  `FailurePreserves` exempts that case and no other.

Seen while modelling, with no run to show for it: the README says that the
engine picks the strongest available profile, where the default constraint prefers
`hybrid_standard` to `hybrid_high` and `fast` prefers `classical_only`
(`policy.py` 161-170); `verify_reproducibility.py` reports the id of the tag
object as the commit when it is given an annotated tag (188), which
`reproduce_release.py` dereferences; a reference directory that cannot be read, or
a temporary directory that cannot be made, ends it with a traceback and not with
`UNABLE_TO_VERIFY`; both scripts measure the first wheel that `dist/` lists, which
may be one that was committed there; `reproduce_release.py` exits with 1 after a
`SUCCESS` whose summary it cannot write; `encrypt()` fills its key buffer and
makes its `AESGCM` object before its `try` (the exception `BuffersWiped` allows,
which the ephemeral twin does not have).  What AES-GCM authenticates as
associated data is bound by other means as well: the components by the key, the
nonce by its use, the profile by the algorithms it must list; it is a second
defence, and `recover_root_key()` relies on the first.  X25519 ignores one bit of its ciphertext, and it is the info of the
combiner, not the secret, that tells the two apart.

Also seen, with no document to set against them: two keygens on the
same paths can each win one file; streaming `migrate_file()` leaks the
descriptor of its temporary file when its input is missing; an exported key set
that was degraded is not marked so when it is imported; with
`require_quantum_safe` the one quantum-safe component may be a deprecated one, if
another is approved.

Some properties exempt exactly what is known to go wrong, and so do not detect it;
what they say is that nothing else does.  `InputKept` exempts a `migrate_file()`
whose output appeared after it compared the paths (`api.py` 377); `PairsMatch` a
keygen stopped between its two files and keygens that overlap (`cli.py` 218, 230);
`NothingLeft` the descriptor that leaks at `api.py` 391, and a temporary file that
cannot be unlinked; `BuffersWiped` an `AESGCM()` that raises at `api.py` 263.

## What is proved

Every safety property that a passing run checks is also a theorem, for all values of the
constants that the named `ASSUME`s allow.

**Encryption and decryption.**  `StreamProofs`, for any number of encryptors, any
chunks, limits, bundles and base nonces, and the medium of `StreamChannel`, faulty
or not: `Invariant` (`Spec => []IInv`), and from it `TypeCorrect`,
`NonceUniqueness`, `Integrity`, `Completeness`, `NoDowngrade`, `BuffersWiped`;
`Refinement`: `StreamChannel` implements `AuthenticChannel`.

None of the properties is inductive.  That a prefix has come out so far says
nothing about the next frame unless the frame number it is opened under is the
position of one chunk of one stream.  `IInv` adds that: in its loop a call has
read and written exactly `eSeq` chunks and frames (`CallInv`); frame i of the
wire is sealed under number i - 1 and carries chunk i, or closes an ended input
(`FrameInv`); the decryptor's number is the length of its output, and once it has
written anything, its key and header are those of one call, whose chunks it has
written (`OutInv`).  A frame that the decryptor accepts is then, by what a
ciphertext binds, that call's frame of that number.  Uniqueness of nonces
follows from `FrameInv`, since two frames of one key have one call.  The
refinement maps the sender the receiver reads to `Origin`, the call whose key and
header the decryptor holds, which never changes once there is one.  What concerns
the encryptors alone (`EncInv`) is proved in `StreamEncryptProofs`, which the
proofs about migration use too.

**Migration.**  `StreamMigrationProofs`, over both media, applies that argument
twice: `MigrationInvariant`, and from it `TypeCorrect`, `NonceUniqueness`,
`WholeMigrations`, `NoLaundering`, `BuffersWiped`; `Refinement`: the three
functions, end to end, implement `AuthenticChannel`.  `BuffersWiped` is about the
frame loop: a call that raises in its set-up does leave a key, as `migrate_wipe`
shows, and the theorem says that no other does.  In `MigrationInv`, frame i
of any output, the migrator's included, carries chunk i of the encryptor at the
root of it (`OutputInv`); the migrator's two keys and headers come and stay
together (`KeysInv`); in its loop both counters are the number of frames written
(`LoopInv`), which is why one nonce sequence can follow the other; and the
decryptor has written a prefix of what was read at the far end (`ReadInv`).

`Acceptance` says the converse, for a medium that only delivers: if the arguments
fit the streams, neither reader refuses anything, unless the encryptor gave up.
It needs an invariant of its own, `DeliveryInv`: what the readers will be offered
is determined frame for frame (`SourceInv`, `TargetInv`), none is ahead of the one
it reads (`Ordered`), and a call that ended in an error had a reason that lasts.
That the three byte totals stay within one limit is a statement about sums; the
invariant says that there is a function with the value 0 at 0 that grows at each
number by the size of the chunk, and that each total is its value at that call's
counter, so that no sum has to be defined.

**One-shot encryption and headers.**  `OneShotProofs`, for any number of calls,
names, ciphertexts and documents of any length: `ParseSound`, what `_parse()`
accepts is what `to_bytes()` writes of the result; `ParseComplete`, it reads back
what is written, whatever follows; `InfoInjective`, no two component lists have
one HKDF info.  These are inductions over the turns of loops.  The induction
theorems of the library cannot be used, as they take an operator, so the loops are
recursive functions of the turn, and what they compute is proved by contradiction
from the least turn at which it would be otherwise (`<` is well-founded).

On them rest `OneShotInvariant`, `TypeCorrect`, `CanonicalHeaders`,
`OpensOnlyWhatWasSealed`, `MinimumIsMet`, `KeyBinding`, `GenuineOpening` and
`BuffersAreWiped`.  `OneShotInv` says what each call holds at each of its steps,
as a function of its arguments, the bytes it was given and the calls that have
returned.  The hard part is that a call whose blob is made now must not collide
with what another one has been given before: bytes made out of the blobs of
finished calls (`Early`, `Delivered`) are none that an unfinished call can still
send, because headers are prefix-free and carry that call's random bytes.  The
assumptions: names are non-empty, valid UTF-8, short enough for their length field
and distinct (`NamesAssumption`); no two calls draw the same random bytes
(`RandomAssumption`); the context string fits its length field
(`ContextAssumption`); ciphertexts are not empty (`LengthsAssumption`).

**Keystore.**  `KeystoreProofs`, for any finite set of threads and any positive
number of permits: `Conservation` and `AtMostLimit`, no more than `Limit`
memory-hard derivations run at once and no exception loses a permit (`GateInv`);
and, from `KeystoreInvariant`, `TypeCorrect`, `KeysWiped`, `Genuine`, `Faithful`
and `RoundTrips`.  `KeystoreInv` says of every thread where its wrapping key is at
each step (`BufferInv`); that the sealed part of what an import is given, however
the bytes around it were changed, was sealed by an export that has returned or by
another program, and why an import can have failed (`ImportInv`); and what an
export returned (`ExportInv`).

**File commands.**  `CliFilesProofs`, for any number of processes, paths and
commands: `FilesInvariant`, `TypeCorrect`, `WholeDestinations`, `FailuresPreserve`,
`NothingIsLeft`, `InputIsKept`.  A command's remaining calls are an increasing part
of its program, so the next one says what its temporary file holds and how many
files it has replaced (`ProcInv`); of a path, `FilesInv` keeps what the power may
leave there (`DiskInv`).  `PairsOfKeygens` (`PairsMatch`) has a hypothesis,
`PairsApart`: two keygens are given the same pair of paths or share none, and what
is on disk at the start matches.  Two keygens that share one path and not the
other leave a half of a pair each, with nothing concurrent in it; the run's
commands satisfy the hypothesis.  Its invariant, `PairInv`, says how far each
keygen got and which ran together.  `FreshAssumption`: a key pair just generated
is in no file.

**Policy engine.**  `PolicyProofs`, for any risk tables that may be installed
while the engine runs: `QuantumSafe`, `Complete`, `Reported` and
`HardStopOnlyThen`, the four properties of the run.  `PInv` adds what the search
knows: every candidate before the present one was, at its turn, unavailable or not
acceptable, so it is no longer in `open` (`SearchInv`); what was chosen
was acceptable then, and the keys made so far are the first ones of the profile
chosen (`ChoiceInv`).  `QuantumSafe` is relative to the table: one that marks
`x25519` as quantum-safe is believed.  If it marks post-quantum algorithms only,
the keys have one of those.

**Release scripts.**  `ReleaseProofs`, for any repository, references, platforms
and number of changes: `Reproducibility` and `Reproduction`.
`RInv` adds what ties the verdict to the commit: once resolved, the commit does
not change (`ShaInv`); the tree is of that commit and has its `dist/`
(`WorkInv`); every artifact made is of it, and every one measured was made or was
committed in `dist/` (`ResultInv`).

The other assumptions are those on the streaming constants: sizes are positive,
limits natural numbers with the frame limit no larger than the largest frame
number a nonce can hold, and absent values distinct from present ones.

Only model-checked is liveness, which is out of the prover's reach:
`EventuallyMigrated`, `EventuallyReturned` and `EventuallyReturns`.

## What is not modelled

* The mathematics of X25519, ML-KEM, HKDF, AES-GCM, Argon2id and scrypt:
  symbolic, and external.  Collisions of random values are not considered, but
  for the 8 bytes of the base nonces, which may collide.
* JSON and base64, password resolution, `info`, chmod, symbolic links, and short
  reads of a raw stream, which `decrypt_stream()` refuses (295).
* Headers in the streaming models are records: that bytes and records correspond
  is what `one_shot` shows.  Lists long enough for more than two bytes of a
  four-byte length are not reached.
* Of the release scripts: the Windows certificate bundle, the normalized sdist,
  which has no part in the verdict, and the output.  The build hook they inject
  (280-450) is modelled by the platform traces that each of its patches removes, or
  leaves when it is skipped, not by the calls it wraps.
* `errors.py`, `__init__.py`: no behaviour of their own.
* The other scripts, `verify_local.py`, `setup.py`, workflows, tests: measurements,
  drawing, packaging and test code, with no state of their own.

## Plan

What is left, in order:

1. An abstract file store (old content or whole new content) and `CliFiles` shown
   to implement it for commands with one output.
2. An abstract sealed box for the one-shot calls, as `AuthenticChannel` is one for
   streams, with `OneShotInv` as the invariant of the refinement.
3. Links and names that resolve differently from one call to the next in
   `CliFiles`.
