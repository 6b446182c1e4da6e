------------------------------ MODULE Registry ------------------------------
(***************************************************************************)
(* The local package registry (trust-runtime/src/registry.rs) as used by  *)
(* concurrent registry commands: publish_package and download_package run *)
(* in separate processes over one registry directory, with no lock.  A    *)
(* publish is a sequence of file-system steps (the exists check, one copy  *)
(* per file, the digest walk, the metadata write, the index read and the  *)
(* index write), each of which another process can interleave with, and   *)
(* each write may fail; an fs::write that fails after truncating leaves a  *)
(* file that no longer parses.  A file tree is a function from paths       *)
(* (numbers, so that they sort) to contents; a file's bytes and sha256 are *)
(* determined by its content, and a digest is represented by what it      *)
(* digests (SHA-256 taken as collision-free).                              *)
(***************************************************************************)
EXTENDS Naturals, SequencesExt

CONSTANTS
    Publishers,      \* processes running publish_package
    Downloaders,     \* processes running download_package, each with its output_root
    Keys,            \* (name, version) pairs
    Sources,         \* bundle trees a publish may copy from
    NoDir,           \* package_root does not exist
    NoMeta,          \* metadata.json does not exist
    Corrupt,         \* a JSON file that does not parse
    MaxFailures,     \* bound on failing file-system writes
    Configs,         \* [visibility, token] sections init_registry may be given
    Presented,       \* tokens a caller may pass (NoToken: none)
    NoToken,         \* no auth_token / no --token
    MaxInits         \* bound on re-runs of init_registry

VARIABLES
    pkg,             \* per key: NoDir or [files, meta] under packages/<name>/<version>
    index,           \* index.json: a set of [key, sha] summaries, or Corrupt
    pc,              \* per process: [op |-> "idle"] or the call in progress
    out,             \* per downloader: the tree under its output_root
    okCount,         \* history: per key, publishes that returned Ok
    lastOk,          \* history: per downloader, the key of its latest Ok download or NoDir
    failures,
    config,          \* registry.toml: [visibility, token], or Corrupt
    inits            \* re-runs of init_registry so far

vars == <<pkg, index, pc, out, okCount, lastOk, failures, config, inits>>

EmptyTree == [p \in {} |-> NoDir]

-----------------------------------------------------------------------------
\* collect_file_digests: the files of a tree, sorted by path.
Digests(tree) ==
    SetToSortSeq({<<p, tree[p]>> : p \in DOMAIN tree}, LAMBDA a, b : a[1] < b[1])

\* aggregate_package_sha over the sorted digests.
AggregateSha(ds) == <<"sha256", ds>>

\* verify_bundle_tree_against_metadata: file count, then path, bytes and
\* sha256 of each pair, then the aggregate digest.
Verify(tree, meta) ==
    LET ds == Digests(tree)
    IN /\ Len(ds) = Len(meta.files)
       /\ \A i \in 1..Len(ds) : ds[i] = meta.files[i]
       /\ AggregateSha(ds) = meta.sha

\* load_package_metadata succeeded.
HasMeta(k) == pkg[k] # NoDir /\ pkg[k].meta \notin {NoMeta, Corrupt}

\* load_registry_index: a missing index is empty, one that does not parse
\* is an error (which update_registry_index turns into an empty index).
LoadRegistryIndex == IF index = Corrupt THEN {} ELSE index

\* verify_package(k): load the metadata, verify the bundle against it.
VerifyPackage(k) == HasMeta(k) /\ Verify(pkg[k].files, pkg[k].meta)

\* list_packages: the index entries, none if the index does not load.
ListPackages == IF index = Corrupt THEN {} ELSE index

\* write_json_file: the new content, or (a failed create or open) the old
\* file, or (a failed write after the truncating open) one that does not
\* parse.
WriteJsonFailed(old) == {old, Corrupt}

\* A write that may fail: either the new content, or (if failures are left)
\* the old content or, after the truncating open, a file that does not parse.
CanFail == failures < MaxFailures

\* enforce_private_contract, on a section normalize_token has trimmed: a
\* private registry needs a token.
PrivateContract(c) == c.visibility = "private" => c.token # NoToken

\* load_registry_config, then ensure_access: registry.toml parses (and
\* meets the private contract, which every section written does), and a
\* private registry's token equals the one the caller passes.
Access(tok) ==
    /\ config # Corrupt
    /\ config.visibility = "private" => tok = config.token

\* write_registry_config is an fs::write: the old file if the create fails,
\* an empty file (which does not parse) if the write fails after it.
WriteConfigFailed(old) == {old, Corrupt}

Idle(p) == pc' = [pc EXCEPT ![p] = [op |-> "idle"]]

Fail(p) == /\ CanFail /\ failures' = failures + 1 /\ Idle(p)

-----------------------------------------------------------------------------
(* publish_package                                                         *)

Copying(k, src) ==
    [op |-> "publish", step |-> "copy", key |-> k, src |-> src,
     left |-> DOMAIN src, files |-> <<>>, read |-> {}]

\* A publish that skips the package_root.exists() check.
PublishBeginNoCheck(p) ==
    /\ pc[p] = [op |-> "idle"]
    /\ \E k \in Keys, src \in Sources : pc' = [pc EXCEPT ![p] = Copying(k, src)]
    /\ UNCHANGED <<pkg, index, out, okCount, lastOk, failures, config, inits>>

\* load_registry_config and ensure_access refuse a registry.toml that does
\* not parse and a wrong token; the identifier checks pass; then
\* package_root.exists() refuses a version that is already there.  A
\* refused call returns Err having changed nothing.
PublishBegin(p) ==
    /\ pc[p] = [op |-> "idle"]
    /\ \E k \in Keys, src \in Sources, tok \in Presented :
          pc' = IF ~Access(tok) \/ pkg[k] # NoDir THEN pc
                ELSE [pc EXCEPT ![p] = Copying(k, src)]
    /\ UNCHANGED <<pkg, index, out, okCount, lastOk, failures, config, inits>>

\* copy_dir_recursive: create package_root/bundle, then copy one file per
\* step (in read_dir order, any); fs::copy may fail and end the publish,
\* leaving the target file absent or with partial content.
PublishCopy(p) ==
    LET c == pc[p]
        dir == IF pkg[c.key] = NoDir THEN [files |-> EmptyTree, meta |-> NoMeta]
               ELSE pkg[c.key]
    IN /\ c.op = "publish" /\ c.step = "copy"
       /\ IF c.left = {}
          THEN /\ pkg' = [pkg EXCEPT ![c.key] = dir]
               /\ pc' = [pc EXCEPT ![p].step = "digest"]
               /\ UNCHANGED failures
          ELSE \E f \in c.left :
                  \/ /\ pkg' = [pkg EXCEPT ![c.key] =
                                   [dir EXCEPT !.files = [q \in DOMAIN dir.files \cup {f} |->
                                                             IF q = f THEN c.src[f]
                                                             ELSE dir.files[q]]]]
                     /\ pc' = [pc EXCEPT ![p].left = c.left \ {f}]
                     /\ UNCHANGED failures
                  \/ /\ \E partial \in {dir.files, [q \in DOMAIN dir.files \cup {f} |->
                                                   IF q = f THEN Corrupt ELSE dir.files[q]]} :
                           pkg' = [pkg EXCEPT ![c.key] = [dir EXCEPT !.files = partial]]
                     /\ Fail(p)
       /\ UNCHANGED <<index, out, okCount, lastOk, config, inits>>

\* collect_file_digests over what package_root/bundle now holds; an empty
\* payload ends the publish.
PublishDigest(p) ==
    LET c == pc[p]
        ds == Digests(pkg[c.key].files)
    IN /\ c.op = "publish" /\ c.step = "digest"
       /\ IF ds = <<>>
          THEN Idle(p)
          ELSE pc' = [pc EXCEPT ![p].step = "meta", ![p].files = ds]
       /\ UNCHANGED <<pkg, index, out, okCount, lastOk, failures, config, inits>>

\* write_json_file(metadata.json); then the index is updated.
PublishMeta(p) ==
    LET c == pc[p]
    IN /\ c.op = "publish" /\ c.step = "meta"
       /\ \/ /\ pkg' = [pkg EXCEPT ![c.key].meta = [files |-> c.files,
                                                    sha |-> AggregateSha(c.files)]]
             /\ pc' = [pc EXCEPT ![p].step = "indexRead"]
             /\ UNCHANGED failures
          \/ /\ \E m \in WriteJsonFailed(pkg[c.key].meta) : pkg' = [pkg EXCEPT ![c.key].meta = m]
             /\ Fail(p)
       /\ UNCHANGED <<index, out, okCount, lastOk, config, inits>>

\* update_registry_index, first half: load_registry_index, an unreadable
\* index replaced by an empty one (unwrap_or_default).
PublishIndexRead(p) ==
    LET c == pc[p]
    IN /\ c.op = "publish" /\ c.step = "indexRead"
       /\ pc' = [pc EXCEPT ![p].step = "indexWrite",
                           ![p].read = LoadRegistryIndex]
       /\ UNCHANGED <<pkg, index, out, okCount, lastOk, failures, config, inits>>

\* update_registry_index, second half: drop the key's entry, add the new
\* summary, write index.json.  Success returns Ok from publish_package.
PublishIndexWrite(p) ==
    LET c == pc[p]
        new == {e \in c.read : e.key # c.key} \cup
               {[key |-> c.key, sha |-> AggregateSha(c.files)]}
    IN /\ c.op = "publish" /\ c.step = "indexWrite"
       /\ \/ /\ index' = new
             /\ okCount' = [okCount EXCEPT ![c.key] = @ + 1]
             /\ Idle(p)
             /\ UNCHANGED failures
          \/ /\ index' \in WriteJsonFailed(index)
             /\ Fail(p)
             /\ UNCHANGED okCount
       /\ UNCHANGED <<pkg, out, lastOk, config, inits>>

-----------------------------------------------------------------------------
(* download_package                                                        *)

\* The tree a copy of src over dest leaves: src's files, and dest's others.
CopyOver(dest, src) ==
    [q \in DOMAIN dest \cup DOMAIN src |-> IF q \in DOMAIN src THEN src[q] ELSE dest[q]]

\* ensure_empty_output_dir, accepting a non-empty directory.
OutputEmptyAlways(tree) == TRUE

\* ensure_empty_output_dir: output_root is absent or an empty directory.
OutputEmpty(tree) == DOMAIN tree = {}

\* download_package(k, verify_before_install): the configuration and
\* access check, then load the metadata, verify the
\* registry copy if asked, refuse a non-empty output_root, copy the bundle
\* (which may fail part way), verify the output if asked.  Only output_root
\* changes; the registry is read.
Download(d) ==
    /\ \E k \in Keys, verify \in BOOLEAN, tok \in Presented :
          LET files == pkg[k].files
              meta  == pkg[k].meta
              ready == /\ Access(tok)
                       /\ HasMeta(k)
                       /\ verify => Verify(files, meta)
                       /\ OutputEmpty(out[d])
          IN IF ~ready
             THEN /\ lastOk' = [lastOk EXCEPT ![d] = NoDir]
                  /\ UNCHANGED <<out, failures>>
             ELSE \/ /\ out' = [out EXCEPT ![d] = CopyOver(out[d], files)]
                     /\ lastOk' = [lastOk EXCEPT ![d] =
                                      IF verify => Verify(CopyOver(out[d], files), meta)
                                      THEN k ELSE NoDir]
                     /\ UNCHANGED failures
                  \/ /\ CanFail
                     /\ failures' = failures + 1
                     /\ \E kept \in SUBSET DOMAIN files \ {DOMAIN files} :
                           out' = [out EXCEPT ![d] =
                                      CopyOver(out[d], [q \in kept |-> files[q]])]
                     /\ lastOk' = [lastOk EXCEPT ![d] = NoDir]
    /\ UNCHANGED <<pkg, index, pc, okCount, config, inits>>

\* The operator empties an output directory.
ClearOutput(d) ==
    /\ out[d] # EmptyTree
    /\ out' = [out EXCEPT ![d] = EmptyTree]
    /\ lastOk' = [lastOk EXCEPT ![d] = NoDir]
    /\ UNCHANGED <<pkg, index, pc, okCount, failures, config, inits>>

-----------------------------------------------------------------------------
\* init_registry run again on the existing registry, with a visibility and
\* token: the layout exists, a private section without a token is refused,
\* registry.toml is rewritten (an fs::write, which can fail), and index.json
\* is left alone because it is a file (even one that does not parse).
InitRegistry ==
    /\ inits < MaxInits
    /\ \E c \in Configs :
          /\ PrivateContract(c)
          /\ \/ /\ config' = c
                /\ UNCHANGED failures
             \/ /\ CanFail
                /\ failures' = failures + 1
                /\ config' \in WriteConfigFailed(config)
    /\ inits' = inits + 1
    /\ UNCHANGED <<pkg, index, pc, out, okCount, lastOk>>

\* The registry after init_registry: registry.toml, an empty index, no
\* packages.
Init ==
    /\ pkg = [k \in Keys |-> NoDir]
    /\ index = {}
    /\ pc = [p \in Publishers |-> [op |-> "idle"]]
    /\ out = [d \in Downloaders |-> EmptyTree]
    /\ okCount = [k \in Keys |-> 0]
    /\ lastOk = [d \in Downloaders |-> NoDir]
    /\ failures = 0
    /\ config \in {c \in Configs : PrivateContract(c)}
    /\ inits = 0

Next ==
    \/ \E p \in Publishers :
          \/ PublishBegin(p) \/ PublishCopy(p) \/ PublishDigest(p)
          \/ PublishMeta(p) \/ PublishIndexRead(p) \/ PublishIndexWrite(p)
    \/ \E d \in Downloaders : Download(d) \/ ClearOutput(d)
    \/ InitRegistry

Spec == Init /\ [][Next]_vars

-----------------------------------------------------------------------------
\* Spec section 4.6, "Republishing an existing (name, version) is refused":
\* publish_package returns Ok at most once per (name, version), however the
\* publishes and their failures interleave.
PublishedOnce == \A k \in Keys : okCount[k] <= 1

\* verify_package succeeds for every package index.json lists, with the
\* digest the index records, whatever earlier publishes failed part way.
ListedVerifies ==
    \A e \in ListPackages : VerifyPackage(e.key) /\ pkg[e.key].meta.sha = e.sha

\* A download_package that returned Ok left in output_root exactly the files
\* the package's metadata lists, with or without verify_before_install.
DownloadIntact ==
    \A d \in Downloaders :
        lastOk[d] # NoDir => Digests(out[d]) = pkg[lastOk[d]].meta.files

====
