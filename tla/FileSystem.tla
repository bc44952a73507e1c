----------------------------- MODULE FileSystem -----------------------------
(***************************************************************************)
(* The directory tree of the kernel: the virtual file system               *)
(* (kernel/fs/vfs.c) over the RAM file system (kernel/fs/ramfs.c).         *)
(*                                                                         *)
(* A node is a heap block of type vfs_node_t.  A directory points to its   *)
(* newest child and every child to the next older one.  kmalloc returns    *)
(* any free block, or fails.  The bytes of a freed block are not modelled: *)
(* TreeLinked shows that no call reads them.  A path is the sequence of    *)
(* its components, "" where two slashes meet; paths are shorter than       *)
(* VFS_PATH_MAX.  A file's ramfs_file_t and its contents are in RamFile.   *)
(*                                                                         *)
(* The calls are made at boot and by system calls, which run with          *)
(* interrupts off: each is one step.                                       *)
(***************************************************************************)
EXTENDS Integers, Sequences, FiniteSetsExt

CONSTANTS
    Node,        \* the heap blocks that can hold a vfs_node_t
    NULL,
    Name,        \* the names passed to create, mkdir and unlink
    Component,   \* those without a slash: what a path is made of
    Stored,      \* Stored[n]: n cut to VFS_NAME_MAX - 1 characters
    Paths,       \* the paths passed to vfs_resolve_path and vfs_mount
    MAX_MOUNTS

ASSUME FileSystemAssumption ==
    /\ IsFiniteSet(Node) /\ NULL \notin Node
    /\ Component \subseteq Name /\ "/" \notin Name /\ "" \notin Component
    /\ Paths \subseteq Seq(Component \cup {""})
    /\ Stored \in [Name -> Name]
    /\ \A n \in Name : Stored[Stored[n]] = Stored[n]
    /\ MAX_MOUNTS \in Nat

VARIABLES
    heap,        \* the allocated nodes
    node,        \* the fields of every block
    vfs_root,
    mounts,      \* mount_list, newest first; mount_count is its length
    result       \* of the last call: 0 or -1

vars == <<heap, node, vfs_root, mounts, result>>

Zeroed == [name |-> "", type |-> "FILE", dir_ops |-> FALSE, parent |-> NULL,
           children |-> NULL, next_sibling |-> NULL]

-----------------------------------------------------------------------------
(***************************************************************************)
(* ramfs_readdir: the index-th node of the list of children.               *)
(***************************************************************************)
ramfs_readdir(d, index) ==
    LET child[i \in Nat] ==
          IF i = 0 THEN node[d].children
          ELSE LET c == child[i - 1]
               IN  IF c = NULL THEN NULL ELSE node[c].next_sibling
    IN  IF node[d].type = "DIRECTORY" THEN child[index] ELSE NULL

Indices == 0 .. Cardinality(Node) - 1

(***************************************************************************)
(* The positions in d of the children called name.                         *)
(***************************************************************************)
Named(d, name) ==
    {i \in Indices : /\ ramfs_readdir(d, i) # NULL
                     /\ node[ramfs_readdir(d, i)].name = name}

ramfs_finddir(d, name) ==
    IF Named(d, name) = {} THEN NULL
    ELSE ramfs_readdir(d, Min(Named(d, name)))

(***************************************************************************)
(* Mutant of vfs_resolve_path: every component is looked up in the root.   *)
(***************************************************************************)
vfs_resolve_path_in_root(path) ==
    LET current[i \in 0 .. Len(path)] ==
          IF i = 0 THEN vfs_root
          ELSE IF current[i - 1] = NULL \/ path[i] = "" THEN current[i - 1]
          ELSE ramfs_finddir(vfs_root, path[i])
    IN  current[Len(path)]

vfs_resolve_path(path) ==
    LET current[i \in 0 .. Len(path)] ==
          IF i = 0 THEN vfs_root
          ELSE IF current[i - 1] = NULL \/ path[i] = "" THEN current[i - 1]
          ELSE ramfs_finddir(current[i - 1], path[i])
    IN  current[Len(path)]

-----------------------------------------------------------------------------
Init ==
    /\ heap = {}
    /\ node = [n \in Node |-> Zeroed]
    /\ vfs_root = NULL
    /\ mounts = <<>>
    /\ result = 0

Fails == result' = -1 /\ UNCHANGED <<heap, node, vfs_root, mounts>>

ramfs_create_node(name, type) == [Zeroed EXCEPT !.name = name, !.type = type]

(***************************************************************************)
(* A directory that has the create, unlink and mkdir operations.           *)
(***************************************************************************)
Directory(name) ==
    [ramfs_create_node(name, "DIRECTORY") EXCEPT !.dir_ops = TRUE]

(***************************************************************************)
(* Mutant of MayAdd: names are not looked up first.                        *)
(***************************************************************************)
MayAddAgain(parent, name) ==
    parent # NULL /\ node[parent].dir_ops /\ node[parent].type = "DIRECTORY"

(***************************************************************************)
(* The conditions of vfs_create and vfs_mkdir and of the ramfs operations  *)
(* behind them.                                                            *)
(***************************************************************************)
MayAdd(parent, name) ==
    /\ parent # NULL /\ node[parent].dir_ops
    /\ node[parent].type = "DIRECTORY"
    /\ ramfs_finddir(parent, name) = NULL

(***************************************************************************)
(* Link block n, with the given fields, in front of parent's children.     *)
(***************************************************************************)
AddChild(parent, n, fields) ==
    /\ heap' = heap \cup {n}
    /\ node' = [node EXCEPT
                  ![n] = [fields EXCEPT !.parent = parent,
                                        !.next_sibling = node[parent].children],
                  ![parent].children = n]
    /\ result' = 0
    /\ UNCHANGED <<vfs_root, mounts>>

vfs_create(parent, name, type) ==
    \/ ~MayAdd(parent, name) /\ Fails
    \/ MayAdd(parent, name) /\ Fails        \* kmalloc returns NULL
    \/ /\ MayAdd(parent, name)
       /\ \E n \in Node \ heap :
             AddChild(parent, n, ramfs_create_node(Stored[name], type))

vfs_mkdir(parent, name) ==
    \/ ~MayAdd(parent, name) /\ Fails
    \/ MayAdd(parent, name) /\ Fails        \* kmalloc returns NULL
    \/ /\ MayAdd(parent, name)
       /\ \E n \in Node \ heap :
             AddChild(parent, n, Directory(Stored[name]))

(***************************************************************************)
(* Mutant of Unlinked: the list is cut at its head wherever the node is.   *)
(***************************************************************************)
UnlinkedAtHead(parent, i) ==
    LET child == ramfs_readdir(parent, i)
    IN  [node EXCEPT ![parent].children = node[child].next_sibling]

(***************************************************************************)
(* Mutant of Unlinked: the predecessor keeps its pointer.                  *)
(***************************************************************************)
UnlinkedHeadOnly(parent, i) ==
    LET child == ramfs_readdir(parent, i)
    IN  IF i = 0
        THEN [node EXCEPT ![parent].children = node[child].next_sibling]
        ELSE node

(***************************************************************************)
(* The nodes once the i-th child of parent is out of the list.             *)
(***************************************************************************)
Unlinked(parent, i) ==
    LET child == ramfs_readdir(parent, i)
    IN  IF i = 0
        THEN [node EXCEPT ![parent].children = node[child].next_sibling]
        ELSE [node EXCEPT ![ramfs_readdir(parent, i - 1)].next_sibling =
                             node[child].next_sibling]

(***************************************************************************)
(* ramfs_do_unlink frees the node, and its file, but not what is below it. *)
(***************************************************************************)
vfs_unlink(parent, name) ==
    IF parent # NULL /\ node[parent].dir_ops /\ Named(parent, name) # {}
    THEN LET i     == Min(Named(parent, name))
             child == ramfs_readdir(parent, i)
         IN  /\ node' = [Unlinked(parent, i) EXCEPT ![child] = Zeroed]
             /\ heap' = heap \ {child}
             /\ result' = 0
             /\ UNCHANGED <<vfs_root, mounts>>
    ELSE Fails

MayMount == Len(mounts) < MAX_MOUNTS

vfs_mount(path, root) ==
    \/ /\ MayMount
       /\ mounts' = <<[path |-> path, root |-> root]>> \o mounts
       /\ vfs_root' = IF path = <<>> THEN root ELSE vfs_root
       /\ result' = 0
    \/ result' = -1 /\ UNCHANGED <<mounts, vfs_root>>   \* or no memory

(***************************************************************************)
(* A new RAM file system, mounted at path: ramfs_init and vfs_mount as the *)
(* kernel calls them at boot, for "/".                                     *)
(***************************************************************************)
MountRamfs(path) ==
    \/ Fails                                \* ramfs_init returns NULL
    \/ \E r \in Node \ heap :
          /\ heap' = heap \cup {r}
          /\ node' = [node EXCEPT ![r] = Directory("/")]
          /\ vfs_mount(path, r)

(***************************************************************************)
(* The system calls take the root for the parent and the path for a name.  *)
(***************************************************************************)
sys_mkdir(path)  == vfs_mkdir(vfs_root, path)
sys_unlink(path) == vfs_unlink(vfs_root, path)

Next ==
    \/ \E path \in Paths : MountRamfs(path)
    \/ \E path \in Paths, name \in Component, type \in {"FILE", "DIRECTORY"} :
          vfs_create(vfs_resolve_path(path), name, type)
    \/ \E path \in Paths, name \in Component :
          vfs_mkdir(vfs_resolve_path(path), name)
    \/ \E path \in Paths, name \in Component :
          vfs_unlink(vfs_resolve_path(path), name)
    \/ \E path \in Name : sys_mkdir(path) \/ sys_unlink(path)

Spec == Init /\ [][Next]_vars

-----------------------------------------------------------------------------
Children(d) == {ramfs_readdir(d, i) : i \in Indices} \ {NULL}

Roots == {mounts[i].root : i \in DOMAIN mounts}

(***************************************************************************)
(* The nodes of the mounted file systems.                                  *)
(***************************************************************************)
Reachable ==
    LET level[k \in Nat] ==
          IF k = 0 THEN Roots
          ELSE LET above == level[k - 1]
               IN  above \cup UNION {Children(d) : d \in above}
    IN  level[Cardinality(Node)]

(***************************************************************************)
(* Type invariant of the tree and of the mount table, which never exceeds  *)
(* MAX_MOUNTS.                                                             *)
(***************************************************************************)
TypeOK ==
    /\ heap \subseteq Node
    /\ node \in [Node -> [name : Name \cup {"", "/"},
                          type : {"FILE", "DIRECTORY"},
                          dir_ops : BOOLEAN,
                          parent : Node \cup {NULL},
                          children : Node \cup {NULL},
                          next_sibling : Node \cup {NULL}]]
    /\ vfs_root \in Node \cup {NULL}
    /\ Len(mounts) <= MAX_MOUNTS
    /\ mounts \in Seq([path : Paths, root : Node])
    /\ result \in {0, -1}

(***************************************************************************)
(* The type invariant, and: the lists that ramfs_readdir, ramfs_finddir    *)
(* and ramfs_do_unlink walk end, hold only allocated nodes, and each node  *)
(* is in its parent's list and in no other: no walk reads a block that was *)
(* given back.                                                             *)
(***************************************************************************)
TreeLinked ==
    /\ TypeOK
    /\ Reachable \subseteq heap
    /\ vfs_root \in Roots \cup {NULL}
    /\ \A d \in Reachable :
          /\ ramfs_readdir(d, Cardinality(Node)) = NULL
          /\ d \in Roots <=> node[d].parent = NULL
          /\ \A c \in Children(d) : node[c].parent = d

(***************************************************************************)
(* ramfs_do_create and ramfs_do_mkdir keep names apart: two children of a  *)
(* directory have the same name only if it is one that strncpy cuts a      *)
(* longer name to.                                                         *)
(***************************************************************************)
UniqueNames ==
    \A d \in Reachable, name \in Name :
        Cardinality(Named(d, name)) > 1 =>
            \E long \in Name \ {name} : Stored[long] = name

(***************************************************************************)
(* The path of a node below vfs_root, read upwards along `parent`.         *)
(***************************************************************************)
Ancestor(n) ==
    [k \in Indices |->
        LET up[i \in Nat] ==
              IF i = 0 THEN n
              ELSE LET a == up[i - 1]
                   IN  IF a = NULL THEN NULL ELSE node[a].parent
        IN  up[k]]

PathOf(n) ==
    LET depth == Min({k \in Indices : Ancestor(n)[k] = vfs_root})
    IN  [i \in 1 .. depth |-> node[Ancestor(n)[depth - i]].name]

(***************************************************************************)
(* vfs_resolve_path, walking down the lists, finds every node from the     *)
(* path that `parent` spells upwards, unless a component holds a slash or  *)
(* belongs to two siblings.                                                *)
(***************************************************************************)
ResolveFindsNode ==
    \A n \in Reachable :
        /\ vfs_root # NULL /\ \E k \in Indices : Ancestor(n)[k] = vfs_root
        /\ \A k \in Indices :
              LET a == Ancestor(n)[k]
              IN  a \notin Roots \cup {NULL} =>
                      /\ node[a].name \in Component
                      /\ Cardinality(Named(node[a].parent, node[a].name)) = 1
        => vfs_resolve_path(PathOf(n)) = n

(***************************************************************************)
(* No node is lost but by vfs_unlink of a directory that still has         *)
(* children, which stay allocated with no way to reach them, and by a      *)
(* mount that fails after ramfs_init made its root.                        *)
(***************************************************************************)
Lost == heap \ Reachable

LostOnlyBelowUnlinked ==
    [][ \A n \in Lost' \ Lost :
           \/ n \notin heap /\ node'[n].name = "/" /\ result' = -1
           \/ \E d \in heap \ heap' : node[d].children # NULL ]_vars
=============================================================================
