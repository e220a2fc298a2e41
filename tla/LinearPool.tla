----------------------------- MODULE LinearPool -----------------------------
(***************************************************************************)
(* The buffer pool of the file-descriptor channels                         *)
(* (src/buffers/buffer_malloc_linear.c): a fixed number of buffers that    *)
(* are granted and taken back in ring order.  A pool is a record of its    *)
(* tail (the oldest buffer in use), how many are in use, and the in-use    *)
(* mark of each header; the functions of the C file are operators on such  *)
(* a record.  A header's id never changes, so it is the header's index and *)
(* the EBUFFERROR branch of acquire needs no field of its own.             *)
(***************************************************************************)
EXTENDS Integers

\* The result of a successful buffer_malloc_linear_new with n buffers.
buffer_malloc_linear_new(n) ==
    [buffer_count |-> n, alloc_tail_idx |-> 0, alloc_count |-> 0,
     in_use |-> [b \in 0..n - 1 |-> FALSE]]

\* The header that the next acquire looks at.
HeadIdx(pool) == (pool.alloc_tail_idx + pool.alloc_count) % pool.buffer_count

\* buffer_malloc_linear_acquire: what it returns, and the pool it leaves.
acquire_error(pool) ==
    IF pool.alloc_count >= pool.buffer_count THEN "ENOBUFFS"
    ELSE IF pool.in_use[HeadIdx(pool)] THEN "EBUFFINUSE" ELSE "ENOERROR"

acquire(pool) ==
    IF acquire_error(pool) # "ENOERROR" THEN pool
    ELSE [pool EXCEPT !.in_use[HeadIdx(pool)] = TRUE, !.alloc_count = @ + 1]

\* buffer_malloc_linear_release of the buffer with this id: only the id is
\* looked at, not whether the buffer is in use.
release_error(pool, id) ==
    IF id # pool.alloc_tail_idx THEN "EWRONGBUFF" ELSE "ENOERROR"

release(pool, id) ==
    IF release_error(pool, id) # "ENOERROR" THEN pool
    ELSE [pool EXCEPT !.in_use[pool.alloc_tail_idx] = FALSE,
                      !.alloc_count = @ - 1,
                      !.alloc_tail_idx = (@ + 1) % pool.buffer_count]
=============================================================================
