------------------------------- MODULE Tier6 --------------------------------
(***************************************************************************)
(* Tier 6: erosion and dilation of labels, Voronoi labeling (tier6/).      *)
(***************************************************************************)
EXTENDS Tier5

\* Labels grow, box and sphere in turn, by radius steps or until nothing changes.
dilate_labels(m, src, dst, radius) ==
  LET steps == Min({radius, m.passes})
      \* Step i of the growth from one image into the other.
      Step(n, flag, active, passive, i) ==
        Then([swept \in {onlyzero_overwrite_maximum(n, active, flag, passive,
                                        IF i % 2 = 0 THEN "box" ELSE "sphere")} |->
        Fill(ReadTo(swept, flag, "FLOAT"), flag)])
  IN Then([made \in {create_like(m, src, dst, LABEL)} |->
     IF radius <= 0 THEN copy(made, src, Ret(made))
     ELSE Then([flip_ \in {copy(made, src, Null)} |->
          Then([flop_ \in {CreateAs(flip_, Ret(flip_))} |->
          Then([flag \in {Create(flop_, <<1, 1, 1>>, 1, "FLOAT")} |->
          LET even == Ret(flip_)
              odd == Ret(flop_)
              Grow(n, i) == Step(n, Ret(flag), IF i % 2 = 0 THEN even ELSE odd,
                                 IF i % 2 = 0 THEN odd ELSE even, i)
          IN Then([grown \in {FoldLeft(Grow, Fill(flag, Ret(flag)), [i \in 1..steps |-> i - 1])} |->
             copy(grown, IF steps % 2 = 0 THEN even ELSE odd, Ret(made))])])])])])

\* What is left of the labels keeps its order, or parts where it no longer touches.
Renumbered(m, temp, to, radius, relabel) ==
  IF relabel
  THEN Then([inDst \in {IF radius % 2 # 0 THEN copy(m, temp, to) ELSE m} |->
       connected_component_labeling(not_equal_constant(inDst, to, temp), temp, to, "sphere")])
  ELSE Then([inTemp \in {IF radius % 2 = 0 THEN copy(m, to, temp) ELSE m} |->
       relabel_sequential(inTemp, temp, to, 4096)])

\* Step i of the erosion, from one image into the other.
Eroded(m, temp, to, i) ==
  minimum_filter(m, IF i % 2 = 0 THEN temp ELSE to, IF i % 2 = 0 THEN to ELSE temp,
                 <<1, 1, 1>>, IF i % 2 = 0 THEN "sphere" ELSE "box")

\* The first step takes the edges away, so that touching labels part.
erode_labels(m, src, dst, radius, relabel) ==
  Then([made \in {create_like(m, src, dst, LABEL)} |->
  LET to == Ret(made)
  IN IF radius <= 0 THEN copy(made, src, to)
     ELSE Then([t \in {CreateAs(made, to)} |->
          Then([t1 \in {CreateAs(t, Ret(t))} |->
          LET temp == Ret(t)
          IN Then([edges \in {binary_not(detect_label_edges(t1, src, temp), temp, Ret(t1))} |->
             Then([masked \in {mask(edges, src, Ret(t1), temp)} |->
             Then([first \in {IF radius = 1 THEN copy(masked, temp, to) ELSE masked} |->
             Then([eroded \in {FoldLeft(LAMBDA n, i : Eroded(n, temp, to, i), first,
                           [i \in 1..radius - 1 |-> i - 1])} |->
             Renumbered(eroded, temp, to, radius, relabel)])])])])])])])

gauss_otsu_labeling(m, src, dst, sigma) ==
  Then([made \in {create_like(m, src, dst, LABEL)} |->
  Then([temp \in {gaussian_blur(made, src, Null, <<sigma, sigma, sigma>>)} |->
  Then([binary \in {threshold_otsu(temp, Ret(temp), Null)} |->
  connected_component_labeling(binary, Ret(binary), Ret(made), "box")])])])

\* Outside the mask labels are negative, so that the zeros the waves fill are within.
masked_voronoi_labeling(m, src, by, dst) ==
  Then([made \in {create_like(m, src, dst, LABEL)} |->
  Then([flip_ \in {create_like(made, src, Null, "FLOAT")} |->
  Then([flop_ \in {create_like(flip_, src, Null, "FLOAT")} |->
  Then([flup \in {create_like(flop_, src, Null, "FLOAT")} |->
  Then([outside \in {add_image_and_scalar(flup, by, Ret(flup))} |->
  Then([labelled \in {connected_component_labeling(outside, src, Ret(flop_), "box")} |->
  Then([start \in {add_images_weighted(labelled, Ret(flop_), Ret(flup), Ret(flip_))} |->
  Then([flag \in {Create(start, <<1, 1, 1>>, 1, "INT32")} |->
  LET Wave(n, i) ==
        LET active == IF i % 2 = 0 THEN Ret(flip_) ELSE Ret(flop_)
            passive == IF i % 2 = 0 THEN Ret(flop_) ELSE Ret(flip_)
        IN Then([swept \in {onlyzero_overwrite_maximum(n, active, Ret(flag), passive,
                                           IF i % 2 = 0 THEN "box" ELSE "sphere")} |->
        Fill(ReadTo(swept, Ret(flag), "INT32"), Ret(flag))])
  IN Then([grown \in {FoldLeft(Wave, Fill(flag, Ret(flag)), [i \in 1..m.passes |-> i - 1])} |->
  mask(grown, IF m.passes % 2 = 0 THEN Ret(flip_) ELSE Ret(flop_), by,
       Ret(made))])])])])])])])])])

voronoi_labeling(m, input_binary, output_labels) ==
  Then([made \in {create_like(m, input_binary, output_labels, LABEL)} |->
  Then([components \in {connected_component_labeling(made, input_binary, Null, "box")} |->
  extend_labeling_via_voronoi(components, Ret(components), Ret(made))])])

proximal_neighbor_count_map(m, labels, dst) ==
  Then([made \in {create_like(m, labels, dst, "UINT32")} |->
  Then([counts \in {proximal_neighbor_count(made, labels, Null)} |->
  Return(replace_intensities(counts, labels, Ret(counts), Ret(made)), Ret(made))])])

remove_small_labels(m, src, dst) == filter_label_by_size(m, src, dst)
remove_large_labels(m, src, dst) == filter_label_by_size(m, src, dst)
exclude_small_labels(m, src, dst) == remove_small_labels(m, src, dst)
exclude_large_labels(m, src, dst) == remove_large_labels(m, src, dst)

=============================================================================
